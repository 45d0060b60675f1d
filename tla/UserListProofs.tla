--------------------------- MODULE UserListProofs ---------------------------
(***************************************************************************)
(* Theorems about UserList, for every finite set of users, all nicknames   *)
(* and scores and every capacity of an UCHANGE: the list on the screen is  *)
(* the client's tree, in the chosen order, and a key acts on no item that  *)
(* is gone.                                                                *)
(***************************************************************************)
EXTENDS UserList, TLAPS, FiniteSetTheorems, SequenceTheorems, WellFoundedInduction

(* Induction as a fact about sets of numbers. *)
LEMMA NatInduct ==
  ASSUME NEW S \in SUBSET Nat, 0 \in S, \A n \in S : n + 1 \in S
  PROVE  \A n \in Nat : n \in S
<1> DEFINE R == {p \in Nat \X Nat : p[1] < p[2]}
<1>1. IsWellFoundedOn(R, Nat)
  BY NatLessThanWellFounded DEF OpToRel
<1>2. \A x, y \in Nat : y < x => <<y, x>> \in R
  OBVIOUS
<1> HIDE DEF R
<1>3. SUFFICES ASSUME Nat \ S # {} PROVE FALSE
  OBVIOUS
<1>4. PICK n \in Nat \ S : \A m \in Nat \ S : ~ (<<m, n>> \in R)
  BY <1>1, <1>3, WFMin
<1>5. \A m \in Nat \ S : ~ (m < n)
  BY <1>2, <1>4
<1>6. n # 0 /\ n - 1 \in Nat /\ n - 1 < n
  BY <1>4
<1>7. n - 1 \in S
  BY <1>5, <1>6
<1>8. (n - 1) + 1 = n
  BY <1>6
<1> QED
  BY <1>4, <1>7, <1>8
----------------------------------------------------------------------------
(* An order that may be sorted by, and what it is to be sorted by it. *)
Orders(S, R) ==
  /\ \A x, y \in S : x = y \/ <<x, y>> \in R \/ <<y, x>> \in R
  /\ \A x, y, z \in S : <<x, y>> \in R /\ <<y, z>> \in R => <<x, z>> \in R

InTurn(s, S, R) ==
  /\ Range(s) = S
  /\ \A i, j \in DOMAIN s : i < j => <<s[i], s[j]>> \in R

(* A set that is not empty has a last element, and can be sorted. *)
LEMMA LastExists ==
  ASSUME NEW S, NEW R, Orders(S, R)
  PROVE  \A n \in Nat : \A T \in SUBSET S :
           IsFiniteSet(T) /\ Cardinality(T) = n /\ T # {} =>
             \E m \in T : \A x \in T \ {m} : <<x, m>> \in R
<1> DEFINE Latest(T) == \E m \in T : \A x \in T \ {m} : <<x, m>> \in R
           N == {n \in Nat : \A T \in SUBSET S :
                   IsFiniteSet(T) /\ Cardinality(T) = n /\ T # {} => Latest(T)}
<1>1. 0 \in N
  <2>1. \A T \in SUBSET S : IsFiniteSet(T) /\ Cardinality(T) = 0 => T = {}
    BY FS_EmptySet
  <2> QED
    BY <2>1
<1>2. ASSUME NEW n \in N PROVE n + 1 \in N
  <2>1. SUFFICES ASSUME NEW T \in SUBSET S, IsFiniteSet(T), Cardinality(T) = n + 1
                 PROVE  T # {} => Latest(T)
    BY <1>2
  <2>2. SUFFICES ASSUME NEW y \in T PROVE Latest(T)
    OBVIOUS
  <2>3. PICK U \in SUBSET S : U = T \ {y}
    OBVIOUS
  <2>4. IsFiniteSet(U) /\ Cardinality(U) = n
    <3>1. IsFiniteSet(U) /\ Cardinality(U) = Cardinality(T) - 1
      BY <2>1, <2>2, <2>3, FS_RemoveElement
    <3>2. n \in Nat
      BY <1>2
    <3> QED
      BY <2>1, <3>1, <3>2
  <2>5. CASE U = {}
    BY <2>2, <2>3, <2>5
  <2>6. CASE U # {}
    <3>1. PICK m \in U : \A x \in U \ {m} : <<x, m>> \in R
      BY <2>4, <2>6
    <3>2. m # y /\ m \in S /\ y \in S
      BY <2>3, <3>1
    <3>3. CASE <<y, m>> \in R
      BY <2>3, <3>1, <3>3
    <3>4. CASE <<m, y>> \in R
      <4>1. ASSUME NEW x \in T \ {y} PROVE <<x, y>> \in R
        BY <2>3, <3>1, <3>2, <3>4, <4>1 DEF Orders
      <4> QED
        BY <4>1
    <3> QED
      BY <3>2, <3>3, <3>4 DEF Orders
  <2> QED
    BY <2>5, <2>6
<1> HIDE DEF Latest, N
<1>3. \A n \in Nat : n \in N
  <2>1. N \in SUBSET Nat
    BY DEF N
  <2> QED
    BY <1>1, <1>2, <2>1, NatInduct
<1> QED
  BY <1>3 DEF N, Latest

LEMMA SortExists ==
  ASSUME NEW S, NEW R, Orders(S, R)
  PROVE  \A n \in Nat : \A T \in SUBSET S :
           IsFiniteSet(T) /\ Cardinality(T) = n => \E s \in [1 .. n -> T] : InTurn(s, T, R)
<1> DEFINE N == {n \in Nat : \A T \in SUBSET S :
                   IsFiniteSet(T) /\ Cardinality(T) = n =>
                     \E s \in [1 .. n -> T] : InTurn(s, T, R)}
<1>1. 0 \in N
  <2>1. \A T \in SUBSET S : IsFiniteSet(T) /\ Cardinality(T) = 0 => T = {}
    BY FS_EmptySet
  <2>2. PICK s : s = [i \in 1 .. 0 |-> {}]
    OBVIOUS
  <2>3. s \in [1 .. 0 -> {}] /\ DOMAIN s = {}
    BY <2>2
  <2>4. InTurn(s, {}, R)
    BY <2>3 DEF InTurn, Range
  <2> QED
    BY <2>1, <2>3, <2>4
<1>2. ASSUME NEW n \in N PROVE n + 1 \in N
  <2>1. SUFFICES ASSUME NEW T \in SUBSET S, IsFiniteSet(T), Cardinality(T) = n + 1
                 PROVE  \E s \in [1 .. n + 1 -> T] : InTurn(s, T, R)
    BY <1>2
  <2>2. n \in Nat /\ T # {}
    BY <1>2, <2>1, FS_EmptySet
  <2>3. PICK m \in T : \A x \in T \ {m} : <<x, m>> \in R
    BY <2>1, <2>2, LastExists
  <2>4. PICK U \in SUBSET S : U = T \ {m}
    OBVIOUS
  <2>5. IsFiniteSet(U) /\ Cardinality(U) = n
    <3>1. IsFiniteSet(U) /\ Cardinality(U) = Cardinality(T) - 1
      BY <2>1, <2>3, <2>4, FS_RemoveElement
    <3> QED
      BY <2>1, <2>2, <3>1
  <2>6. PICK s \in [1 .. n -> U] : InTurn(s, U, R)
    BY <2>5
  <2>7. PICK t : t = [i \in 1 .. n + 1 |-> IF i <= n THEN s[i] ELSE m]
    OBVIOUS
  <2>8. /\ DOMAIN t = 1 .. n + 1 /\ t[n + 1] = m
        /\ \A i \in 1 .. n : t[i] = s[i] /\ s[i] \in U
    BY <2>2, <2>6, <2>7
  <2>9. \A i \in 1 .. n + 1 : i \in 1 .. n \/ i = n + 1
    BY <2>2
  <2>10. t \in [1 .. n + 1 -> T]
    BY <2>4, <2>7, <2>8, <2>9
  <2>11. Range(t) = T
    <3>1. \A x \in U : \E i \in 1 .. n : s[i] = x
      BY <2>6 DEF InTurn, Range
    <3>2. n + 1 \in 1 .. n + 1 /\ \A i \in 1 .. n : i \in 1 .. n + 1
      BY <2>2
    <3>3. \A x \in T : \E i \in 1 .. n + 1 : t[i] = x
      BY <2>4, <2>8, <3>1, <3>2
    <3> QED
      BY <2>8, <2>10, <3>3 DEF Range
  <2>12. ASSUME NEW i \in DOMAIN t, NEW j \in DOMAIN t, i < j PROVE <<t[i], t[j]>> \in R
    <3>1. i \in 1 .. n /\ (j \in 1 .. n \/ j = n + 1)
      BY <2>2, <2>8, <2>12
    <3>2. CASE j \in 1 .. n
      <4>1. <<s[i], s[j]>> \in R
        BY <2>6, <2>12, <3>1, <3>2 DEF InTurn
      <4> QED
        BY <2>8, <3>1, <3>2, <4>1
    <3>3. CASE j = n + 1
      BY <2>3, <2>4, <2>8, <3>1, <3>3
    <3> QED
      BY <3>1, <3>2, <3>3
  <2> QED
    BY <2>10, <2>11, <2>12 DEF InTurn
<1> HIDE DEF N
<1>3. \A n \in Nat : n \in N
  <2>1. N \in SUBSET Nat
    BY DEF N
  <2> QED
    BY <1>1, <1>2, <2>1, NatInduct
<1> QED
  BY <1>3 DEF N

(* InOrder finds such a sequence, and has each element once. *)
LEMMA InOrderFacts ==
  ASSUME NEW S, IsFiniteSet(S), NEW R, Orders(S, R)
  PROVE  LET s == InOrder(S, R) IN
         /\ s \in Seq(S) /\ Len(s) = Cardinality(S) /\ InTurn(s, S, R)
         /\ \A i, j \in DOMAIN s : s[i] = s[j] => i = j
<1>1. PICK n \in Nat : n = Cardinality(S)
  BY FS_CardinalityType
<1>2. \E s \in [1 .. n -> S] : InTurn(s, S, R)
  BY <1>1, SortExists
<1>3. PICK s : s = InOrder(S, R)
  OBVIOUS
<1>4. s \in [1 .. n -> S] /\ InTurn(s, S, R)
  BY <1>1, <1>2, <1>3 DEF InOrder, InTurn
<1>5. s \in Seq(S) /\ Len(s) = n /\ DOMAIN s = 1 .. n
  BY <1>4
<1>6. \A x \in S : \E i \in 1 .. n : s[i] = x
  BY <1>4 DEF InTurn, Range
<1>7. IsFiniteSet(1 .. n) /\ Cardinality(1 .. n) = n
  <2>1. n \in Int /\ 1 \in Int /\ (IF 1 > n THEN 0 ELSE n - 1 + 1) = n
    BY <1>1
  <2> QED
    BY <2>1, FS_Interval
<1>8. ASSUME NEW i \in 1 .. n, NEW j \in 1 .. n, s[i] = s[j] PROVE i = j
  <2>1. SUFFICES ASSUME i # j PROVE FALSE
    OBVIOUS
  <2>2. PICK D : D = 1 .. n \ {i}
    OBVIOUS
  <2>3. IsFiniteSet(D) /\ Cardinality(D) = n - 1
    BY <1>7, <2>2, FS_RemoveElement
  <2>4. \A x \in S : \E k \in D : s[k] = x
    BY <1>6, <1>8, <2>1, <2>2
  <2>5. PICK g : g = [x \in S |-> CHOOSE k \in D : s[k] = x]
    OBVIOUS
  <2>6. g \in [S -> D] /\ \A x \in S : s[g[x]] = x
    BY <2>4, <2>5
  <2>7. Cardinality(D) < Cardinality(S)
    BY <1>1, <2>3
  <2>8. PICK x \in S, y \in S : x # y /\ g[x] = g[y]
    BY <2>3, <2>6, <2>7, FS_PigeonHole
  <2> QED
    BY <2>6, <2>8
<1> QED
  BY <1>1, <1>3, <1>4, <1>5, <1>8

(* Took.  F holds the trees that t becomes as the users of q are taken.    *)
Steps(F, n, s, q) == F = [i \in 0 .. n |-> IF i = 0 THEN s ELSE Updated(F[i - 1], q[i])]

LEMMA StepsExist ==
  ASSUME NEW s, NEW q PROVE \A n \in Nat : \E F : Steps(F, n, s, q)
<1> DEFINE S == {n \in Nat : \E F : Steps(F, n, s, q)}
<1>1. 0 \in S
  <2> DEFINE F == [i \in 0 .. 0 |-> s]
  <2>1. Steps(F, 0, s, q)
    BY DEF Steps
  <2> QED
    BY <2>1
<1>2. ASSUME NEW n \in S PROVE n + 1 \in S
  <2>1. n \in Nat /\ \E F : Steps(F, n, s, q)
    OBVIOUS
  <2>2. PICK F : Steps(F, n, s, q)
    BY <2>1
  <2> DEFINE G == [i \in 0 .. n + 1 |-> IF i <= n THEN F[i] ELSE Updated(F[n], q[n + 1])]
             H == [i \in 0 .. n + 1 |-> IF i = 0 THEN s ELSE Updated(G[i - 1], q[i])]
  <2>3. ASSUME NEW i \in 0 .. n + 1 PROVE G[i] = H[i]
    <3>1. CASE i = 0
      BY <2>1, <2>2, <3>1 DEF Steps
    <3>2. CASE i # 0 /\ i <= n
      <4>1. F[i] = Updated(F[i - 1], q[i])
        BY <2>1, <2>2, <3>2 DEF Steps
      <4>2. G[i] = F[i] /\ G[i - 1] = F[i - 1]
        BY <2>1, <3>2
      <4>3. H[i] = Updated(G[i - 1], q[i])
        BY <2>1, <3>2
      <4> QED
        BY <4>1, <4>2, <4>3
    <3>3. CASE i = n + 1
      <4>1. G[i] = Updated(F[n], q[n + 1]) /\ G[i - 1] = F[n]
        BY <2>1, <3>3
      <4>2. H[i] = Updated(G[i - 1], q[i])
        <5>1. i # 0
          BY <2>1, <3>3
        <5> HIDE DEF G
        <5> QED
          BY <5>1
      <4> QED
        BY <3>3, <4>1, <4>2
    <3> QED
      BY <2>1, <3>1, <3>2, <3>3
  <2>4. G = H
    <3>1. /\ G = [i \in 0 .. n + 1 |-> G[i]] /\ H = [i \in 0 .. n + 1 |-> H[i]]
      OBVIOUS
    <3> HIDE DEF G, H
    <3> QED
      BY <2>3, <3>1, Zenon
  <2>5. Steps(G, n + 1, s, q)
    BY <2>4 DEF Steps
  <2> QED
    BY <2>1, <2>5
<1> HIDE DEF S
<1>3. \A n \in Nat : n \in S
  <2>1. S \in SUBSET Nat
    BY DEF S
  <2> QED
    BY <1>1, <1>2, <2>1, NatInduct
<1> QED
  BY <1>3 DEF S

Stepping(F, n, s, q) == F[0] = s /\ \A i \in 1 .. n : F[i] = Updated(F[i - 1], q[i])

LEMMA StepsOf ==
  ASSUME NEW F, NEW n, NEW s, NEW q, Steps(F, n, s, q), n \in Nat
  PROVE  Stepping(F, n, s, q)
<1> DEFINE R == [i \in 0 .. n |-> IF i = 0 THEN s ELSE Updated(F[i - 1], q[i])]
<1>1. F = R
  BY Zenon DEF Steps
<1>2. R[0] = s
  OBVIOUS
<1>3. ASSUME NEW i \in 1 .. n PROVE R[i] = Updated(F[i - 1], q[i])
  <2>1. i \in 0 .. n /\ i # 0
    OBVIOUS
  <2> QED
    BY <2>1, Zenon
<1> HIDE DEF R
<1> QED
  BY <1>1, <1>2, <1>3, Zenon DEF Stepping

LEMMA TookSteps ==
  ASSUME NEW s, NEW q, Len(q) \in Nat
  PROVE  \E F : Stepping(F, Len(q), s, q) /\ Took(s, q) = F[Len(q)]
<1> DEFINE F == CHOOSE F : Steps(F, Len(q), s, q)
<1>1. Steps(F, Len(q), s, q)
  BY StepsExist
<1>2. Took(s, q) = F[Len(q)]
  BY DEF Took, Steps
<1> HIDE DEF F
<1>3. PICK n \in Nat : n = Len(q)
  OBVIOUS
<1>4. Steps(F, n, s, q)
  BY <1>1, <1>3, Zenon
<1>5. Stepping(F, n, s, q)
  BY <1>4, StepsOf
<1> QED
  BY <1>1, <1>2, <1>3, <1>5, Zenon

LEMMA TookOne ==
  ASSUME NEW t, NEW c PROVE Took(t, <<c>>) = Updated(t, c)
<1>1. PICK q : q = <<c>>
  OBVIOUS
<1>2. Len(q) = 1 /\ q[1] = c /\ Len(q) \in Nat
  BY <1>1
<1>3. PICK F : Stepping(F, Len(q), t, q) /\ Took(t, q) = F[Len(q)]
  BY <1>2, TookSteps, Zenon
<1>4. F[0] = t /\ \A i \in 1 .. 1 : F[i] = Updated(F[i - 1], q[i])
  BY <1>2, <1>3, Zenon DEF Stepping
<1>5. 1 \in 1 .. 1 /\ 1 - 1 = 0
  OBVIOUS
<1>6. F[1] = Updated(F[1 - 1], q[1])
  BY <1>4, <1>5
<1> QED
  BY <1>1, <1>2, <1>3, <1>4, <1>5, <1>6
----------------------------------------------------------------------------
(* Trees of users, with their count. *)
Recs == [nick : Nicks, score : Scores]
Entries == [id : Ids, nick : Nicks, score : Scores, offline : BOOLEAN]
Trees == {t \in [users : Users, cnt : Nat] : t.cnt = Cardinality(DOMAIN t.users)}

LEMMA UsersAre ==
  \A f : f \in Users <=> /\ DOMAIN f \subseteq Ids /\ f \in [DOMAIN f -> Recs]
                         /\ \A i, j \in DOMAIN f : f[i].nick = f[j].nick => i = j
<1>1. ASSUME NEW f, f \in Users
      PROVE  /\ DOMAIN f \subseteq Ids /\ f \in [DOMAIN f -> Recs]
             /\ \A i, j \in DOMAIN f : f[i].nick = f[j].nick => i = j
  <2>1. PICK S \in SUBSET Ids :
          f \in {g \in [S -> [nick : Nicks, score : Scores]] :
                   \A i, j \in S : g[i].nick = g[j].nick => i = j}
    BY <1>1 DEF Users
  <2>2. f \in [S -> Recs] /\ DOMAIN f = S
    BY <2>1 DEF Recs
  <2> QED
    BY <2>1, <2>2
<1>2. ASSUME NEW f, DOMAIN f \subseteq Ids, f \in [DOMAIN f -> Recs],
             \A i, j \in DOMAIN f : f[i].nick = f[j].nick => i = j
      PROVE  f \in Users
  <2>1. PICK S \in SUBSET Ids : S = DOMAIN f
    BY <1>2
  <2>2. f \in {g \in [S -> [nick : Nicks, score : Scores]] :
                 \A i, j \in S : g[i].nick = g[j].nick => i = j}
    BY <1>2, <2>1 DEF Recs
  <2> QED
    BY <2>2 DEF Users
<1> QED
  BY <1>1, <1>2

LEMMA UsersFinite == \A f \in Users : IsFiniteSet(DOMAIN f) /\ Cardinality(DOMAIN f) \in Nat
  BY UsersAre, FS_Subset, FS_CardinalityType, UserListAssumption

LEMMA TreeOf ==
  ASSUME NEW f \in Users, NEW n \in Nat, n = Cardinality(DOMAIN f),
         NEW t, t = [users |-> f, cnt |-> n]
  PROVE  t \in Trees
  BY DEF Trees

(* What the server tells of one user does to a tree like its own what has  *)
(* been done to that.                                                      *)
LEMMA UpdatedWith ==
  ASSUME NEW t \in Trees, NEW id \in Ids, NEW u \in Recs, With(t.users, id, u) \in Users
  PROVE  LET t2 == Updated(t, Change(id, u, FALSE)) IN
         t2 \in Trees /\ t2.users = With(t.users, id, u)
<1>1. PICK c, t2 : c = Change(id, u, FALSE) /\ t2 = Updated(t, c)
  OBVIOUS
<1>2. PICK D : D = DOMAIN t.users
  OBVIOUS
<1>3. t.users \in Users /\ t.cnt = Cardinality(D) /\ t.cnt \in Nat /\ IsFiniteSet(D)
  BY <1>2, UsersFinite DEF Trees
<1>4. u = User(c.nick, c.score) /\ c.id = id /\ ~ c.offline
  BY <1>1 DEF Change, User, Recs
<1>5. /\ t2.users = With(t.users, id, u)
      /\ t2.cnt = IF id \in D THEN t.cnt ELSE t.cnt + 1
      /\ t2 = [users |-> t2.users, cnt |-> t2.cnt]
  BY <1>1, <1>2, <1>4 DEF Updated
<1>6. DOMAIN With(t.users, id, u) = D \cup {id}
  BY <1>2 DEF With
<1>7. t2.cnt = Cardinality(D \cup {id}) /\ t2.cnt \in Nat
  <2>1. Cardinality(D \cup {id}) = IF id \in D THEN Cardinality(D) ELSE Cardinality(D) + 1
    BY <1>3, FS_AddElement
  <2> QED
    BY <1>3, <1>5, <2>1
<1>8. t2 \in Trees
  BY <1>5, <1>6, <1>7, TreeOf
<1> QED
  BY <1>1, <1>5, <1>8

LEMMA UpdatedWithout ==
  ASSUME NEW t \in Trees, NEW id \in Ids, NEW u \in Recs
  PROVE  LET t2 == Updated(t, Change(id, u, TRUE)) IN
         t2 \in Trees /\ t2.users = Without(t.users, id)
<1>1. PICK c, t2 : c = Change(id, u, TRUE) /\ t2 = Updated(t, c)
  OBVIOUS
<1>2. PICK D : D = DOMAIN t.users
  OBVIOUS
<1>3. t.users \in Users /\ t.cnt = Cardinality(D) /\ t.cnt \in Nat /\ IsFiniteSet(D)
  BY <1>2, UsersFinite DEF Trees
<1>4. c.id = id /\ c.offline = TRUE
  BY <1>1 DEF Change
<1>5. /\ t2.users = Without(t.users, id)
      /\ t2.cnt = IF id \in D THEN t.cnt - 1 ELSE t.cnt
      /\ t2 = [users |-> t2.users, cnt |-> t2.cnt]
  BY <1>1, <1>2, <1>4 DEF Updated
<1>6. DOMAIN Without(t.users, id) = D \ {id}
  BY <1>2 DEF Without
<1>7. t2.cnt = Cardinality(D \ {id}) /\ t2.cnt \in Nat
  <2>1. IsFiniteSet(D \ {id}) /\ t2.cnt = Cardinality(D \ {id})
    BY <1>3, <1>5, FS_RemoveElement
  <2> QED
    BY <2>1, FS_CardinalityType
<1>8. Without(t.users, id) \in Users
  <2>1. PICK f, g : f = t.users /\ g = Without(t.users, id)
    OBVIOUS
  <2>2. f \in Users /\ g = [i \in DOMAIN f \ {id} |-> f[i]]
    BY <1>3, <2>1 DEF Without
  <2>3. DOMAIN g \subseteq Ids /\ g \in [DOMAIN g -> Recs]
    BY <2>2, UsersAre
  <2>4. \A i, j \in DOMAIN g : g[i].nick = g[j].nick => i = j
    BY <2>2, UsersAre
  <2> QED
    BY <2>1, <2>3, <2>4, UsersAre
<1>9. t2 \in Trees
  BY <1>5, <1>6, <1>7, <1>8, TreeOf
<1> QED
  BY <1>1, <1>5, <1>9
----------------------------------------------------------------------------
(* The walk through a tree has each of its users once, in the order of ids. *)
EntriesOf(users) == {Change(id, users[id], FALSE) : id \in DOMAIN users}

LEMMA EntriesAre ==
  ASSUME NEW users \in Users
  PROVE  LET S == EntriesOf(users) IN
         /\ S \subseteq Entries /\ IsFiniteSet(S)
         /\ Cardinality(S) = Cardinality(DOMAIN users)
         /\ \A x \in S : /\ x.id \in DOMAIN users /\ x = Change(x.id, users[x.id], FALSE)
                         /\ ~ x.offline /\ x.nick = users[x.id].nick
<1>1. PICK S, D : S = EntriesOf(users) /\ D = DOMAIN users
  OBVIOUS
<1>2. D \subseteq Ids /\ users \in [D -> Recs] /\ IsFiniteSet(D)
  BY <1>1, UsersAre, UsersFinite
<1>3. PICK f : f = [id \in D |-> Change(id, users[id], FALSE)]
  OBVIOUS
<1>4. \A id \in D : f[id].id = id /\ f[id] \in S /\ f[id] = Change(id, users[id], FALSE)
  BY <1>1, <1>3 DEF EntriesOf, Change
<1>5. \A x \in S : \E id \in D : x = f[id]
  BY <1>1, <1>3 DEF EntriesOf
<1>6. DOMAIN f = D
  BY <1>3
<1>7. f \in [D -> S]
  BY <1>3, <1>4
<1>8. f \in Bijection(D, S)
  BY <1>4, <1>5, <1>6, <1>7 DEF Bijection, Injection, Surjection, IsInjective
<1>9. ExistsBijection(D, S)
  BY <1>8 DEF ExistsBijection
<1>10. IsFiniteSet(S) /\ Cardinality(S) = Cardinality(D)
  BY <1>2, <1>9, FS_Bijection
<1>11. ASSUME NEW x \in S PROVE x.id \in D /\ x = Change(x.id, users[x.id], FALSE)
  <2>1. PICK id \in D : x = f[id]
    BY <1>5
  <2>2. x.id = id /\ x = Change(id, users[id], FALSE)
    BY <1>4, <2>1
  <2> QED
    BY <2>2
<1>12. ASSUME NEW x \in S PROVE x \in Entries /\ ~ x.offline /\ x.nick = users[x.id].nick
  <2>1. PICK id \in D : x = Change(id, users[id], FALSE)
    BY <1>11
  <2>2. id \in Ids /\ users[id].nick \in Nicks /\ users[id].score \in Scores
    BY <1>2 DEF Recs
  <2> QED
    BY <2>1, <2>2 DEF Change, Entries
<1> QED
  BY <1>1, <1>10, <1>11, <1>12

LEMMA ChangesAre ==
  ASSUME NEW users \in Users
  PROVE  LET s == ChangesOf(users) IN
         /\ s \in Seq(EntriesOf(users)) /\ s \in Seq(Entries)
         /\ Len(s) = Cardinality(DOMAIN users)
         /\ Range(s) = EntriesOf(users)
         /\ \A i, j \in DOMAIN s : s[i].id = s[j].id => i = j
<1>1. PICK S : S = EntriesOf(users)
  OBVIOUS
<1>2. PICK R : R = {p \in S \X S : p[1].id < p[2].id}
  OBVIOUS
<1>3. /\ S \subseteq Entries /\ IsFiniteSet(S)
      /\ Cardinality(S) = Cardinality(DOMAIN users)
      /\ \A x \in S : x = Change(x.id, users[x.id], FALSE)
  BY <1>1, EntriesAre
<1>4. \A x \in S : x.id \in Nat
  BY <1>3, UserListAssumption DEF Entries
<1>5. \A x, y \in S : x.id = y.id => x = y
  BY <1>3
<1>6. \A x, y \in S : <<x, y>> \in R <=> x.id < y.id
  BY <1>2
<1>7. Orders(S, R)
  BY <1>4, <1>5, <1>6 DEF Orders
<1>8. PICK s : s = InOrder(S, R)
  OBVIOUS
<1>9. /\ s \in Seq(S) /\ Len(s) = Cardinality(S) /\ InTurn(s, S, R)
      /\ \A i, j \in DOMAIN s : s[i] = s[j] => i = j
  BY <1>3, <1>7, <1>8, InOrderFacts
<1>10. s = ChangesOf(users)
  BY <1>1, <1>2, <1>8 DEF ChangesOf, EntriesOf
<1>11. s \in Seq(Entries)
  BY <1>3, <1>9
<1>12. \A i \in DOMAIN s : s[i] \in S
  BY <1>9
<1>13. \A i, j \in DOMAIN s : s[i].id = s[j].id => i = j
  BY <1>5, <1>9, <1>12
<1> QED
  BY <1>1, <1>3, <1>9, <1>10, <1>11, <1>13 DEF InTurn

(* The tree of the first a users of the walk. *)
First(users, a) ==
  LET s == ChangesOf(users)
  IN  [users |-> [id \in {s[i].id : i \in 1 .. a} |-> users[id]], cnt |-> a]

LEMMA FirstNext ==
  ASSUME NEW users \in Users, NEW a \in Nat, a < Len(ChangesOf(users)),
         First(users, a) \in Trees
  PROVE  /\ Updated(First(users, a), ChangesOf(users)[a + 1]) = First(users, a + 1)
         /\ First(users, a + 1) \in Trees
<1>1. PICK s, n : s = ChangesOf(users) /\ n = Len(s)
  OBVIOUS
<1>2. /\ s \in Seq(EntriesOf(users)) /\ n \in Nat
      /\ \A i, j \in DOMAIN s : s[i].id = s[j].id => i = j
      /\ DOMAIN s = 1 .. n /\ a < n
  BY <1>1, ChangesAre
<1>3. PICK c \in EntriesOf(users) : c = s[a + 1]
  BY <1>2
<1>4. /\ c.id \in DOMAIN users /\ c = Change(c.id, users[c.id], FALSE) /\ ~ c.offline
      /\ DOMAIN users \subseteq Ids /\ users \in [DOMAIN users -> Recs]
  BY <1>3, EntriesAre, UsersAre
<1>5. PICK D : D = {s[i].id : i \in 1 .. a}
  OBVIOUS
<1>6. c.id \notin D
  BY <1>2, <1>3, <1>5
<1>7. {s[i].id : i \in 1 .. a + 1} = D \cup {c.id}
  <2>1. \A i \in 1 .. a + 1 : i \in 1 .. a \/ i = a + 1
    OBVIOUS
  <2>2. a + 1 \in 1 .. a + 1 /\ \A i \in 1 .. a : i \in 1 .. a + 1
    OBVIOUS
  <2> QED
    BY <1>3, <1>5, <2>1, <2>2
<1>8. PICK f : f = [id \in D |-> users[id]]
  OBVIOUS
<1>9. First(users, a) = [users |-> f, cnt |-> a]
  BY <1>1, <1>5, <1>8 DEF First
<1>10. f \in Users /\ a = Cardinality(D) /\ DOMAIN f = D
  BY <1>8, <1>9 DEF Trees
<1>11. User(c.nick, c.score) = users[c.id]
  BY <1>4 DEF Change, User, Recs
<1>12. With(f, c.id, users[c.id]) = [id \in D \cup {c.id} |-> users[id]]
  BY <1>8, <1>10 DEF With
<1>13. First(users, a + 1) = [users |-> With(f, c.id, users[c.id]), cnt |-> a + 1]
  BY <1>1, <1>7, <1>12 DEF First
<1>14. Updated(First(users, a), c) = First(users, a + 1)
  BY <1>4, <1>6, <1>9, <1>10, <1>11, <1>13 DEF Updated
<1>15. ASSUME NEW i \in D PROVE i \in DOMAIN users
  <2>1. PICK k \in 1 .. a : i = s[k].id
    BY <1>5, <1>15
  <2>2. s[k] \in EntriesOf(users)
    BY <1>2
  <2> QED
    BY <2>1, <2>2, EntriesAre
<1>16. With(f, c.id, users[c.id]) \in Users
  <2>1. PICK g : g = [id \in D \cup {c.id} |-> users[id]]
    OBVIOUS
  <2>2. DOMAIN g \subseteq Ids /\ g \in [DOMAIN g -> Recs]
    BY <1>4, <1>15, <2>1
  <2>3. \A i, j \in DOMAIN g : g[i].nick = g[j].nick => i = j
    BY <1>4, <1>15, <2>1, UsersAre
  <2> QED
    BY <1>12, <2>1, <2>2, <2>3, UsersAre
<1>17. /\ First(users, a) \in Trees /\ First(users, a).users = f /\ c.id \in Ids
       /\ users[c.id] \in Recs
  BY <1>4, <1>9
<1>18. Updated(First(users, a), c) \in Trees
  BY <1>4, <1>16, <1>17, UpdatedWith
<1> QED
  BY <1>1, <1>3, <1>14, <1>18

LEMMA FirstTree ==
  ASSUME NEW users \in Users
  PROVE  /\ First(users, 0) = [users |-> <<>>, cnt |-> 0]
         /\ \A a \in 0 .. Len(ChangesOf(users)) : First(users, a) \in Trees
         /\ First(users, Len(ChangesOf(users))).users = users
<1>1. PICK s, n : s = ChangesOf(users) /\ n = Len(s)
  OBVIOUS
<1>2. s \in Seq(EntriesOf(users)) /\ n \in Nat /\ Range(s) = EntriesOf(users)
  BY <1>1, ChangesAre
<1>3. DOMAIN s = 1 .. n /\ \A i \in 1 .. n : s[i] \in EntriesOf(users)
  BY <1>1, <1>2
<1>4. PICK f : f = [id \in {} |-> users[id]]
  OBVIOUS
<1>5. First(users, 0) = [users |-> f, cnt |-> 0]
  <2>1. {s[i].id : i \in 1 .. 0} = {}
    OBVIOUS
  <2> QED
    BY <1>1, <1>4, <2>1 DEF First
<1>6. First(users, 0) = [users |-> <<>>, cnt |-> 0]
  <2>1. f = <<>>
    BY <1>4
  <2> QED
    BY <1>5, <2>1
<1>7. First(users, 0) \in Trees
  <2>1. DOMAIN f = {} /\ f \in [{} -> Recs]
    BY <1>4
  <2>2. f \in Users
    BY <2>1, UsersAre
  <2> QED
    BY <1>5, <2>1, <2>2, TreeOf, FS_EmptySet
<1> DEFINE N == {a \in Nat : a <= n => First(users, a) \in Trees}
<1>8. 0 \in N
  BY <1>7
<1>9. ASSUME NEW a \in N PROVE a + 1 \in N
  BY <1>1, <1>2, <1>9, FirstNext
<1>10. N \in SUBSET Nat
  OBVIOUS
<1> HIDE DEF N
<1>11. \A a \in Nat : a \in N
  BY <1>8, <1>9, <1>10, NatInduct
<1>12. First(users, n).users = users
  <2>1. {s[i].id : i \in 1 .. n} = DOMAIN users
    <3>1. \A i \in 1 .. n : s[i].id \in DOMAIN users
      BY <1>3, EntriesAre
    <3>2. ASSUME NEW id \in DOMAIN users PROVE \E i \in 1 .. n : s[i].id = id
      <4>1. Change(id, users[id], FALSE) \in Range(s)
        BY <1>2 DEF EntriesOf
      <4>2. PICK i \in 1 .. n : s[i] = Change(id, users[id], FALSE)
        BY <1>3, <4>1 DEF Range
      <4> QED
        BY <4>2 DEF Change
    <3> QED
      BY <3>1, <3>2
  <2>2. users = [id \in DOMAIN users |-> users[id]]
    BY UsersAre
  <2> QED
    BY <1>1, <2>1, <2>2 DEF First
<1> QED
  BY <1>1, <1>2, <1>6, <1>11, <1>12 DEF N

(* A part of the walk takes the tree of what is before it further. *)
LEMMA TookPart ==
  ASSUME NEW users \in Users, NEW a \in Nat, NEW b \in Nat, a <= b,
         b <= Len(ChangesOf(users))
  PROVE  Took(First(users, a), SubSeq(ChangesOf(users), a + 1, b)) = First(users, b)
<1>1. PICK s, n : s = ChangesOf(users) /\ n = Len(s)
  OBVIOUS
<1>2. s \in Seq(EntriesOf(users)) /\ n \in Nat
  BY <1>1, ChangesAre
<1>3. PICK q, l : q = SubSeq(s, a + 1, b) /\ l = b - a
  OBVIOUS
<1>4. l \in Nat /\ Len(q) = l /\ \A i \in 1 .. l : q[i] = s[a + i]
  BY <1>1, <1>2, <1>3
<1>5. PICK F : Stepping(F, l, First(users, a), q) /\ Took(First(users, a), q) = F[l]
  BY <1>4, TookSteps
<1>6. F[0] = First(users, a) /\ \A i \in 1 .. l : F[i] = Updated(F[i - 1], q[i])
  BY <1>5, Zenon DEF Stepping
<1> DEFINE N == {i \in Nat : i <= l => F[i] = First(users, a + i)}
<1>7. 0 \in N
  BY <1>6
<1>8. ASSUME NEW i \in N PROVE i + 1 \in N
  <2>1. SUFFICES ASSUME i + 1 <= l PROVE F[i + 1] = First(users, a + (i + 1))
    OBVIOUS
  <2>2. /\ i \in Nat /\ i + 1 \in 1 .. l /\ (i + 1) - 1 = i /\ a + (i + 1) = (a + i) + 1
        /\ F[i] = First(users, a + i) /\ a + i \in Nat /\ a + i < n /\ a + i \in 0 .. n
    <3>1. i \in Nat /\ l = b - a /\ b <= n
      BY <1>1, <1>3
    <3>2. i < l /\ F[i] = First(users, a + i)
      BY <1>4, <2>1, <3>1
    <3> QED
      BY <1>2, <1>4, <2>1, <3>1, <3>2
  <2>3. F[i + 1] = Updated(F[i], q[i + 1]) /\ q[i + 1] = s[(a + i) + 1]
    BY <1>4, <1>6, <2>2
  <2>4. First(users, a + i) \in Trees
    BY <1>1, <2>2, FirstTree
  <2> QED
    BY <1>1, <2>2, <2>3, <2>4, FirstNext
<1>9. N \in SUBSET Nat
  OBVIOUS
<1> HIDE DEF N
<1>10. l \in N
  BY <1>4, <1>7, <1>8, <1>9, NatInduct
<1>11. F[l] = First(users, a + l) /\ a + l = b
  BY <1>3, <1>4, <1>10 DEF N
<1> QED
  BY <1>1, <1>3, <1>5, <1>11
----------------------------------------------------------------------------
(* What is on its way.  h: the tree t of the client, and what it becomes   *)
(* with each message of q taken, at last the server's users on.  A message *)
(* that says that Me is gone is the last.                                  *)
Ends(msg) == \E i \in DOMAIN msg : msg[i].offline /\ msg[i].id = Me

Peopled(t) == DOMAIN t.users # {}

Trail(h, q, on, t) ==
  /\ q \in Seq(Seq(Entries)) /\ on \in Users
  /\ h \in Seq(Trees) /\ Len(h) = Len(q) + 1 /\ h[1] = t
  /\ \A k \in DOMAIN q :
       IF Ends(q[k]) THEN k = Len(q) /\ Me \notin DOMAIN on
       ELSE h[k + 1] = Took(h[k], q[k]) /\ (Peopled(h[k]) => Peopled(h[k + 1]))
  /\ Me \in DOMAIN on => h[Len(h)].users = on

LEMMA TrailAppend ==
  ASSUME NEW h, NEW q, NEW on, NEW t, Trail(h, q, on, t), Me \in DOMAIN on,
         NEW msg \in Seq(Entries), NEW on2 \in Users, NEW t2 \in Trees,
         IF Ends(msg) THEN Me \notin DOMAIN on2
         ELSE t2 = Took(h[Len(h)], msg) /\ Peopled(t2),
         Me \in DOMAIN on2 => t2.users = on2
  PROVE  Trail(Append(h, t2), Append(q, msg), on2, t)
<1>1. PICK g, p, n : g = Append(h, t2) /\ p = Append(q, msg) /\ n = Len(q)
  OBVIOUS
<1>2. /\ q \in Seq(Seq(Entries)) /\ h \in Seq(Trees) /\ Len(h) = n + 1 /\ h[1] = t
      /\ n \in Nat
  BY <1>1 DEF Trail
<1>3. /\ p \in Seq(Seq(Entries)) /\ Len(p) = n + 1 /\ DOMAIN p = 1 .. n + 1
      /\ p[n + 1] = msg /\ \A k \in 1 .. n : p[k] = q[k] /\ k \in DOMAIN q
  BY <1>1, <1>2
<1>4. /\ g \in Seq(Trees) /\ Len(g) = n + 2 /\ g[n + 2] = t2
      /\ \A k \in 1 .. n + 1 : g[k] = h[k]
  BY <1>1, <1>2
<1>5. g[1] = t /\ g[n + 1] = h[n + 1] /\ h[Len(h)] = h[n + 1]
  BY <1>2, <1>4
<1>6. ASSUME NEW k \in 1 .. n
      PROVE  ~ Ends(p[k]) /\ g[k + 1] = Took(g[k], p[k]) /\ (Peopled(g[k]) => Peopled(g[k + 1]))
  <2>1. ~ Ends(q[k]) /\ h[k + 1] = Took(h[k], q[k]) /\ (Peopled(h[k]) => Peopled(h[k + 1]))
    BY <1>3 DEF Trail
  <2>2. k \in 1 .. n + 1 /\ k + 1 \in 1 .. n + 1
    BY <1>2
  <2> QED
    BY <1>3, <1>4, <2>1, <2>2
<1>7. IF Ends(p[n + 1]) THEN n + 1 = Len(p) /\ Me \notin DOMAIN on2
      ELSE g[(n + 1) + 1] = Took(g[n + 1], p[n + 1]) /\ Peopled(g[(n + 1) + 1])
  <2>1. (n + 1) + 1 = n + 2
    BY <1>2
  <2> QED
    BY <1>3, <1>4, <1>5, <2>1
<1>8. \A k \in DOMAIN p : k \in 1 .. n \/ k = n + 1
  BY <1>2, <1>3
<1>9. Len(g) = Len(p) + 1
  BY <1>2, <1>3, <1>4
<1>10. Me \in DOMAIN on2 => g[Len(g)].users = on2
  BY <1>4
<1>11. Trail(g, p, on2, t)
  BY <1>3, <1>4, <1>5, <1>6, <1>7, <1>8, <1>9, <1>10 DEF Trail
<1> QED
  BY <1>1, <1>11

LEMMA TrailTake ==
  ASSUME NEW h, NEW q, NEW on, NEW t, Trail(h, q, on, t), q # <<>>
  PROVE  /\ Ends(Head(q)) => Trail(<<t>>, Tail(q), on, t)
         /\ ~ Ends(Head(q)) => /\ Trail(Tail(h), Tail(q), on, Took(t, Head(q)))
                               /\ Took(t, Head(q)) \in Trees
                               /\ Peopled(t) => Peopled(Took(t, Head(q)))
<1>1. PICK g, p, n : g = Tail(h) /\ p = Tail(q) /\ n = Len(q)
  OBVIOUS
<1>2. /\ q \in Seq(Seq(Entries)) /\ h \in Seq(Trees) /\ Len(h) = n + 1 /\ h[1] = t
      /\ n \in Nat /\ n > 0 /\ DOMAIN q = 1 .. n /\ on \in Users
      /\ Me \in DOMAIN on => h[n + 1].users = on
  BY <1>1 DEF Trail
<1>3. Head(q) = q[1] /\ 1 \in DOMAIN q /\ t \in Trees
  BY <1>2
<1>4. /\ p \in Seq(Seq(Entries)) /\ Len(p) = n - 1 /\ DOMAIN p = 1 .. n - 1
      /\ \A k \in 1 .. n - 1 : p[k] = q[k + 1] /\ k + 1 \in DOMAIN q
  BY <1>1, <1>2
<1>5. /\ g \in Seq(Trees) /\ Len(g) = n /\ \A k \in 1 .. n : g[k] = h[k + 1]
  BY <1>1, <1>2
<1>6. CASE Ends(q[1])
  <2>1. n = 1 /\ Me \notin DOMAIN on
    BY <1>1, <1>3, <1>6 DEF Trail
  <2>2. <<t>> \in Seq(Trees) /\ Len(<<t>>) = 1 /\ <<t>>[1] = t
    BY <1>3
  <2>3. Trail(<<t>>, p, on, t)
    BY <1>2, <1>4, <2>1, <2>2 DEF Trail
  <2> QED
    BY <1>1, <1>3, <1>6, <2>3
<1>7. CASE ~ Ends(q[1])
  <2>1. h[1 + 1] = Took(h[1], q[1]) /\ (Peopled(h[1]) => Peopled(h[1 + 1]))
    BY <1>3, <1>7 DEF Trail
  <2>2. g[1] = Took(t, q[1]) /\ (Peopled(t) => Peopled(g[1])) /\ g[1] \in Trees
    BY <1>2, <1>5, <2>1
  <2>3. ASSUME NEW k \in 1 .. n - 1
        PROVE  IF Ends(p[k]) THEN k = Len(p) /\ Me \notin DOMAIN on
               ELSE g[k + 1] = Took(g[k], p[k]) /\ (Peopled(g[k]) => Peopled(g[k + 1]))
    <3>1. k \in 1 .. n /\ k + 1 \in 1 .. n /\ k + 1 \in DOMAIN q
      BY <1>2, <1>4
    <3>2. IF Ends(q[k + 1]) THEN k + 1 = n /\ Me \notin DOMAIN on
          ELSE h[(k + 1) + 1] = Took(h[k + 1], q[k + 1])
               /\ (Peopled(h[k + 1]) => Peopled(h[(k + 1) + 1]))
      BY <1>1, <3>1 DEF Trail
    <3>3. g[k] = h[k + 1] /\ g[k + 1] = h[(k + 1) + 1] /\ p[k] = q[k + 1]
      BY <1>4, <1>5, <3>1
    <3>4. k + 1 = n => k = Len(p)
      BY <1>2, <1>4
    <3> QED
      BY <3>2, <3>3, <3>4
  <2>4. Len(g) = Len(p) + 1 /\ (Me \in DOMAIN on => g[Len(g)].users = on)
    BY <1>2, <1>4, <1>5
  <2>5. Trail(g, p, on, Took(t, q[1]))
    BY <1>2, <1>4, <1>5, <2>2, <2>3, <2>4 DEF Trail
  <2> QED
    BY <1>1, <1>3, <1>7, <2>2, <2>5
<1> QED
  BY <1>6, <1>7

(* At first: the parts of the walk, in order. *)
Upto(k, n) == IF k * UCHANGE_MAX_UCNT <= n THEN k * UCHANGE_MAX_UCNT ELSE n

LEMMA UptoFacts ==
  ASSUME NEW n \in Nat, NEW K, K = (n + UCHANGE_MAX_UCNT - 1) \div UCHANGE_MAX_UCNT
  PROVE  /\ K \in Nat /\ Upto(0, n) = 0 /\ Upto(K, n) = n
         /\ \A k \in 0 .. K : Upto(k, n) \in 0 .. n
         /\ \A k \in 1 .. K : /\ Upto(k - 1, n) = (k - 1) * UCHANGE_MAX_UCNT
                              /\ Upto(k - 1, n) <= Upto(k, n)
                              /\ Upto(k, n) = Min({k * UCHANGE_MAX_UCNT, n})
<1>1. PICK u \in Nat \ {0} : u = UCHANGE_MAX_UCNT
  BY UserListAssumption
<1>2. /\ K \in Nat /\ (n + u - 1) % u \in 0 .. u - 1
      /\ n + u - 1 = u * K + ((n + u - 1) % u)
  BY <1>1
<1>3. K * u >= n /\ (K # 0 => (K - 1) * u < n) /\ 0 * u = 0
  BY <1>1, <1>2
<1>4. ASSUME NEW k \in 0 .. K PROVE k * u \in Nat /\ (k # K => k * u < n)
  <2>1. k * u \in Nat
    BY <1>1
  <2>2. ASSUME k # K PROVE k * u < n
    <3>1. K # 0 /\ k <= K - 1 /\ K - 1 \in Nat
      BY <1>2, <2>2
    <3>2. k * u <= (K - 1) * u
      BY <1>1, <3>1
    <3>3. (K - 1) * u \in Nat
      BY <1>1, <3>1
    <3> QED
      BY <1>3, <2>1, <3>1, <3>2, <3>3
  <2> QED
    BY <2>1, <2>2
<1>5. ASSUME NEW k \in 1 .. K
      PROVE  /\ k - 1 \in 0 .. K /\ k \in 0 .. K /\ k - 1 # K /\ (k - 1) * u <= k * u
  BY <1>1, <1>2
<1>6. ASSUME NEW a \in Nat, NEW b \in Nat PROVE Min({a, b}) = IF a <= b THEN a ELSE b
  BY DEF Min
<1>7. Upto(0, n) = 0
  BY <1>1, <1>3 DEF Upto
<1>8. Upto(K, n) = n
  BY <1>1, <1>2, <1>3, <1>4 DEF Upto
<1>9. \A k \in 0 .. K : Upto(k, n) \in 0 .. n
  BY <1>1, <1>4 DEF Upto
<1>10. ASSUME NEW k \in 1 .. K
       PROVE  /\ Upto(k - 1, n) = (k - 1) * u
              /\ Upto(k - 1, n) <= Upto(k, n)
              /\ Upto(k, n) = Min({k * u, n})
  <2>1. k * u \in Nat /\ (k - 1) * u \in Nat /\ (k - 1) * u < n /\ (k - 1) * u <= k * u
    BY <1>4, <1>5
  <2>2. Min({k * u, n}) = IF k * u <= n THEN k * u ELSE n
    BY <1>6, <2>1
  <2> QED
    BY <1>1, <2>1, <2>2 DEF Upto
<1> QED
  BY <1>1, <1>2, <1>7, <1>8, <1>9, <1>10

LEMMA TrailInit ==
  ASSUME NEW on \in Users
  PROVE  \E h : Trail(h, Chunks(ChangesOf(on)), on, [users |-> <<>>, cnt |-> 0])
<1>1. PICK s, n : s = ChangesOf(on) /\ n = Len(s)
  OBVIOUS
<1>2. /\ s \in Seq(EntriesOf(on)) /\ s \in Seq(Entries) /\ n \in Nat
      /\ \A i \in 1 .. n : s[i] \in EntriesOf(on) /\ ~ s[i].offline
  <2>1. s \in Seq(EntriesOf(on)) /\ s \in Seq(Entries)
    BY <1>1, ChangesAre
  <2>2. n \in Nat /\ \A i \in 1 .. n : s[i] \in EntriesOf(on)
    BY <1>1, <2>1
  <2> QED
    BY <2>1, <2>2, EntriesAre
<1>3. PICK K : K = (n + UCHANGE_MAX_UCNT - 1) \div UCHANGE_MAX_UCNT
  OBVIOUS
<1>4. PICK q : q = Chunks(s)
  OBVIOUS
<1>5. PICK h : h = [k \in 1 .. K + 1 |-> First(on, Upto(k - 1, n))]
  OBVIOUS
<1>6. /\ K \in Nat /\ Upto(0, n) = 0 /\ Upto(K, n) = n
      /\ \A k \in 0 .. K : Upto(k, n) \in 0 .. n
      /\ \A k \in 1 .. K : /\ Upto(k - 1, n) = (k - 1) * UCHANGE_MAX_UCNT
                           /\ Upto(k - 1, n) <= Upto(k, n)
                           /\ Upto(k, n) = Min({k * UCHANGE_MAX_UCNT, n})
  BY <1>2, <1>3, UptoFacts
<1>7. q = [k \in 1 .. K |-> SubSeq(s, (k - 1) * UCHANGE_MAX_UCNT + 1,
                                   Min({k * UCHANGE_MAX_UCNT, n}))]
  BY <1>1, <1>3, <1>4 DEF Chunks
<1>8. \A k \in 1 .. K : q[k] = SubSeq(s, Upto(k - 1, n) + 1, Upto(k, n))
  BY <1>6, <1>7
<1>9. ASSUME NEW k \in 1 .. K
      PROVE  /\ q[k] \in Seq(Entries) /\ ~ Ends(q[k])
             /\ h[k + 1] = Took(h[k], q[k]) /\ (Peopled(h[k]) => Peopled(h[k + 1]))
  <2>1. PICK a \in 0 .. n, b \in 0 .. n : a = Upto(k - 1, n) /\ b = Upto(k, n)
    <3>1. k - 1 \in 0 .. K /\ k \in 0 .. K
      BY <1>6
    <3> QED
      BY <1>6, <3>1
  <2>2. a <= b /\ q[k] = SubSeq(s, a + 1, b) /\ a \in Nat /\ b \in Nat
    <3>1. a <= b /\ q[k] = SubSeq(s, a + 1, b)
      BY <1>6, <1>8, <2>1
    <3> QED
      BY <1>2, <3>1
  <2>3. /\ SubSeq(s, a + 1, b) \in Seq(Entries)
        /\ \A i \in DOMAIN SubSeq(s, a + 1, b) :
             a + i \in 1 .. n /\ SubSeq(s, a + 1, b)[i] = s[a + i]
    BY <1>1, <1>2, <2>2
  <2>4. h[k] = First(on, a) /\ h[k + 1] = First(on, b)
    <3>1. k \in 1 .. K + 1 /\ k + 1 \in 1 .. K + 1 /\ (k + 1) - 1 = k
      BY <1>6
    <3> QED
      BY <1>5, <2>1, <3>1
  <2>5. Took(First(on, a), SubSeq(s, a + 1, b)) = First(on, b)
    BY <1>1, <2>2, TookPart
  <2>6. Peopled(First(on, a)) => Peopled(First(on, b))
    <3>1. \A i \in 1 .. a : i \in 1 .. b
      BY <2>2
    <3>2. DOMAIN First(on, a).users = {s[i].id : i \in 1 .. a}
      BY <1>1 DEF First
    <3>3. DOMAIN First(on, b).users = {s[i].id : i \in 1 .. b}
      BY <1>1 DEF First
    <3> QED
      BY <3>1, <3>2, <3>3 DEF Peopled
  <2>7. ~ Ends(SubSeq(s, a + 1, b))
    BY <1>2, <2>3 DEF Ends
  <2> QED
    BY <2>2, <2>3, <2>4, <2>5, <2>6, <2>7
<1>10. q \in Seq(Seq(Entries)) /\ Len(q) = K /\ DOMAIN q = 1 .. K
  <2>1. q \in [1 .. K -> Seq(Entries)]
    BY <1>7, <1>9
  <2> QED
    BY <1>6, <2>1
<1>11. h \in Seq(Trees) /\ Len(h) = K + 1
  <2>1. ASSUME NEW k \in 1 .. K + 1 PROVE First(on, Upto(k - 1, n)) \in Trees
    <3>1. k - 1 \in 0 .. K
      BY <1>6
    <3> QED
      BY <1>1, <1>6, <3>1, FirstTree
  <2> QED
    BY <1>5, <1>6, <2>1
<1>12. h[1] = [users |-> <<>>, cnt |-> 0]
  <2>1. 1 \in 1 .. K + 1 /\ 1 - 1 = 0
    BY <1>6
  <2> QED
    BY <1>5, <1>6, <2>1, FirstTree
<1>13. h[K + 1].users = on
  <2>1. K + 1 \in 1 .. K + 1 /\ (K + 1) - 1 = K
    BY <1>6
  <2> QED
    BY <1>1, <1>5, <1>6, <2>1, FirstTree
<1>14. Trail(h, q, on, [users |-> <<>>, cnt |-> 0])
  BY <1>9, <1>10, <1>11, <1>12, <1>13 DEF Trail
<1> QED
  BY <1>1, <1>4, <1>14
----------------------------------------------------------------------------
(* The list that is drawn from a tree. *)
LEMMA RebuiltList ==
  ASSUME user_by_id \in Users, user_cnt = Cardinality(DOMAIN user_by_id)
  PROVE  LET items == qsort_r(Items) IN
         /\ items \in Seq(Entries) /\ Range(items) = EntriesOf(user_by_id)
         /\ items = <<>> <=> DOMAIN user_by_id = {}
         /\ \A i, j \in DOMAIN items : i < j => Ahead(items[i], items[j])
<1>1. PICK s, S : s = ChangesOf(user_by_id) /\ S = EntriesOf(user_by_id)
  OBVIOUS
<1>2. s \in Seq(S) /\ Len(s) = user_cnt /\ Range(s) = S
  BY <1>1, ChangesAre
<1>3. Items = s
  BY <1>1, <1>2 DEF Items
<1>4. /\ S \subseteq Entries /\ IsFiniteSet(S)
      /\ \A x \in S : /\ x.id \in DOMAIN user_by_id
                      /\ x = Change(x.id, user_by_id[x.id], FALSE)
                      /\ x.nick = user_by_id[x.id].nick
  BY <1>1, EntriesAre
<1>5. ASSUME NEW x \in S, NEW y \in S, x.nick = y.nick PROVE x = y
  <2>1. PICK u \in Users : u = user_by_id
    OBVIOUS
  <2>2. \A i, j \in DOMAIN u : u[i].nick = u[j].nick => i = j
    BY UsersAre
  <2>3. PICK i \in DOMAIN u, j \in DOMAIN u : i = x.id /\ j = y.id
    BY <1>4, <2>1
  <2>4. u[i].nick = x.nick /\ u[j].nick = y.nick
    BY <1>4, <2>1, <2>3
  <2>5. i = j
    BY <1>5, <2>2, <2>4
  <2> QED
    BY <1>4, <2>1, <2>3, <2>5
<1>6. ASSUME NEW x \in S PROVE x.nick \in Int /\ x.score \in Int
  <2>1. x \in Entries
    BY <1>4
  <2>2. PICK a \in Nicks, b \in Scores : a = x.nick /\ b = x.score
    BY <2>1 DEF Entries
  <2>3. a \in Int /\ b \in Int
    BY UserListAssumption
  <2> QED
    BY <2>2, <2>3
<1>7. PICK R : R = {p \in S \X S : cmp_item_for_sort(p[1], p[2]) <= 0}
  OBVIOUS
<1>8. ASSUME NEW x \in S, NEW y \in S
      PROVE  <<x, y>> \in R <=>
               IF sort_by = "BY_NAME"
                 THEN x.nick < y.nick \/ (x.nick = y.nick /\ y.score <= x.score)
               ELSE y.score < x.score \/ (y.score = x.score /\ x.nick <= y.nick)
  BY <1>6, <1>7 DEF cmp_item_for_sort
<1>9. Orders(S, R)
  <2>1. ASSUME NEW x \in S, NEW y \in S PROVE <<x, y>> \in R \/ <<y, x>> \in R
    BY <1>6, <1>8
  <2>2. ASSUME NEW x \in S, NEW y \in S, NEW z \in S, <<x, y>> \in R, <<y, z>> \in R
        PROVE  <<x, z>> \in R
    BY <1>6, <1>8, <2>2
  <2> QED
    BY <2>1, <2>2 DEF Orders
<1>10. PICK items : items = qsort_r(Items)
  OBVIOUS
<1>11. items = InOrder(S, R)
  BY <1>2, <1>3, <1>7, <1>10 DEF qsort_r
<1>12. /\ items \in Seq(S) /\ Len(items) = Cardinality(S) /\ InTurn(items, S, R)
       /\ \A i, j \in DOMAIN items : items[i] = items[j] => i = j
  BY <1>4, <1>9, <1>11, InOrderFacts
<1>13. ASSUME NEW i \in DOMAIN items, NEW j \in DOMAIN items, i < j
       PROVE  Ahead(items[i], items[j])
  <2>1. PICK x \in S, y \in S : x = items[i] /\ y = items[j]
    BY <1>12
  <2>2. x # y
    <3>1. i # j
      BY <1>12, <1>13
    <3> QED
      BY <1>12, <2>1, <3>1
  <2>3. <<x, y>> \in R /\ x.nick # y.nick
    BY <1>5, <1>12, <1>13, <2>1, <2>2 DEF InTurn
  <2> QED
    BY <1>6, <1>8, <2>1, <2>3 DEF Ahead
<1>14. items = <<>> <=> S = {}
  <2>1. items = <<>> => S = {}
    <3>1. items = <<>> => DOMAIN items = {}
      OBVIOUS
    <3> QED
      BY <1>12, <3>1 DEF InTurn, Range
  <2>2. S = {} => items = <<>>
    BY <1>12
  <2> QED
    BY <2>1, <2>2
<1>15. S = {} <=> DOMAIN user_by_id = {}
  BY <1>1 DEF EntriesOf
<1>16. items \in Seq(Entries)
  BY <1>4, <1>12
<1> QED
  BY <1>1, <1>10, <1>12, <1>13, <1>14, <1>15, <1>16 DEF InTurn
----------------------------------------------------------------------------
(* The inductive invariant.  Way: what is on its way takes the client's    *)
(* tree to the server's users, by trees whose count is right.  MenuInv:    *)
(* the cursor is on an item if there is one, and then the tree has users,  *)
(* so no list that is drawn later is empty.  Drawn: unless it is about to  *)
(* be drawn anew the list is that of the tree.                             *)
Tree == [users |-> user_by_id, cnt |-> user_cnt]

Way == \E h : Trail(h, chan, online, Tree)

MenuInv ==
  /\ menu \in Seq(Entries) /\ cursor \in {0} \cup DOMAIN menu
  /\ menu # <<>> => cursor # 0 /\ DOMAIN user_by_id # {}
  /\ freed = FALSE
  /\ phase = "aborted" => menu = <<>>

Drawn ==
  /\ user_list_updated \in BOOLEAN
  /\ phase = "keys" \/ (phase = "poll" /\ ~ user_list_updated) =>
       Range(menu) = EntriesOf(user_by_id)
  /\ phase \in {"poll", "keys"} /\ ~ user_list_updated =>
       \A i, j \in DOMAIN menu : i < j => Ahead(menu[i], menu[j])

ListInv == Way /\ MenuInv /\ Drawn

LEMMA WayTree ==
  Way => Tree \in Trees /\ user_by_id \in Users /\ user_cnt = Cardinality(DOMAIN user_by_id)
<1> SUFFICES ASSUME Way
             PROVE  /\ Tree \in Trees /\ user_by_id \in Users
                    /\ user_cnt = Cardinality(DOMAIN user_by_id)
  OBVIOUS
<1>1. PICK h : Trail(h, chan, online, Tree)
  BY DEF Way
<1>2. h \in Seq(Trees) /\ h[1] = Tree /\ Len(h) = Len(chan) + 1 /\ chan \in Seq(Seq(Entries))
  BY <1>1 DEF Trail
<1>3. Tree \in Trees
  BY <1>2
<1> QED
  BY <1>3 DEF Tree, Trees

LEMMA InitList == Init => ListInv
<1> SUFFICES ASSUME Init PROVE ListInv
  OBVIOUS
<1>1. Way
  <2>1. Tree = [users |-> <<>>, cnt |-> 0]
    BY DEF Init, Tree
  <2>2. online \in Users /\ chan = Chunks(ChangesOf(online))
    BY DEF Init
  <2> QED
    BY <2>1, <2>2, TrailInit DEF Way
<1>2. MenuInv
  BY DEF Init, MenuInv
<1>3. DOMAIN <<>> = {}
  OBVIOUS
<1>4. Drawn
  BY <1>3 DEF Init, Drawn, Range, EntriesOf
<1> QED
  BY <1>1, <1>2, <1>4 DEF ListInv

(* The server tells of a change. *)
LEMMA TellsWay ==
  ASSUME Way, ServerTells PROVE Way'
<1>1. PICK h : Trail(h, chan, online, Tree)
  BY DEF Way
<1>2. PICK t : t = h[Len(h)]
  OBVIOUS
<1>3. h \in Seq(Trees) /\ Len(h) = Len(chan) + 1 /\ chan \in Seq(Seq(Entries)) /\ online \in Users
  BY <1>1 DEF Trail
<1>4. t \in Trees
  BY <1>2, <1>3
<1>5. ASSUME NEW id \in Ids, NEW u \in Recs, NEW gone \in BOOLEAN
      PROVE  <<Change(id, u, gone)>> \in Seq(Entries) /\ <<Change(id, u, gone)>>[1] = Change(id, u, gone)
  BY DEF Change, Entries, Recs
<1>6. CASE \E id \in Ids, u \in [nick : Nicks, score : Scores] :
             /\ With(online, id, u) \in Users /\ Me \in DOMAIN online
             /\ id \in DOMAIN online => u.nick = online[id].nick
             /\ online' = With(online, id, u)
             /\ Tells(Change(id, u, FALSE))
  <2>1. PICK id \in Ids, u \in Recs :
          /\ With(online, id, u) \in Users /\ Me \in DOMAIN online
          /\ online' = With(online, id, u)
          /\ Tells(Change(id, u, FALSE))
    BY <1>6 DEF Recs
  <2>2. PICK c, msg : c = Change(id, u, FALSE) /\ msg = <<c>>
    OBVIOUS
  <2>3. t.users = online
    BY <1>1, <1>2, <2>1 DEF Trail
  <2>4. PICK t2 : t2 = Updated(t, c)
    OBVIOUS
  <2>5. t2 \in Trees /\ t2.users = online'
    BY <1>4, <2>1, <2>2, <2>3, <2>4, UpdatedWith
  <2>6. msg \in Seq(Entries) /\ ~ Ends(msg)
    <3>1. msg \in Seq(Entries)
      BY <1>5, <2>2
    <3>2. DOMAIN msg = {1} /\ msg[1] = c /\ ~ c.offline
      BY <2>2 DEF Change
    <3> QED
      BY <3>1, <3>2 DEF Ends
  <2>7. id \in DOMAIN online' /\ online' \in Users
    BY <2>1 DEF With
  <2>8. t2 = Took(t, msg) /\ Peopled(t2)
    BY <2>2, <2>4, <2>5, <2>7, TookOne DEF Peopled
  <2>9. Trail(Append(h, t2), Append(chan, msg), online', Tree)
    BY <1>1, <1>2, <2>1, <2>5, <2>6, <2>7, <2>8, TrailAppend
  <2>10. chan' = Append(chan, msg) /\ Tree' = Tree
    BY <2>1, <2>2 DEF Tells, treeVars, Tree
  <2> QED
    BY <2>9, <2>10 DEF Way
<1>7. CASE \E id \in DOMAIN online :
             /\ Me \in DOMAIN online
             /\ online' = Without(online, id)
             /\ Tells(Change(id, online[id], TRUE))
  <2>1. PICK id \in DOMAIN online :
          /\ Me \in DOMAIN online
          /\ online' = Without(online, id)
          /\ Tells(Change(id, online[id], TRUE))
    BY <1>7
  <2>2. PICK u \in Recs : u = online[id]
    BY <1>3, UsersAre
  <2>3. PICK c, msg : c = Change(id, u, TRUE) /\ msg = <<c>>
    OBVIOUS
  <2>4. id \in Ids
    BY <1>3, UsersAre
  <2>5. t.users = online
    BY <1>1, <1>2, <2>1 DEF Trail
  <2>6. PICK t2 : t2 = Updated(t, c)
    OBVIOUS
  <2>7. t2 \in Trees /\ t2.users = online'
    BY <1>4, <2>1, <2>3, <2>4, <2>5, <2>6, UpdatedWithout
  <2>8. online' \in Users
    BY <2>7 DEF Trees
  <2>9. /\ msg \in Seq(Entries) /\ DOMAIN msg = {1} /\ msg[1] = c /\ c.offline = TRUE
        /\ c.id = id
    <3>1. msg \in Seq(Entries)
      BY <1>5, <2>3, <2>4
    <3>2. DOMAIN msg = {1} /\ msg[1] = c /\ c.offline = TRUE /\ c.id = id
      BY <2>3 DEF Change
    <3> QED
      BY <3>1, <3>2
  <2>10. Ends(msg) <=> id = Me
    BY <2>9 DEF Ends
  <2>11. Me \in DOMAIN online' <=> id # Me
    BY <2>1 DEF Without
  <2>12. t2 = Took(t, msg) /\ (id # Me => Peopled(t2))
    BY <2>3, <2>6, <2>7, <2>11, TookOne DEF Peopled
  <2>13. Trail(Append(h, t2), Append(chan, msg), online', Tree)
    BY <1>1, <1>2, <2>1, <2>7, <2>8, <2>9, <2>10, <2>11, <2>12, TrailAppend
  <2>14. chan' = Append(chan, msg) /\ Tree' = Tree
    BY <2>1, <2>2, <2>3 DEF Tells, treeVars, Tree
  <2> QED
    BY <2>13, <2>14 DEF Way
<1> QED
  BY <1>6, <1>7 DEF ServerTells

LEMMA ReceiveList ==
  ASSUME ListInv, Receive PROVE ListInv'
<1>1. PICK h : Trail(h, chan, online, Tree)
  BY DEF ListInv, Way
<1>2. PICK msg : msg = Head(chan)
  OBVIOUS
<1>3. /\ phase = "poll" /\ chan # <<>> /\ chan' = Tail(chan) /\ online' = online
      /\ UNCHANGED <<menu, cursor, freed, sort_by>> /\ OnUchange(msg)
  BY <1>2 DEF Receive, menuVars, keyVars
<1>4. Ends(msg) => Trail(<<Tree>>, Tail(chan), online, Tree)
  BY <1>1, <1>2, <1>3, TrailTake
<1>5. ~ Ends(msg) => /\ Trail(Tail(h), Tail(chan), online, Took(Tree, msg))
                     /\ Took(Tree, msg) \in Trees
                     /\ Peopled(Tree) => Peopled(Took(Tree, msg))
  BY <1>1, <1>2, <1>3, TrailTake
<1>6. CASE Ends(msg)
  <2>1. phase' = "done" /\ UNCHANGED <<user_by_id, user_cnt, user_list_updated>>
    BY <1>3, <1>6 DEF OnUchange, Ends, treeVars
  <2>2. Way'
    BY <1>3, <1>4, <1>6, <2>1 DEF Way, Tree
  <2>3. MenuInv'
    BY <1>3, <2>1 DEF ListInv, MenuInv
  <2>4. Drawn'
    BY <2>1 DEF ListInv, Drawn
  <2> QED
    BY <2>2, <2>3, <2>4 DEF ListInv
<1>7. CASE ~ Ends(msg)
  <2>1. PICK t2 : t2 = Took(Tree, msg)
    OBVIOUS
  <2>2. /\ user_by_id' = t2.users /\ user_cnt' = t2.cnt /\ user_list_updated' = TRUE
        /\ phase' = "poll"
    BY <1>3, <1>7, <2>1 DEF OnUchange, Ends, Tree
  <2>3. Tree' = t2
    BY <1>5, <1>7, <2>1, <2>2 DEF Tree, Trees
  <2>4. Way'
    BY <1>3, <1>5, <1>7, <2>1, <2>3 DEF Way
  <2>5. DOMAIN user_by_id # {} => DOMAIN user_by_id' # {}
    <3>1. DOMAIN Tree.users # {} => DOMAIN t2.users # {}
      BY <1>5, <1>7, <2>1 DEF Peopled
    <3>2. Tree.users = user_by_id
      BY DEF Tree
    <3> QED
      BY <2>2, <3>1, <3>2
  <2>6. MenuInv'
    BY <1>3, <2>2, <2>5 DEF ListInv, MenuInv
  <2>7. Drawn'
    BY <2>2 DEF ListInv, Drawn
  <2> QED
    BY <2>4, <2>6, <2>7 DEF ListInv
<1> QED
  BY <1>6, <1>7

LEMMA EndPollList ==
  ASSUME ListInv, EndPoll PROVE ListInv'
<1>1. /\ phase = "poll" /\ phase' = "keys"
      /\ UNCHANGED <<online, chan, user_by_id, user_cnt, sort_by>>
      /\ IF user_list_updated THEN Rebuild
         ELSE UNCHANGED <<menu, cursor, freed, user_list_updated>>
  BY DEF EndPoll, serverVars, treeVars, keyVars, menuVars
<1>2. Way'
  BY <1>1 DEF ListInv, Way, Tree
<1>3. CASE ~ user_list_updated
  <2>1. MenuInv'
    BY <1>1, <1>3 DEF ListInv, MenuInv
  <2>2. Drawn'
    BY <1>1, <1>3 DEF ListInv, Drawn, Ahead
  <2> QED
    BY <1>2, <2>1, <2>2 DEF ListInv
<1>4. CASE user_list_updated
  <2>1. PICK items : items = qsort_r(Items)
    OBVIOUS
  <2>2. /\ items \in Seq(Entries) /\ Range(items) = EntriesOf(user_by_id)
        /\ items = <<>> <=> DOMAIN user_by_id = {}
        /\ \A i, j \in DOMAIN items : i < j => Ahead(items[i], items[j])
    BY <2>1, WayTree, RebuiltList DEF ListInv
  <2>3. {i \in DOMAIN items : items[i].id \in OldId} = {}
    <3>1. ASSUME NEW i \in DOMAIN items PROVE items[i].id # 0
      <4>1. PICK e \in Entries : e = items[i]
        BY <2>2
      <4>2. e.id \in Ids
        BY DEF Entries
      <4> QED
        BY <4>1, <4>2, UserListAssumption
    <3> QED
      BY <3>1 DEF OldId
  <2>4. /\ menu' = IF items = <<>> THEN menu ELSE items
        /\ cursor' = IF items = <<>> THEN cursor ELSE 1
        /\ freed' = (freed \/ (items = <<>> /\ menu # <<>>))
        /\ user_list_updated' = FALSE
    BY <1>1, <1>4, <2>1, <2>3, Zenon DEF Rebuild
  <2>5. items = <<>> => menu = <<>>
    BY <2>2 DEF ListInv, MenuInv
  <2>6. items # <<>> => 1 \in DOMAIN items
    BY <2>2
  <2>7. MenuInv'
    <3>1. CASE items = <<>>
      BY <1>1, <2>4, <2>5, <3>1 DEF ListInv, MenuInv
    <3>2. CASE items # <<>>
      <4>1. menu' = items /\ cursor' = 1 /\ freed' = FALSE /\ DOMAIN user_by_id' # {}
        BY <1>1, <2>2, <2>4, <3>2 DEF ListInv, MenuInv
      <4> QED
        BY <1>1, <2>2, <2>6, <3>2, <4>1 DEF MenuInv
    <3> QED
      BY <3>1, <3>2
  <2>8. menu' = items
    BY <2>4, <2>5
  <2>9. Drawn'
    BY <1>1, <2>2, <2>4, <2>8 DEF Drawn, Ahead, EntriesOf
  <2> QED
    BY <1>2, <2>7, <2>9 DEF ListInv
<1> QED
  BY <1>3, <1>4

(* A key that opens or closes a popup, moves the focus or the cursor,      *)
(* chooses an order or ends the session.                                   *)
LEMMA KeyList ==
  ASSUME ListInv, EndKeys \/ Tab \/ Move \/ Invite \/ Dismiss \/ MainCommand
  PROVE  ListInv'
<1>1. UNCHANGED <<online, chan, user_by_id, user_cnt, menu, freed>>
  BY DEF EndKeys, Tab, Move, Invite, Dismiss, MainCommand, serverVars, treeVars, menuVars
<1>2. Way'
  BY <1>1 DEF ListInv, Way, Tree
<1>3. MenuInv'
  <2>1. CASE Move
    <3>1. cursor' \in DOMAIN menu /\ phase' = phase
      BY <2>1 DEF Move
    <3>2. cursor' # 0 /\ menu \in Seq(Entries)
      BY <3>1 DEF ListInv, MenuInv
    <3> QED
      BY <1>1, <3>1, <3>2 DEF ListInv, MenuInv
  <2>2. CASE Invite
    BY <1>1, <2>2 DEF ListInv, MenuInv, Invite, menuVars, Focused
  <2>3. CASE EndKeys \/ Tab \/ Dismiss \/ MainCommand
    <3>1. cursor' = cursor /\ (phase' = "aborted" => phase = "aborted")
      BY <2>3 DEF EndKeys, Tab, Dismiss, MainCommand, menuVars
    <3> QED
      BY <1>1, <3>1 DEF ListInv, MenuInv
  <2> QED
    BY <2>1, <2>2, <2>3
<1>4. Drawn'
  <2>1. CASE EndKeys \/ Tab \/ Move \/ Invite \/ Dismiss
    <3>1. /\ UNCHANGED <<sort_by, user_list_updated>>
          /\ phase' \in {"poll", "keys"} => phase \in {"poll", "keys"}
          /\ phase' = "keys" => phase = "keys"
      <4>1. UNCHANGED sort_by /\ UNCHANGED user_list_updated
        BY <2>1 DEF EndKeys, Tab, Move, Invite, Dismiss, keyVars
      <4>2. phase' \in {"poll", "keys"} => phase = phase' \/ phase = "keys"
        BY <2>1 DEF EndKeys, Tab, Move, Invite, Dismiss
      <4>3. phase' = "keys" => phase = "keys"
        BY <2>1 DEF EndKeys, Tab, Move, Invite, Dismiss
      <4> QED
        BY <4>1, <4>2, <4>3
    <3>2. phase' = "poll" => phase \in {"poll", "keys"}
      BY <3>1
    <3> QED
      BY <1>1, <3>1, <3>2 DEF ListInv, Drawn, Ahead, EntriesOf
  <2>2. CASE MainCommand
    <3>1. phase = "keys"
      BY <2>2 DEF MainCommand, Focused
    <3>2. \/ user_list_updated' = TRUE /\ phase' = "keys"
          \/ phase' = "done" /\ UNCHANGED user_list_updated
      BY <2>2, <3>1 DEF MainCommand
    <3> QED
      BY <1>1, <3>1, <3>2 DEF ListInv, Drawn, EntriesOf
  <2> QED
    BY <2>1, <2>2
<1> QED
  BY <1>2, <1>3, <1>4 DEF ListInv

LEMMA NextList == ListInv /\ [Next]_vars => ListInv'
<1> SUFFICES ASSUME ListInv, [Next]_vars PROVE ListInv'
  OBVIOUS
<1>1. CASE ServerTells
  <2>1. UNCHANGED <<treeVars, menuVars, keyVars, user_list_updated, phase>>
    BY <1>1 DEF ServerTells, Tells
  <2>2. Way'
    BY <1>1, TellsWay DEF ListInv
  <2>3. MenuInv' /\ Drawn'
    BY <2>1 DEF ListInv, MenuInv, Drawn, Ahead, EntriesOf, treeVars, menuVars, keyVars
  <2> QED
    BY <2>2, <2>3 DEF ListInv
<1>2. CASE UNCHANGED vars
  BY <1>2 DEF ListInv, Way, Tree, MenuInv, Drawn, Ahead, EntriesOf, vars, serverVars,
              treeVars, menuVars, keyVars
<1> QED
  BY <1>1, <1>2, ReceiveList, EndPollList, KeyList DEF Next

THEOREM UserListInvariant == Spec => []ListInv
<1>1. Init => ListInv
  BY InitList
<1>2. ListInv /\ [Next]_vars => ListInv'
  BY NextList
<1> QED
  BY <1>1, <1>2, PTL DEF Spec

(* user_cnt is the number of users in the tree (client.c:1051-1078), so    *)
(* the items that populate_user_list fills are as many as were allocated.  *)
THEOREM UserListCountRight == Spec => []CountRight
<1>1. ListInv => CountRight
  BY WayTree DEF ListInv, CountRight
<1> QED
  BY <1>1, UserListInvariant, PTL

(* Enter never acts on an item that has been freed, and once a list has    *)
(* been drawn always on one: it is never empty again.                      *)
THEOREM UserListEnterSafe == Spec => []EnterSafe
<1>1. ListInv => EnterSafe
  BY DEF ListInv, MenuInv, EnterSafe
<1> QED
  BY <1>1, UserListInvariant, PTL

(* When keys are read the list has each user of the tree once, as it is,   *)
(* and is in the order that is chosen, unless that is about to be drawn.   *)
THEOREM UserListShown == Spec => []ListShown
<1>1. ListInv => ListShown
  <2> SUFFICES ASSUME ListInv, phase = "keys"
               PROVE  /\ {menu[i] : i \in DOMAIN menu} = EntriesOf(user_by_id)
                      /\ ~ user_list_updated =>
                           \A i, j \in DOMAIN menu : i < j => Ahead(menu[i], menu[j])
    BY DEF ListShown, EntriesOf
  <2> QED
    BY DEF ListInv, Drawn, Range
<1> QED
  BY <1>1, UserListInvariant, PTL

(* Whoever is invited is a user that the client knows at that time. *)
THEOREM UserListInvitesListed == Spec => InvitesListed
<1>1. ListInv /\ [Next]_vars => [asked' \in {0, asked} \cup DOMAIN user_by_id]_vars
  <2> SUFFICES ASSUME ListInv, Next, asked' # 0, asked' # asked
               PROVE  asked' \in DOMAIN user_by_id
    OBVIOUS
  <2>1. Invite
    BY DEF Next, ServerTells, Tells, Receive, EndPoll, EndKeys, Tab, Move, Dismiss, MainCommand,
           keyVars
  <2>2. phase = "keys" /\ cursor # 0 /\ asked' = menu[cursor].id
    BY <2>1 DEF Invite, Focused
  <2>3. cursor \in DOMAIN menu
    BY <2>2 DEF ListInv, MenuInv
  <2>4. menu[cursor] \in EntriesOf(user_by_id)
    BY <2>2, <2>3 DEF ListInv, Drawn, Range
  <2> QED
    BY <2>2, <2>4 DEF EntriesOf, Change
<1> QED
  BY <1>1, UserListInvariant, PTL DEF Spec, InvitesListed
=============================================================================
