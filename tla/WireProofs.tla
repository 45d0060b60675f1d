----------------------------- MODULE WireProofs -----------------------------
(***************************************************************************)
(* Theorems about Wire, for all lengths of a text, all capacities of an    *)
(* UCHANGE, all numbers that fields can hold and all pairs of byte orders: *)
(* a message arrives with its fields as long as recv gives what is asked   *)
(* for, and packets are read from border to border as long as no head is   *)
(* cut in two.                                                             *)
(***************************************************************************)
EXTENDS Wire, TLAPS, FiniteSetTheorems, SequenceTheorems, WellFoundedInduction

(* Induction as a fact about sets of numbers. *)
LEMMA NatInduct ==
  ASSUME NEW S \in SUBSET Nat, 0 \in S, \A n \in S : n + 1 \in S
  PROVE  \A n \in Nat : n \in S
<1> DEFINE R == {p \in Nat \X Nat : p[1] < p[2]}
<1>1. IsWellFoundedOn(R, Nat)
  BY NatLessThanWellFounded DEF OpToRel
<1>2. \A x, y \in Nat : y < x => <<y, x>> \in R
  OBVIOUS
<1> HIDE DEF R
<1>3. SUFFICES ASSUME Nat \ S # {} PROVE FALSE
  OBVIOUS
<1>4. PICK n \in Nat \ S : \A m \in Nat \ S : ~ (<<m, n>> \in R)
  BY <1>1, <1>3, WFMin
<1>5. \A m \in Nat \ S : ~ (m < n)
  BY <1>2, <1>4
<1>6. n # 0 /\ n - 1 \in Nat /\ n - 1 < n
  BY <1>4
<1>7. n - 1 \in S
  BY <1>5, <1>6
<1>8. (n - 1) + 1 = n
  BY <1>6
<1> QED
  BY <1>4, <1>7, <1>8
----------------------------------------------------------------------------
(* The fields there are, and where they lie. *)
FieldTypes == {Text, Plain(4)} \cup {Number(w) : w \in {1, 2, 4}}

LEMMA FieldFacts ==
  ASSUME NEW f \in FieldTypes
  PROVE  /\ f.w \in Nat /\ f.w > 0 /\ f.text \in BOOLEAN /\ f.conv \in BOOLEAN
         /\ f.text => f.w = TextLen /\ ~ f.conv
         /\ ~ f.text => f.w \in {1, 2, 4}
<1>1. CASE f = Text
  BY <1>1, WireAssumption DEF Text
<1>2. CASE f = Plain(4)
  BY <1>2 DEF Plain
<1>3. CASE \E w \in {1, 2, 4} : f = Number(w)
  BY <1>3 DEF Number
<1> QED
  BY <1>1, <1>2, <1>3 DEF FieldTypes

LEMMA LayoutIs ==
  ASSUME NEW kind \in Kinds
  PROVE  /\ Layout[kind] \in Seq(FieldTypes) /\ Len(Layout[kind]) > 0
         /\ kind # UCHANGE => \A i \in DOMAIN Layout[kind] : Layout[kind][i].text \/ Layout[kind][i].conv
         /\ kind = UCHANGE => /\ Len(Layout[kind]) = 1 + 4 * UCHANGE_MAX_UCNT
                              /\ Layout[kind][1] = Number(4)
<1>1. /\ Text \in FieldTypes /\ Plain(4) \in FieldTypes
      /\ Number(1) \in FieldTypes /\ Number(2) \in FieldTypes /\ Number(4) \in FieldTypes
  BY DEF FieldTypes
<1>2. Text.text /\ Number(1).conv /\ Number(2).conv /\ Number(4).conv
  BY DEF Text, Number
<1>3. CASE kind = UCHANGE
  <2>1. Layout[kind] = [i \in 1 .. 1 + Len(UserFields) * UCHANGE_MAX_UCNT |->
                          IF i = 1 THEN Number(4)
                          ELSE UserFields[((i - 2) % Len(UserFields)) + 1]]
    BY <1>3 DEF Layout, UCHANGE
  <2>2. Len(UserFields) = 4 /\ \A i \in 1 .. 4 : UserFields[i] \in FieldTypes
    BY <1>1 DEF UserFields
  <2>3. 1 + 4 * UCHANGE_MAX_UCNT \in Nat /\ 1 + 4 * UCHANGE_MAX_UCNT > 0
    BY WireAssumption
  <2>4. \A i \in 1 .. 1 + 4 * UCHANGE_MAX_UCNT : Layout[kind][i] \in FieldTypes
    <3> TAKE i \in 1 .. 1 + 4 * UCHANGE_MAX_UCNT
    <3>1. i # 1 => ((i - 2) % 4) + 1 \in 1 .. 4
      BY <2>3
    <3> QED
      BY <1>1, <2>1, <2>2, <2>3, <3>1
  <2>5. Layout[kind] = [i \in 1 .. 1 + 4 * UCHANGE_MAX_UCNT |-> Layout[kind][i]]
    BY <2>1, <2>2
  <2>6. Layout[kind] \in [1 .. 1 + 4 * UCHANGE_MAX_UCNT -> FieldTypes]
    BY <2>4, <2>5
  <2> HIDE DEF Layout
  <2>7. Layout[kind] \in Seq(FieldTypes) /\ Len(Layout[kind]) = 1 + 4 * UCHANGE_MAX_UCNT
    BY <2>3, <2>6
  <2> QED
    BY <1>3, <2>1, <2>2, <2>3, <2>7
<1>4. CASE kind \in {1, 2, 3, 5, 6, 7, 8, 9}
  <2>0. kind # UCHANGE
    BY <1>4 DEF UCHANGE
  <2>1. CASE kind = 1
    BY <1>1, <1>2, <2>0, <2>1 DEF Layout
  <2>2. CASE kind = 2
    BY <1>1, <1>2, <2>0, <2>2 DEF Layout
  <2>3. CASE kind = 3
    BY <1>1, <1>2, <2>0, <2>3 DEF Layout
  <2>5. CASE kind = 5
    BY <1>1, <1>2, <2>0, <2>5 DEF Layout
  <2>6. CASE kind = 6
    BY <1>1, <1>2, <2>0, <2>6 DEF Layout
  <2>7. CASE kind = 7
    BY <1>1, <1>2, <2>0, <2>7 DEF Layout
  <2>8. CASE kind = 8
    BY <1>1, <1>2, <2>0, <2>8 DEF Layout
  <2>9. CASE kind = 9
    BY <1>1, <1>2, <2>0, <2>9 DEF Layout
  <2> QED
    BY <1>4, <2>1, <2>2, <2>3, <2>5, <2>6, <2>7, <2>8, <2>9
<1> QED
  BY <1>3, <1>4 DEF Kinds, UCHANGE

(* The function behind Sums: it exists, and is the only one. *)
Adding(F, n, q) == F = [i \in 0 .. n |-> IF i = 0 THEN 0 ELSE F[i - 1] + q[i]]

LEMMA AddingExists ==
  ASSUME NEW q PROVE \A n \in Nat : \E F : Adding(F, n, q)
<1> DEFINE S == {n \in Nat : \E F : Adding(F, n, q)}
<1>1. 0 \in S
  <2> DEFINE F == [i \in 0 .. 0 |-> 0]
  <2>1. Adding(F, 0, q)
    BY DEF Adding
  <2> QED
    BY <2>1
<1>2. ASSUME NEW n \in S PROVE n + 1 \in S
  <2>1. n \in Nat /\ \E F : Adding(F, n, q)
    OBVIOUS
  <2>2. PICK F : Adding(F, n, q)
    BY <2>1
  <2> DEFINE G == [i \in 0 .. n + 1 |-> IF i <= n THEN F[i] ELSE F[n] + q[n + 1]]
             H == [i \in 0 .. n + 1 |-> IF i = 0 THEN 0 ELSE G[i - 1] + q[i]]
  <2>3. ASSUME NEW i \in 0 .. n + 1 PROVE G[i] = H[i]
    <3>1. CASE i = 0
      BY <2>1, <2>2, <3>1 DEF Adding
    <3>2. CASE i # 0 /\ i <= n
      <4>1. F[i] = F[i - 1] + q[i]
        BY <2>1, <2>2, <3>2 DEF Adding
      <4>2. G[i] = F[i] /\ G[i - 1] = F[i - 1]
        BY <2>1, <3>2
      <4>3. H[i] = G[i - 1] + q[i]
        BY <2>1, <3>2
      <4> QED
        BY <4>1, <4>2, <4>3
    <3>3. CASE i = n + 1
      <4>1. G[i] = F[n] + q[n + 1] /\ G[i - 1] = F[n]
        BY <2>1, <3>3
      <4>2. H[i] = G[i - 1] + q[i]
        <5>1. i # 0
          BY <2>1, <3>3
        <5> HIDE DEF G
        <5> QED
          BY <5>1
      <4> QED
        BY <3>3, <4>1, <4>2
    <3> QED
      BY <2>1, <3>1, <3>2, <3>3
  <2>4. G = H
    <3>1. /\ G = [i \in 0 .. n + 1 |-> G[i]] /\ H = [i \in 0 .. n + 1 |-> H[i]]
      OBVIOUS
    <3> HIDE DEF G, H
    <3> QED
      BY <2>3, <3>1, Zenon
  <2>5. Adding(G, n + 1, q)
    BY <2>4 DEF Adding
  <2> QED
    BY <2>1, <2>5
<1> HIDE DEF S
<1>3. \A n \in Nat : n \in S
  <2>1. S \in SUBSET Nat
    BY DEF S
  <2> QED
    BY <1>1, <1>2, <2>1, NatInduct
<1> QED
  BY <1>3 DEF S

LEMMA SumsAre ==
  ASSUME NEW q \in Seq(Nat)
  PROVE  /\ Sums(q)[0] = 0
         /\ \A i \in 0 .. Len(q) : Sums(q)[i] \in Nat
         /\ \A i \in 1 .. Len(q) : Sums(q)[i] = Sums(q)[i - 1] + q[i]
<1> DEFINE F == CHOOSE F : Adding(F, Len(q), q)
<1>1. Len(q) \in Nat
  OBVIOUS
<1>2. Adding(F, Len(q), q)
  BY <1>1, AddingExists
<1>3. Sums(q) = F
  BY DEF Sums, Adding
<1> HIDE DEF F
<1> DEFINE R == [i \in 0 .. Len(q) |-> IF i = 0 THEN 0 ELSE F[i - 1] + q[i]]
<1>4. F = R
  BY <1>2, Zenon DEF Adding
<1>5. R[0] = 0 /\ \A i \in 1 .. Len(q) : R[i] = F[i - 1] + q[i]
  BY <1>1
<1> HIDE DEF R
<1>6. F[0] = 0 /\ \A i \in 1 .. Len(q) : F[i] = F[i - 1] + q[i]
  BY <1>4, <1>5
<1> DEFINE S == {n \in Nat : n <= Len(q) => F[n] \in Nat}
<1>7. 0 \in S
  BY <1>6
<1>8. ASSUME NEW n \in S PROVE n + 1 \in S
  <2>1. CASE n + 1 <= Len(q)
    <3>1. F[n] \in Nat /\ n + 1 \in 1 .. Len(q) /\ (n + 1) - 1 = n
      BY <1>1, <2>1
    <3>2. q[n + 1] \in Nat
      BY <3>1
    <3>3. F[n + 1] = F[n] + q[n + 1]
      BY <1>6, <3>1
    <3> QED
      BY <3>1, <3>2, <3>3
  <2> QED
    BY <2>1
<1> HIDE DEF S
<1>9. \A n \in Nat : n \in S
  <2>1. S \in SUBSET Nat
    BY DEF S
  <2> QED
    BY <1>7, <1>8, <2>1, NatInduct
<1> QED
  BY <1>1, <1>3, <1>6, <1>9 DEF S

(* The first sums are those of the first numbers. *)
LEMMA SumsAgree ==
  ASSUME NEW q \in Seq(Nat), NEW r \in Seq(Nat), NEW m \in Nat,
         m <= Len(q), m <= Len(r), \A i \in 1 .. m : q[i] = r[i]
  PROVE  \A n \in 0 .. m : Sums(q)[n] = Sums(r)[n]
<1> DEFINE S == {n \in Nat : n <= m => Sums(q)[n] = Sums(r)[n]}
<1>1. 0 \in S
  BY SumsAre
<1>2. ASSUME NEW n \in S PROVE n + 1 \in S
  <2>1. CASE n + 1 <= m
    <3>1. n + 1 \in 1 .. Len(q) /\ n + 1 \in 1 .. Len(r) /\ n + 1 \in 1 .. m /\ (n + 1) - 1 = n
      BY <2>1
    <3>2. Sums(q)[n + 1] = Sums(q)[n] + q[n + 1] /\ Sums(r)[n + 1] = Sums(r)[n] + r[n + 1]
      BY <3>1, SumsAre
    <3> QED
      BY <2>1, <3>1, <3>2
  <2> QED
    BY <2>1
<1> HIDE DEF S
<1>3. \A n \in Nat : n \in S
  <2>1. S \in SUBSET Nat
    BY DEF S
  <2> QED
    BY <1>1, <1>2, <2>1, NatInduct
<1> QED
  BY <1>3 DEF S

(* A later sum is no smaller. *)
LEMMA SumsGrow ==
  ASSUME NEW q \in Seq(Nat), NEW i \in 0 .. Len(q), NEW j \in i .. Len(q)
  PROVE  Sums(q)[i] <= Sums(q)[j]
<1>0. Len(q) \in Nat /\ i \in Nat /\ j \in Nat /\ i <= j
  OBVIOUS
<1> DEFINE S == {n \in Nat : i + n <= Len(q) => Sums(q)[i] <= Sums(q)[i + n]}
<1>1. 0 \in S
  BY <1>0, SumsAre
<1>2. ASSUME NEW n \in S PROVE n + 1 \in S
  <2>1. CASE i + (n + 1) <= Len(q)
    <3>1. /\ i + (n + 1) \in 1 .. Len(q) /\ (i + (n + 1)) - 1 = i + n
          /\ i + n \in 0 .. Len(q)
      BY <1>0, <2>1
    <3>2. Sums(q)[i + (n + 1)] = Sums(q)[i + n] + q[i + (n + 1)]
      BY <3>1, SumsAre
    <3>3. q[i + (n + 1)] \in Nat /\ Sums(q)[i] \in Nat /\ Sums(q)[i + n] \in Nat
      BY <1>0, <3>1, SumsAre
    <3> QED
      BY <3>1, <3>2, <3>3
  <2> QED
    BY <2>1
<1> HIDE DEF S
<1>3. \A n \in Nat : n \in S
  <2>1. S \in SUBSET Nat
    BY DEF S
  <2> QED
    BY <1>1, <1>2, <2>1, NatInduct
<1>4. j - i \in S
  BY <1>0, <1>3
<1>5. i + (j - i) = j
  BY <1>0
<1> QED
  BY <1>0, <1>4, <1>5 DEF S

(* Sequences of anything. *)
IsSeq(s) == s \in Seq({s[i] : i \in DOMAIN s})

LEMMA SeqFacts ==
  ASSUME NEW s, IsSeq(s)
  PROVE  Len(s) \in Nat /\ DOMAIN s = 1 .. Len(s) /\ s = [i \in 1 .. Len(s) |-> s[i]]
BY DEF IsSeq

LEMMA SeqIs ==
  ASSUME NEW s, NEW n \in Nat, s = [i \in 1 .. n |-> s[i]]
  PROVE  IsSeq(s) /\ Len(s) = n
<1>1. DOMAIN s = 1 .. n
  BY Zenon
<1>2. s \in [1 .. n -> {s[i] : i \in DOMAIN s}]
  <2> DEFINE S == {s[i] : i \in DOMAIN s}
  <2>1. \A i \in 1 .. n : s[i] \in S
    BY <1>1
  <2> HIDE DEF S
  <2>2. s \in [1 .. n -> S]
    BY <2>1, Zenon
  <2> QED
    BY <2>2 DEF S
<1> QED
  BY <1>2 DEF IsSeq

LEMMA SeqInSet ==
  ASSUME NEW S, NEW s \in Seq(S)
  PROVE  IsSeq(s)
<1>1. PICK n \in Nat : n = Len(s)
  OBVIOUS
<1>2. s = [i \in 1 .. n |-> s[i]]
  BY <1>1
<1> QED
  BY <1>2, SeqIs, Zenon

(* Concatenation, as the provers see it. *)
Joined(s, t) == s \o t

LEMMA ConcatIs ==
  ASSUME NEW s, NEW t, IsSeq(s), IsSeq(t)
  PROVE  /\ IsSeq(Joined(s, t)) /\ Len(Joined(s, t)) = Len(s) + Len(t)
         /\ \A i \in 1 .. Len(s) : Joined(s, t)[i] = s[i]
         /\ \A i \in 1 .. Len(t) : Joined(s, t)[Len(s) + i] = t[i]
<1> DEFINE S == {s[i] : i \in DOMAIN s} \cup {t[i] : i \in DOMAIN t}
<1>1. s \in Seq(S) /\ t \in Seq(S)
  <2>1. s = [i \in 1 .. Len(s) |-> s[i]] /\ t = [i \in 1 .. Len(t) |-> t[i]]
        /\ Len(s) \in Nat /\ Len(t) \in Nat
    BY SeqFacts
  <2>2. \A i \in 1 .. Len(s) : s[i] \in S
    BY SeqFacts
  <2>3. \A i \in 1 .. Len(t) : t[i] \in S
    BY SeqFacts
  <2> HIDE DEF S
  <2>4. s \in [1 .. Len(s) -> S] /\ t \in [1 .. Len(t) -> S]
    BY <2>1, <2>2, <2>3
  <2> QED
    BY <2>1, <2>4
<1> HIDE DEF S
<1>2. s \o t \in Seq(S) /\ Len(s \o t) = Len(s) + Len(t)
  BY <1>1
<1>3. \A i \in 1 .. Len(s) : (s \o t)[i] = s[i]
  BY <1>1
<1>4. \A i \in 1 .. Len(t) : (s \o t)[Len(s) + i] = t[i]
  BY <1>1
<1> QED
  BY <1>2, <1>3, <1>4, SeqInSet DEF Joined

LEMMA JoinedIs ==
  ASSUME NEW s, NEW t, NEW a \in Nat, NEW b \in Nat,
         IsSeq(s), IsSeq(t), Len(s) = a, Len(t) = b
  PROVE  /\ IsSeq(Joined(s, t)) /\ Len(Joined(s, t)) = a + b
         /\ \A i \in 1 .. a : Joined(s, t)[i] = s[i]
         /\ \A i \in 1 .. b : Joined(s, t)[a + i] = t[i]
<1>1. IsSeq(Joined(s, t))
  BY ConcatIs
<1>2. Len(Joined(s, t)) = Len(s) + Len(t)
  BY ConcatIs
<1>3. \A i \in 1 .. Len(s) : Joined(s, t)[i] = s[i]
  BY ConcatIs
<1>4. \A i \in 1 .. Len(t) : Joined(s, t)[Len(s) + i] = t[i]
  BY ConcatIs
<1>5. Len(Joined(s, t)) = a + b
  BY <1>2
<1>6. \A i \in 1 .. a : Joined(s, t)[i] = s[i]
  BY <1>3
<1>7. \A i \in 1 .. b : Joined(s, t)[a + i] = t[i]
  BY <1>4
<1> QED
  BY <1>1, <1>5, <1>6, <1>7

LEMMA AppendIs ==
  ASSUME NEW s, NEW e, IsSeq(s)
  PROVE  /\ IsSeq(Append(s, e)) /\ Len(Append(s, e)) = Len(s) + 1
         /\ \A i \in 1 .. Len(s) : Append(s, e)[i] = s[i]
         /\ Append(s, e)[Len(s) + 1] = e
<1> DEFINE S == {s[i] : i \in DOMAIN s} \cup {e}
<1>1. s \in Seq(S) /\ e \in S
  <2>1. s = [i \in 1 .. Len(s) |-> s[i]] /\ Len(s) \in Nat
    BY SeqFacts
  <2>2. \A i \in 1 .. Len(s) : s[i] \in S
    BY SeqFacts
  <2>3. e \in S
    OBVIOUS
  <2> HIDE DEF S
  <2>4. s \in [1 .. Len(s) -> S]
    BY <2>1, <2>2
  <2> QED
    BY <2>1, <2>3, <2>4
<1> HIDE DEF S
<1>2. Append(s, e) \in Seq(S) /\ Len(Append(s, e)) = Len(s) + 1
  BY <1>1
<1>3. \A i \in 1 .. Len(s) : Append(s, e)[i] = s[i]
  BY <1>1
<1>4. Append(s, e)[Len(s) + 1] = e
  BY <1>1
<1> QED
  BY <1>2, <1>3, <1>4, SeqInSet

LEMMA SubSeqIs ==
  ASSUME NEW s, NEW m \in Nat, NEW n \in Nat, IsSeq(s), m > 0, m <= n + 1, n <= Len(s)
  PROVE  /\ IsSeq(SubSeq(s, m, n)) /\ Len(SubSeq(s, m, n)) = (n - m) + 1
         /\ SubSeq(s, m, n) = [i \in 1 .. (n - m) + 1 |-> s[(i + m) - 1]]
<1>1. SubSeq(s, m, n) = [i \in 1 .. (n - m) + 1 |-> s[(i + m) - 1]]
  <2> DEFINE S == {s[i] : i \in DOMAIN s}
  <2>1. s \in Seq(S)
    BY DEF IsSeq
  <2> HIDE DEF S
  <2> QED
    BY <2>1, SubSeqProperties
<1>2. (n - m) + 1 \in Nat
  OBVIOUS
<1>3. SubSeq(s, m, n) = [i \in 1 .. (n - m) + 1 |-> SubSeq(s, m, n)[i]]
  BY <1>1
<1> QED
  BY <1>1, <1>2, <1>3, SeqIs
----------------------------------------------------------------------------
LEMMA EndsAre ==
  ASSUME NEW kind \in Kinds
  PROVE  /\ DOMAIN Layout[kind] = 1 .. Len(Layout[kind]) /\ Len(Layout[kind]) \in Nat
         /\ Ends[kind][0] = 0
         /\ \A i \in 0 .. Len(Layout[kind]) : Ends[kind][i] \in Nat
         /\ \A i \in 1 .. Len(Layout[kind]) :
              Ends[kind][i] = Ends[kind][i - 1] + Layout[kind][i].w
         /\ \A i \in 0 .. Len(Layout[kind]) : \A j \in i .. Len(Layout[kind]) :
              Ends[kind][i] <= Ends[kind][j]
<1> DEFINE L == Layout[kind]
           q == [i \in DOMAIN L |-> L[i].w]
<1>1. L \in Seq(FieldTypes)
  BY LayoutIs
<1>2. Ends[kind] = Sums(q)
  BY DEF Ends
<1> HIDE DEF L
<1>3. DOMAIN L = 1 .. Len(L) /\ Len(L) \in Nat /\ \A i \in DOMAIN L : L[i] \in FieldTypes
  BY <1>1
<1>4. \A i \in DOMAIN L : L[i].w \in Nat
  BY <1>3, FieldFacts
<1>5. q \in [1 .. Len(L) -> Nat] /\ \A i \in 1 .. Len(L) : q[i] = L[i].w
  BY <1>3, <1>4
<1> HIDE DEF q
<1>6. q \in Seq(Nat) /\ Len(q) = Len(L)
  BY <1>3, <1>5
<1>7. /\ Sums(q)[0] = 0
      /\ \A i \in 0 .. Len(q) : Sums(q)[i] \in Nat
      /\ \A i \in 1 .. Len(q) : Sums(q)[i] = Sums(q)[i - 1] + q[i]
  BY <1>6, SumsAre
<1>8. \A i \in 0 .. Len(q) : \A j \in i .. Len(q) : Sums(q)[i] <= Sums(q)[j]
  BY <1>6, SumsGrow
<1>9. /\ DOMAIN L = 1 .. Len(L) /\ Len(L) \in Nat
      /\ Ends[kind][0] = 0
      /\ \A i \in 0 .. Len(L) : Ends[kind][i] \in Nat
      /\ \A i \in 1 .. Len(L) : Ends[kind][i] = Ends[kind][i - 1] + L[i].w
      /\ \A i \in 0 .. Len(L) : \A j \in i .. Len(L) : Ends[kind][i] <= Ends[kind][j]
  BY <1>2, <1>3, <1>5, <1>6, <1>7, <1>8
<1> QED
  BY <1>9 DEF L

LEMMA SizeIs ==
  ASSUME NEW kind \in Kinds
  PROVE  /\ msg_body_size(kind) = Ends[kind][Len(Layout[kind])]
         /\ msg_body_size(kind) \in Nat /\ msg_body_size(kind) < 65536
<1>1. Len(Layout[kind]) \in Nat /\ Ends[kind][Len(Layout[kind])] \in Nat
  BY EndsAre
<1>2. (Len(Layout[kind]) + 1) - 1 = Len(Layout[kind])
  BY <1>1
<1>3. msg_body_size(kind) = Ends[kind][Len(Layout[kind])]
  BY <1>2 DEF msg_body_size, Offset
<1>4. 256 ^ 2 = 65536
  OBVIOUS
<1> QED
  BY <1>1, <1>3, <1>4, SizesFit

(* Fields of the widths that the layout says. *)
FieldsOf(kind, c) ==
  /\ c = [i \in DOMAIN Layout[kind] |-> c[i]]
  /\ \A i \in DOMAIN c : c[i] = [j \in 1 .. Layout[kind][i].w |-> c[i][j]]

(* Two stretches that share a place overlap. *)
LEMMA Apart ==
  ASSUME NEW e \in Nat, NEW f \in Nat, NEW g \in Nat, NEW h \in Nat,
         NEW k, k \in e + 1 .. f, k \in g + 1 .. h
  PROVE  ~(f <= g) /\ ~(h <= e)
OBVIOUS

(* A field is found among the bytes where it has been put. *)
LEMMA BytesOf ==
  ASSUME NEW kind \in Kinds, NEW c, FieldsOf(kind, c)
  PROVE  /\ IsSeq(Bytes(kind, c)) /\ Len(Bytes(kind, c)) = msg_body_size(kind)
         /\ \A i \in DOMAIN Layout[kind] : \A j \in 1 .. Layout[kind][i].w :
              /\ Offset(kind, i) + j \in 1 .. msg_body_size(kind)
              /\ Bytes(kind, c)[Offset(kind, i) + j] = c[i][j]
<1> DEFINE B == Bytes(kind, c)
           L == Len(Layout[kind])
           E == Ends[kind]
<1>0. /\ DOMAIN Layout[kind] = 1 .. L /\ L \in Nat /\ DOMAIN c = 1 .. L
      /\ E[0] = 0 /\ msg_body_size(kind) = E[L] /\ E[L] \in Nat
      /\ \A i \in 0 .. L : E[i] \in Nat
      /\ \A i \in 1 .. L : E[i] = E[i - 1] + Layout[kind][i].w
      /\ \A i \in 0 .. L : \A j \in i .. L : E[i] <= E[j]
  <2>1. DOMAIN c = DOMAIN Layout[kind]
    BY Zenon DEF FieldsOf
  <2> QED
    BY <2>1, EndsAre, SizeIs
<1>1. \A i : Offset(kind, i) = E[i - 1]
  BY DEF Offset
<1>2. \A i \in 1 .. L : Offset(kind, i + 1) = E[i]
  <2> TAKE i \in 1 .. L
  <2>1. (i + 1) - 1 = i
    BY <1>0
  <2> QED
    BY <2>1 DEF Offset
<1>3. ASSUME NEW k \in 1 .. E[L]
      PROVE  B[k] = LET i == CHOOSE j \in 1 .. L : k \in Offset(kind, j) + 1 .. Offset(kind, j + 1)
                    IN  c[i][k - Offset(kind, i)]
  BY <1>0 DEF Bytes
<1>4. IsSeq(B) /\ Len(B) = E[L]
  <2>1. B = [k \in 1 .. E[L] |-> B[k]]
    BY <1>0 DEF Bytes
  <2> HIDE DEF B
  <2> QED
    BY <1>0, <2>1, SeqIs
<1>5. ASSUME NEW i \in 1 .. L, NEW j \in 1 .. Layout[kind][i].w
      PROVE  Offset(kind, i) + j \in 1 .. E[L] /\ B[Offset(kind, i) + j] = c[i][j]
  <2> DEFINE k == E[i - 1] + j
             P(a) == k \in Offset(kind, a) + 1 .. Offset(kind, a + 1)
             a0 == CHOOSE a \in 1 .. L : P(a)
  <2>1. /\ i - 1 \in 0 .. L /\ i \in i - 1 .. L /\ L \in i .. L /\ i \in 0 .. L
        /\ E[i - 1] \in Nat /\ E[i] \in Nat /\ Layout[kind][i].w \in Nat
        /\ E[i] = E[i - 1] + Layout[kind][i].w /\ E[i] <= E[L]
    <3>1. i - 1 \in 0 .. L /\ i \in i - 1 .. L /\ L \in i .. L /\ i \in 0 .. L
      BY <1>0
    <3>2. Layout[kind][i].w \in Nat
      BY <1>0, LayoutIs, FieldFacts
    <3> QED
      BY <1>0, <3>1, <3>2
  <2>2. k \in Nat /\ k \in E[i - 1] + 1 .. E[i] /\ k \in 1 .. E[L]
    <3> DEFINE w == Layout[kind][i].w
               e == E[i - 1]
               f == E[i]
    <3>1. e \in Nat /\ f \in Nat /\ w \in Nat /\ f = e + w /\ f <= E[L] /\ j \in 1 .. w /\ E[L] \in Nat
      BY <1>0, <2>1
    <3> HIDE DEF w, e, f
    <3>2. e + j \in Nat /\ e + j \in e + 1 .. f /\ e + j \in 1 .. E[L]
      BY <3>1
    <3> QED
      BY <3>2 DEF e, f
  <2>3. P(i)
    BY <1>1, <1>2, <2>2
  <2>4. ASSUME NEW a \in 1 .. L, P(a) PROVE a = i
    <3>1. k \in E[a - 1] + 1 .. E[a] /\ a - 1 \in 0 .. L /\ a \in 0 .. L
      BY <1>0, <1>1, <1>2, <2>4
    <3>2. E[a - 1] \in Nat /\ E[a] \in Nat
      BY <1>0, <3>1
    <3>3. ~(E[i] <= E[a - 1]) /\ ~(E[a] <= E[i - 1])
      <4>1. k \in E[i - 1] + 1 .. E[i] /\ k \in E[a - 1] + 1 .. E[a]
        BY <2>2, <3>1
      <4> HIDE DEF k, E
      <4> QED
        BY <2>1, <3>2, <4>1, Apart, Zenon
    <3>4. ~(a < i)
      <4> SUFFICES ASSUME a < i PROVE FALSE
        OBVIOUS
      <4>1. i - 1 \in a .. L
        BY <1>0
      <4> QED
        BY <1>0, <3>1, <3>3, <4>1
    <3>5. ~(i < a)
      <4> SUFFICES ASSUME i < a PROVE FALSE
        OBVIOUS
      <4>1. a - 1 \in i .. L
        BY <1>0
      <4> QED
        BY <1>0, <2>1, <3>3, <4>1
    <3> QED
      BY <1>0, <3>4, <3>5
  <2>5. a0 = i
    <3> HIDE DEF P
    <3> QED
      BY <2>3, <2>4
  <2>6. B[k] = c[a0][k - Offset(kind, a0)]
    <3> HIDE DEF k, B
    <3> QED
      BY <1>3, <2>2
  <2>7. Offset(kind, i) = E[i - 1] /\ k - E[i - 1] = j
    BY <1>1, <2>1
  <2> QED
    BY <2>2, <2>5, <2>6, <2>7
<1> QED
  BY <1>0, <1>4, <1>5

LEMMA FieldsBack ==
  ASSUME NEW kind \in Kinds, NEW c, FieldsOf(kind, c), NEW b, IsSeq(b),
         Len(b) = msg_body_size(kind),
         \A k \in 1 .. msg_body_size(kind) : b[k] = Bytes(kind, c)[k]
  PROVE  Fields(kind, b) = c
<1> DEFINE L == Len(Layout[kind])
           E == Ends[kind]
<1>0. /\ DOMAIN Layout[kind] = 1 .. L /\ L \in Nat /\ DOMAIN c = 1 .. L
      /\ msg_body_size(kind) = E[L] /\ E[L] \in Nat
      /\ \A i \in 0 .. L : E[i] \in Nat
      /\ \A i \in 1 .. L : E[i] = E[i - 1] + Layout[kind][i].w
      /\ \A i \in 0 .. L : \A j \in i .. L : E[i] <= E[j]
  <2>1. DOMAIN c = DOMAIN Layout[kind]
    BY Zenon DEF FieldsOf
  <2> QED
    BY <2>1, EndsAre, SizeIs
<1>1. ASSUME NEW i \in 1 .. L
      PROVE  SubSeq(b, Offset(kind, i) + 1, Offset(kind, i) + Layout[kind][i].w) = c[i]
  <2> DEFINE o == E[i - 1]
             w == Layout[kind][i].w
  <2>1. /\ i - 1 \in 0 .. L /\ L \in i .. L /\ i \in 0 .. L /\ o \in Nat /\ w \in Nat
        /\ E[i] = o + w /\ o + w <= E[L]
    <3>1. i - 1 \in 0 .. L /\ L \in i .. L /\ i \in 0 .. L
      BY <1>0
    <3>2. w \in Nat
      BY <1>0, LayoutIs, FieldFacts
    <3> QED
      BY <1>0, <3>1, <3>2
  <2>2. Offset(kind, i) = o
    BY DEF Offset
  <2> HIDE DEF o, w
  <2>3. SubSeq(b, o + 1, o + w) = [j \in 1 .. ((o + w) - (o + 1)) + 1 |-> b[(j + (o + 1)) - 1]]
    BY <1>0, <2>1, SubSeqIs
  <2>4. ((o + w) - (o + 1)) + 1 = w
    BY <2>1
  <2>5. ASSUME NEW j \in 1 .. w PROVE b[(j + (o + 1)) - 1] = c[i][j]
    <3>1. (j + (o + 1)) - 1 = o + j
      BY <2>1
    <3>2. o + j \in 1 .. msg_body_size(kind) /\ Bytes(kind, c)[o + j] = c[i][j]
      BY <1>0, <2>2, BytesOf DEF w
    <3> QED
      BY <3>1, <3>2
  <2>6. SubSeq(b, o + 1, o + w) = [j \in 1 .. w |-> c[i][j]]
    BY <2>3, <2>4, <2>5
  <2>7. c[i] = [j \in 1 .. w |-> c[i][j]]
    BY <1>0 DEF w, FieldsOf
  <2> QED
    BY <2>2, <2>6, <2>7 DEF w
<1>2. Fields(kind, b) = [i \in 1 .. L |-> c[i]]
  BY <1>0, <1>1 DEF Fields
<1>3. c = [i \in 1 .. L |-> c[i]]
  BY <1>0, Zenon DEF FieldsOf
<1> QED
  BY <1>2, <1>3

----------------------------------------------------------------------------
(* Numbers and their bytes. *)
Widths == {1, 2, 4}

Fits(n, w) == n < IF w = 1 THEN 256 ELSE 65536

BigValue(d) ==
  LET digit(i) == IF i < Len(d) THEN d[Len(d) - i] ELSE 0
  IN  digit(0) + 256 * digit(1) + 256 ^ 2 * digit(2) + 256 ^ 3 * digit(3)

LEMMA Powers == 256 ^ 0 = 1 /\ 256 ^ 1 = 256 /\ 256 ^ 2 = 65536 /\ 256 ^ 3 = 16777216
<1>1. 256 ^ 0 = 1
  OBVIOUS
<1>2. 256 ^ 1 = 256
  OBVIOUS
<1>3. 256 ^ 2 = 65536
  OBVIOUS
<1>4. 256 ^ 3 = 16777216
  OBVIOUS
<1> QED
  BY <1>1, <1>2, <1>3, <1>4

LEMMA DigitsAre ==
  ASSUME NEW n \in Nat, NEW w \in Widths
  PROVE  /\ IsSeq(Digits(n, w)) /\ Len(Digits(n, w)) = w
         /\ Digits(n, w) = [i \in 1 .. w |-> Digits(n, w)[i]]
<1>1. w \in Nat
  BY DEF Widths
<1>2. Digits(n, w) = [i \in 1 .. w |-> Digits(n, w)[i]]
  BY DEF Digits
<1> QED
  BY <1>1, <1>2, SeqIs

LEMMA SwapIs ==
  ASSUME NEW order \in Orders, NEW b, IsSeq(b)
  PROVE  /\ IsSeq(Swap(order, b)) /\ Len(Swap(order, b)) = Len(b)
         /\ Swap(order, Swap(order, b)) = b
<1>1. CASE order = "little"
  <2> DEFINE r == Reverse(b)
             L == Len(b)
  <2>1. L \in Nat /\ b = [i \in 1 .. L |-> b[i]]
    BY SeqFacts
  <2>2. r = [i \in 1 .. L |-> b[(L - i) + 1]]
    BY DEF Reverse
  <2> HIDE DEF L
  <2>3. r = [i \in 1 .. L |-> r[i]]
    BY <2>2
  <2> HIDE DEF r
  <2>4. IsSeq(r) /\ Len(r) = L
    BY <2>1, <2>3, SeqIs
  <2>5. Reverse(r) = [i \in 1 .. L |-> r[(L - i) + 1]]
    BY <2>4 DEF Reverse
  <2>6. ASSUME NEW i \in 1 .. L PROVE r[(L - i) + 1] = b[i]
    <3>1. (L - i) + 1 \in 1 .. L /\ (L - ((L - i) + 1)) + 1 = i
      BY <2>1
    <3> QED
      BY <2>2, <3>1
  <2>7. Reverse(r) = b
    BY <2>1, <2>5, <2>6
  <2> QED
    BY <1>1, <2>4, <2>7 DEF r, L, Swap
<1>2. CASE order # "little"
  BY <1>2 DEF Swap
<1> QED
  BY <1>1, <1>2

LEMMA ValueIs == \A order, b : Value(order, b) = BigValue(Swap(order, b))
BY DEF Value, BigValue

LEMMA BigOne == ASSUME NEW d, Len(d) = 1, d[1] \in Nat PROVE BigValue(d) = d[1]
BY Powers DEF BigValue

LEMMA BigTwo ==
  ASSUME NEW d, Len(d) = 2, d[1] \in Nat, d[2] \in Nat PROVE BigValue(d) = d[2] + 256 * d[1]
BY Powers DEF BigValue

LEMMA BigFour ==
  ASSUME NEW d, Len(d) = 4, d[1] \in Nat, d[2] \in Nat, d[3] \in Nat, d[4] \in Nat
  PROVE  BigValue(d) = d[4] + 256 * d[3] + 65536 * d[2] + 16777216 * d[1]
BY Powers DEF BigValue

(* The digits of a number that fits. *)
LEMMA DigitsOne == ASSUME NEW n \in Nat, n < 256 PROVE Digits(n, 1)[1] = n
<1>1. Digits(n, 1)[1] = (n \div 256 ^ (1 - 1)) % 256
  BY DEF Digits
<1>2. 256 ^ (1 - 1) = 1
  OBVIOUS
<1>3. n \div 1 = n /\ n % 256 = n
  OBVIOUS
<1> QED
  BY <1>1, <1>2, <1>3

LEMMA DigitsTwo ==
  ASSUME NEW n \in Nat, n < 65536
  PROVE  Digits(n, 2)[1] = n \div 256 /\ Digits(n, 2)[2] = n % 256
<1>1. /\ Digits(n, 2)[1] = (n \div 256 ^ (2 - 1)) % 256
      /\ Digits(n, 2)[2] = (n \div 256 ^ (2 - 2)) % 256
  BY DEF Digits
<1>2. 256 ^ (2 - 1) = 256 /\ 256 ^ (2 - 2) = 1
  BY Powers
<1>3. n \div 1 = n /\ (n \div 256) % 256 = n \div 256
  OBVIOUS
<1> QED
  BY <1>1, <1>2, <1>3

LEMMA DigitsFour ==
  ASSUME NEW n \in Nat, n < 65536
  PROVE  /\ Digits(n, 4)[1] = 0 /\ Digits(n, 4)[2] = 0
         /\ Digits(n, 4)[3] = n \div 256 /\ Digits(n, 4)[4] = n % 256
<1>1. \A i \in 1 .. 4 : Digits(n, 4)[i] = (n \div 256 ^ (4 - i)) % 256
  BY DEF Digits
<1>2. 4 - 1 = 3 /\ 4 - 2 = 2 /\ 4 - 3 = 1 /\ 4 - 4 = 0
  OBVIOUS
<1>3. /\ Digits(n, 4)[1] = (n \div 16777216) % 256
      /\ Digits(n, 4)[2] = (n \div 65536) % 256
      /\ Digits(n, 4)[3] = (n \div 256) % 256
      /\ Digits(n, 4)[4] = (n \div 1) % 256
  BY <1>1, <1>2, Powers
<1>4. /\ n \div 1 = n /\ (n \div 256) % 256 = n \div 256
      /\ n \div 65536 = 0 /\ n \div 16777216 = 0 /\ 0 % 256 = 0
  OBVIOUS
<1> QED
  BY <1>3, <1>4

LEMMA BigDigits ==
  ASSUME NEW n \in Nat, NEW w \in Widths, Fits(n, w)
  PROVE  BigValue(Digits(n, w)) = n
<1>0. n \div 256 \in Nat /\ n % 256 \in Nat /\ n = (n % 256) + 256 * (n \div 256)
  OBVIOUS
<1>1. CASE w = 1
  <2>1. n < 256
    BY <1>1 DEF Fits
  <2>2. Len(Digits(n, 1)) = 1 /\ Digits(n, 1)[1] = n
    BY <1>1, <2>1, DigitsAre, DigitsOne
  <2> QED
    BY <1>1, <2>2, BigOne
<1>2. CASE w = 2
  <2>1. n < 65536
    BY <1>2 DEF Fits
  <2>2. Len(Digits(n, 2)) = 2 /\ Digits(n, 2)[1] = n \div 256 /\ Digits(n, 2)[2] = n % 256
    <3>1. Len(Digits(n, 2)) = 2
      BY <1>2, DigitsAre
    <3> QED
      BY <2>1, <3>1, DigitsTwo
  <2>3. BigValue(Digits(n, 2)) = (n % 256) + 256 * (n \div 256)
    BY <1>0, <2>2, BigTwo
  <2> QED
    BY <1>0, <1>2, <2>3
<1>3. CASE w = 4
  <2>1. n < 65536
    BY <1>3 DEF Fits
  <2>2. /\ Len(Digits(n, 4)) = 4 /\ Digits(n, 4)[1] = 0 /\ Digits(n, 4)[2] = 0
        /\ Digits(n, 4)[3] = n \div 256 /\ Digits(n, 4)[4] = n % 256
    <3>1. Len(Digits(n, 4)) = 4
      BY <1>3, DigitsAre
    <3> QED
      BY <2>1, <3>1, DigitsFour
  <2>3. BigValue(Digits(n, 4)) = (n % 256) + 256 * (n \div 256) + 65536 * 0 + 16777216 * 0
    BY <1>0, <2>2, BigFour
  <2> QED
    BY <1>0, <1>3, <2>3
<1> QED
  BY <1>1, <1>2, <1>3 DEF Widths

(* Memory reads as it was written, by a host of the same byte order. *)
LEMMA StoredReads ==
  ASSUME NEW order \in Orders, NEW n \in Nat, NEW w \in Widths, Fits(n, w)
  PROVE  /\ Value(order, Stored(order, n, w)) = n
         /\ Swap(order, Stored(order, n, w)) = Digits(n, w)
<1>1. Swap(order, Swap(order, Digits(n, w))) = Digits(n, w)
  BY DigitsAre, SwapIs
<1> QED
  BY <1>1, BigDigits, ValueIs DEF Stored

(* Zero looks the same both ways round. *)
LEMMA ZeroReads ==
  ASSUME NEW order \in Orders, NEW w \in Widths
  PROVE  Swap(order, Digits(0, w)) = Digits(0, w) /\ Value(order, Digits(0, w)) = 0
<1>1. \A i \in 1 .. w : Digits(0, w)[i] = 0
  <2>1. CASE w = 1
    BY <2>1, DigitsOne
  <2>2. CASE w = 2
    BY <2>2, DigitsTwo
  <2>3. CASE w = 4
    BY <2>3, DigitsFour
  <2> QED
    BY <2>1, <2>2, <2>3 DEF Widths
<1>2. w \in Nat /\ Digits(0, w) = [i \in 1 .. w |-> 0] /\ Len(Digits(0, w)) = w
  <2>1. Digits(0, w) = [i \in 1 .. w |-> Digits(0, w)[i]] /\ Len(Digits(0, w)) = w
    BY DigitsAre, Zenon
  <2>2. [i \in 1 .. w |-> Digits(0, w)[i]] = [i \in 1 .. w |-> 0]
    BY <1>1
  <2>3. w \in Nat
    BY DEF Widths
  <2> QED
    BY <2>1, <2>2, <2>3
<1>3. Reverse(Digits(0, w)) = [i \in 1 .. w |-> 0]
  <2>1. Reverse(Digits(0, w)) = [i \in 1 .. w |-> Digits(0, w)[(w - i) + 1]]
    BY <1>2 DEF Reverse
  <2>2. \A i \in 1 .. w : (w - i) + 1 \in 1 .. w
    BY <1>2
  <2> QED
    BY <1>1, <2>1, <2>2
<1>4. Swap(order, Digits(0, w)) = Digits(0, w)
  BY <1>2, <1>3 DEF Swap
<1>5. BigValue(Digits(0, w)) = 0
  BY BigDigits DEF Fits
<1> QED
  BY <1>4, <1>5, ValueIs

(* What msg_body_conv of a little endian host takes for the count of an    *)
(* UCHANGE is no smaller than the count.                                   *)
LEMMA CountReads ==
  ASSUME NEW order \in Orders, NEW n \in Nat, n < 256
  PROVE  Value(order, Digits(n, 4)) \in Nat /\ Value(order, Digits(n, 4)) >= n
<1>0. 4 \in Widths /\ Fits(n, 4)
  BY DEF Widths, Fits
<1>1. CASE order = "little"
  <2> DEFINE d == Digits(n, 4)
             r == Reverse(d)
  <2>1. /\ d[1] = 0 /\ d[2] = 0 /\ d[3] = n \div 256 /\ d[4] = n % 256 /\ Len(d) = 4
    <3>1. Len(d) = 4
      BY <1>0, DigitsAre
    <3>2. n < 65536
      OBVIOUS
    <3> QED
      BY <3>1, <3>2, DigitsFour
  <2>2. n \div 256 = 0 /\ n % 256 = n
    OBVIOUS
  <2> HIDE DEF d
  <2>3. r = [i \in 1 .. 4 |-> d[(4 - i) + 1]]
    BY <2>1 DEF Reverse
  <2>4. r[1] = d[4] /\ r[2] = d[3] /\ r[3] = d[2] /\ r[4] = d[1] /\ Len(r) = 4
    BY <2>3
  <2> HIDE DEF r
  <2>5. BigValue(r) = 16777216 * n
    <3>1. r[1] = n /\ r[2] = 0 /\ r[3] = 0 /\ r[4] = 0 /\ Len(r) = 4
      BY <2>1, <2>2, <2>4
    <3>2. BigValue(r) = 0 + 256 * 0 + 65536 * 0 + 16777216 * n
      BY <3>1, BigFour
    <3> QED
      BY <3>2
  <2>6. Value(order, Digits(n, 4)) = BigValue(r)
    BY <1>1, ValueIs DEF Swap, r, d
  <2> QED
    BY <2>5, <2>6
<1>2. CASE order # "little"
  <2>1. Value(order, Digits(n, 4)) = BigValue(Digits(n, 4))
    BY <1>2, ValueIs DEF Swap
  <2> QED
    BY <1>0, <2>1, BigDigits
<1> QED
  BY <1>1, <1>2

----------------------------------------------------------------------------
(* What a message that is sent is like. *)
TextLike(b) == b = [j \in 1 .. TextLen |-> b[j]] /\ null_terminated(b)

GoodBody(kind, body) ==
  /\ body = [i \in DOMAIN Layout[kind] |-> body[i]]
  /\ \A i \in DOMAIN Layout[kind] :
       IF Layout[kind][i].text THEN TextLike(body[i])
       ELSE body[i] \in Nat /\ Fits(body[i], Layout[kind][i].w)
  /\ kind = UCHANGE =>
       /\ body[1] \in 0 .. UCHANGE_MAX_UCNT
       /\ \A i \in DOMAIN Layout[kind] :
            i > 1 + 4 * body[1] /\ ~ Layout[kind][i].text => body[i] = 0

LEMMA MinTwo ==
  ASSUME NEW a \in Nat, NEW b \in Nat
  PROVE  Min({a, b}) = IF a <= b THEN a ELSE b
<1> DEFINE c == IF a <= b THEN a ELSE b
           P(x) == \A y \in {a, b} : x =< y
<1>1. c \in {a, b} /\ P(c)
  OBVIOUS
<1>2. ASSUME NEW x \in {a, b}, P(x) PROVE x = c
  BY <1>2
<1>3. Min({a, b}) = CHOOSE x \in {a, b} : P(x)
  BY DEF Min
<1> HIDE DEF P, c
<1>4. Min({a, b}) = c
  BY <1>1, <1>2, <1>3
<1> QED
  BY <1>4 DEF c

LEMMA TextOfIs == ASSUME NEW n PROVE TextLike(TextOf(n))
<1>1. TextLen \in 1 .. TextLen /\ TextLen \in Nat
  BY WireAssumption
<1>2. TextOf(n) = [j \in 1 .. TextLen |-> TextOf(n)[j]]
  BY DEF TextOf
<1>3. TextOf(n)[TextLen] = 0
  BY <1>1 DEF TextOf
<1> QED
  BY <1>1, <1>2, <1>3 DEF TextLike, null_terminated

LEMMA BlankIs ==
  ASSUME NEW f \in FieldTypes
  PROVE  IF f.text THEN TextLike(Blank(f)) ELSE Blank(f) = 0
<1>1. CASE f.text
  <2>1. TextLen \in 1 .. TextLen /\ TextLen \in Nat
    BY WireAssumption
  <2>2. Blank(f) = [j \in 1 .. TextLen |-> 0]
    BY <1>1 DEF Blank
  <2>3. Blank(f) = [j \in 1 .. TextLen |-> Blank(f)[j]] /\ Blank(f)[TextLen] = 0
    BY <2>1, <2>2
  <2> QED
    BY <1>1, <2>1, <2>3 DEF TextLike, null_terminated
<1>2. CASE ~ f.text
  BY <1>2 DEF Blank
<1> QED
  BY <1>1, <1>2

LEMMA SampleIs ==
  ASSUME NEW f \in FieldTypes, NEW n \in Nat, NEW i \in Nat
  PROVE  IF f.text THEN TextLike(Sample(f, n, i))
         ELSE Sample(f, n, i) \in Nat /\ Fits(Sample(f, n, i), f.w)
<1>1. CASE f.text
  BY <1>1, TextOfIs DEF Sample
<1>2. CASE ~ f.text
  <2>1. f.w \in {1, 2, 4}
    BY <1>2, FieldFacts
  <2>2. Sample(f, n, i) = (n + i) % 256 ^ Min({f.w, 2})
    BY <1>2 DEF Sample
  <2>3. CASE f.w = 1
    <3>1. Min({f.w, 2}) = 1
      BY <2>3, MinTwo
    <3>2. Sample(f, n, i) = (n + i) % 256
      BY <2>2, <3>1, Powers
    <3> QED
      BY <1>2, <2>3, <3>2 DEF Fits
  <2>4. CASE f.w # 1
    <3>1. Min({f.w, 2}) = 2
      BY <2>1, <2>4, MinTwo
    <3>2. Sample(f, n, i) = (n + i) % 65536
      BY <2>2, <3>1, Powers
    <3> QED
      BY <1>2, <2>4, <3>2 DEF Fits
  <2> QED
    BY <2>3, <2>4
<1> QED
  BY <1>1, <1>2

LEMMA MessageIs ==
  ASSUME NEW m \in Messages
  PROVE  m.kind \in Kinds /\ GoodBody(m.kind, m.body)
<1>1. PICK kind \in Kinds, n \in Samples, count \in 0 .. UCHANGE_MAX_UCNT :
        m = Message(kind, n, count)
  BY DEF Messages
<1> DEFINE L == Layout[kind]
           b == m.body
<1>2. /\ n \in Nat /\ count \in Nat /\ count < 256 /\ UCHANGE_MAX_UCNT \in Nat
  BY WireAssumption
<1>3. /\ DOMAIN L = 1 .. Len(L) /\ Len(L) \in Nat /\ \A i \in DOMAIN L : L[i] \in FieldTypes
      /\ Len(L) > 0
  BY LayoutIs
<1>4. m.kind = kind
  BY <1>1 DEF Message
<1>5. b = [i \in DOMAIN L |-> IF kind # UCHANGE THEN Sample(L[i], n, i)
                             ELSE IF i = 1 THEN count
                             ELSE IF i <= 1 + Len(UserFields) * count THEN Sample(L[i], n, i)
                             ELSE Blank(L[i])]
  BY <1>1 DEF Message
<1>6. Len(UserFields) = 4
  BY DEF UserFields
<1> DEFINE Good(i) == IF L[i].text THEN TextLike(b[i]) ELSE b[i] \in Nat /\ Fits(b[i], L[i].w)
<1>7. ASSUME NEW i \in DOMAIN L PROVE Good(i)
  <2>1. L[i] \in FieldTypes /\ i \in Nat
    BY <1>3
  <2>2. IF L[i].text THEN TextLike(Sample(L[i], n, i))
        ELSE Sample(L[i], n, i) \in Nat /\ Fits(Sample(L[i], n, i), L[i].w)
    BY <1>2, <2>1, SampleIs
  <2>3. IF L[i].text THEN TextLike(Blank(L[i])) ELSE Blank(L[i]) = 0
    BY <2>1, BlankIs
  <2>4. kind = UCHANGE /\ i = 1 => ~ L[i].text
    BY LayoutIs DEF Number
  <2> HIDE DEF L
  <2>5. CASE b[i] = Sample(L[i], n, i)
    BY <2>2, <2>5
  <2>6. CASE b[i] = Blank(L[i])
    <3>1. L[i].w \in Nat /\ Fits(0, L[i].w)
      BY <2>1, FieldFacts DEF Fits
    <3> QED
      BY <2>3, <2>6, <3>1
  <2>7. CASE kind = UCHANGE /\ i = 1 /\ b[i] = count
    <3>1. Fits(count, L[i].w)
      BY <1>2 DEF Fits
    <3> QED
      BY <1>2, <2>4, <2>7, <3>1
  <2> HIDE DEF Good
  <2>8. b[i] = IF kind # UCHANGE THEN Sample(L[i], n, i)
               ELSE IF i = 1 THEN count
               ELSE IF i <= 1 + Len(UserFields) * count THEN Sample(L[i], n, i)
               ELSE Blank(L[i])
    BY <1>5
  <2> QED
    BY <2>5, <2>6, <2>7, <2>8
<1>8. b = [i \in DOMAIN L |-> b[i]]
  BY <1>5
<1>9. CASE kind = UCHANGE
  <2>1. b[1] = count
    BY <1>3, <1>5, <1>9
  <2>2. ASSUME NEW i \in DOMAIN L, i > 1 + 4 * b[1], ~ L[i].text PROVE b[i] = 0
    <3>1. i # 1 /\ ~ (i <= 1 + Len(UserFields) * count)
      BY <1>2, <1>3, <1>6, <2>1, <2>2
    <3>2. b[i] = Blank(L[i])
      BY <1>5, <1>9, <3>1
    <3> QED
      BY <1>3, <2>2, <3>2, BlankIs
  <2> QED
    BY <1>4, <1>7, <1>8, <2>1, <2>2 DEF GoodBody
<1>10. CASE kind # UCHANGE
  BY <1>4, <1>7, <1>8, <1>10 DEF GoodBody
<1> QED
  BY <1>9, <1>10
----------------------------------------------------------------------------
(* The fields of a message on the wire, and what its receiver makes of     *)
(* them.                                                                   *)
OnWire(order, kind, body) == msg_body_conv(order, kind, InMemory(order, kind, body))

Read(order, kind, fields) == Meaning(order, kind, msg_body_conv(order, kind, fields))

LEMMA OnWireIs ==
  ASSUME NEW order \in Orders, NEW kind \in Kinds, NEW body, GoodBody(kind, body)
  PROVE  FieldsOf(kind, OnWire(order, kind, body))
<1> DEFINE L == Layout[kind]
           M == InMemory(order, kind, body)
           c == OnWire(order, kind, body)
<1>1. /\ \A i \in DOMAIN L : L[i] \in FieldTypes
  BY LayoutIs
<1>2. DOMAIN body = DOMAIN L
  BY Zenon DEF GoodBody
<1>3. M = [i \in DOMAIN L |-> IF L[i].text THEN body[i] ELSE Stored(order, body[i], L[i].w)]
  BY <1>2 DEF InMemory
<1>4. DOMAIN M = DOMAIN L
  BY <1>3
<1>5. c = [i \in DOMAIN L |-> IF L[i].conv /\ i \in Reached(order, kind, M)
                                THEN Swap(order, M[i]) ELSE M[i]]
  BY <1>4 DEF OnWire, msg_body_conv
<1>6. ASSUME NEW i \in DOMAIN L PROVE c[i] = [j \in 1 .. L[i].w |-> c[i][j]]
  <2>1. L[i] \in FieldTypes
    BY <1>1
  <2>2. c[i] = IF L[i].conv /\ i \in Reached(order, kind, M) THEN Swap(order, M[i]) ELSE M[i]
    BY <1>5
  <2>3. M[i] = IF L[i].text THEN body[i] ELSE Stored(order, body[i], L[i].w)
    BY <1>3
  <2>4. CASE L[i].text
    <3>1. c[i] = body[i] /\ L[i].w = TextLen
      BY <2>1, <2>2, <2>3, <2>4, FieldFacts
    <3>2. body[i] = [j \in 1 .. TextLen |-> body[i][j]]
      BY <2>4, Zenon DEF GoodBody, TextLike
    <3> QED
      BY <3>1, <3>2
  <2>5. CASE ~ L[i].text
    <3> DEFINE w == L[i].w
               d == Digits(body[i], w)
    <3>1. body[i] \in Nat /\ w \in Widths /\ M[i] = Swap(order, d)
      BY <2>1, <2>3, <2>5, FieldFacts DEF GoodBody, Stored, Widths
    <3>2. IsSeq(d) /\ Len(d) = w
      BY <3>1, DigitsAre
    <3> HIDE DEF d, w
    <3>3. IsSeq(M[i]) /\ Len(M[i]) = w /\ IsSeq(Swap(order, M[i])) /\ Len(Swap(order, M[i])) = w
      BY <3>1, <3>2, SwapIs
    <3>4. IsSeq(c[i]) /\ Len(c[i]) = w
      BY <2>2, <3>3
    <3>5. c[i] = [j \in 1 .. Len(c[i]) |-> c[i][j]]
      BY <3>4, SeqFacts
    <3>6. c[i] = [j \in 1 .. w |-> c[i][j]]
      BY <3>4, <3>5
    <3> QED
      BY <3>6 DEF w
  <2> QED
    BY <2>4, <2>5
<1>7. c = [i \in DOMAIN L |-> c[i]]
  BY <1>5
<1> QED
  BY <1>6, <1>7 DEF FieldsOf

(* A message means to its receiver what its sender meant. *)
LEMMA ReadBack ==
  ASSUME NEW f \in Orders, NEW t \in Orders, NEW kind \in Kinds, NEW body, GoodBody(kind, body)
  PROVE  LET r == Read(t, kind, OnWire(f, kind, body))
         IN  /\ DOMAIN r = DOMAIN Layout[kind]
             /\ \A i \in DOMAIN Layout[kind] :
                  \/ r[i] = body[i]
                  \/ f # t /\ ~ Layout[kind][i].conv /\ ~ Layout[kind][i].text
<1> DEFINE L == Layout[kind]
           M == InMemory(f, kind, body)
           c == OnWire(f, kind, body)
           d == msg_body_conv(t, kind, c)
           r == Read(t, kind, c)
           RF == Reached(f, kind, M)
           RT == Reached(t, kind, c)
<1>1. /\ \A i \in DOMAIN L : L[i] \in FieldTypes
      /\ DOMAIN L = 1 .. Len(L) /\ Len(L) \in Nat /\ Len(L) > 0
  BY LayoutIs
<1>2. DOMAIN body = DOMAIN L
  BY Zenon DEF GoodBody
<1>3. M = [i \in DOMAIN L |-> IF L[i].text THEN body[i] ELSE Stored(f, body[i], L[i].w)]
  BY <1>2 DEF InMemory
<1>4. c = [i \in DOMAIN L |-> IF L[i].conv /\ i \in RF THEN Swap(f, M[i]) ELSE M[i]]
  BY <1>3 DEF OnWire, msg_body_conv
<1>5. d = [i \in DOMAIN L |-> IF L[i].conv /\ i \in RT THEN Swap(t, c[i]) ELSE c[i]]
  BY <1>4 DEF msg_body_conv
<1>6. r = [i \in DOMAIN L |-> IF L[i].text THEN d[i] ELSE Value(t, d[i])]
  BY <1>5 DEF Read, Meaning
<1>7. /\ DOMAIN M = DOMAIN L /\ DOMAIN c = DOMAIN L
      /\ \A i \in DOMAIN L :
           /\ M[i] = IF L[i].text THEN body[i] ELSE Stored(f, body[i], L[i].w)
           /\ c[i] = IF L[i].conv /\ i \in RF THEN Swap(f, M[i]) ELSE M[i]
           /\ d[i] = IF L[i].conv /\ i \in RT THEN Swap(t, c[i]) ELSE c[i]
           /\ r[i] = IF L[i].text THEN d[i] ELSE Value(t, d[i])
  BY <1>3, <1>4, <1>5, <1>6
<1> DEFINE Both(i) == i \in RF /\ i \in RT
           Zero(i) == i \notin RT /\ (~ L[i].text => body[i] = 0)
<1>8. ASSUME kind = UCHANGE PROVE \A i \in DOMAIN L : Both(i) \/ Zero(i)
  <2> DEFINE n == body[1]
             x == Value(f, Swap(f, M[1]))
             y == Value(t, Swap(t, c[1]))
  <2>1. /\ L[1] = Number(4) /\ Len(L) = 1 + 4 * UCHANGE_MAX_UCNT
        /\ 1 \in DOMAIN L /\ L[1].w = 4 /\ ~ L[1].text /\ L[1].conv
    BY <1>1, <1>8, LayoutIs DEF Number
  <2>2. n \in Nat /\ n <= UCHANGE_MAX_UCNT /\ n < 256 /\ UCHANGE_MAX_UCNT \in Nat
    BY <1>8, WireAssumption DEF GoodBody
  <2>3. Fits(n, 4) /\ 4 \in Widths
    BY <2>2 DEF Fits, Widths
  <2>4. M[1] = Stored(f, n, 4)
    BY <1>7, <2>1
  <2>5. Swap(f, M[1]) = Digits(n, 4)
    BY <2>2, <2>3, <2>4, StoredReads
  <2>6. x \in Nat /\ x >= n
    BY <2>2, <2>5, CountReads
  <2>7. RF = 1 .. 1 + 4 * (IF x <= UCHANGE_MAX_UCNT THEN x ELSE UCHANGE_MAX_UCNT)
    <3>1. Len(UserFields) = 4
      BY DEF UserFields
    <3>2. Min({x, UCHANGE_MAX_UCNT}) = IF x <= UCHANGE_MAX_UCNT THEN x ELSE UCHANGE_MAX_UCNT
      BY <2>2, <2>6, MinTwo
    <3> QED
      BY <1>8, <3>1, <3>2 DEF Reached
  <2>8. 1 \in RF
    BY <2>2, <2>6, <2>7
  <2>9. c[1] = Digits(n, 4)
    BY <1>7, <2>1, <2>5, <2>8
  <2>10. y = n
    BY <2>2, <2>3, <2>9, StoredReads DEF Stored
  <2>11. RT = 1 .. 1 + 4 * n
    <3>1. Len(UserFields) = 4
      BY DEF UserFields
    <3>2. Min({y, UCHANGE_MAX_UCNT}) = n
      BY <2>2, <2>10, MinTwo
    <3>3. RT = 1 .. 1 + Len(UserFields) * Min({y, UCHANGE_MAX_UCNT})
      BY <1>8 DEF Reached
    <3> QED
      BY <3>1, <3>2, <3>3
  <2> HIDE DEF M, c, d, r, RF, RT
  <2>12. \A i \in DOMAIN L : i > 1 + 4 * n /\ ~ L[i].text => body[i] = 0
    BY <1>8 DEF GoodBody
  <2> HIDE DEF n, x
  <2> TAKE i \in DOMAIN L
  <2>13. i \in Nat /\ i >= 1 /\ i <= 1 + 4 * UCHANGE_MAX_UCNT
    BY <1>1, <2>1, <2>2
  <2>14. CASE i <= 1 + 4 * n
    <3>1. i <= 1 + 4 * x
      BY <2>2, <2>6, <2>13, <2>14
    <3> QED
      BY <2>2, <2>6, <2>7, <2>11, <2>13, <2>14, <3>1
  <2>15. CASE i > 1 + 4 * n
    BY <2>2, <2>11, <2>12, <2>13, <2>15
  <2> QED
    BY <2>2, <2>13, <2>14, <2>15
<1>9. ASSUME kind # UCHANGE PROVE \A i \in DOMAIN L : Both(i)
  <2>1. RF = DOMAIN M /\ RT = DOMAIN c
    BY <1>9 DEF Reached
  <2> QED
    BY <1>7, <2>1
<1> HIDE DEF M, c, d, r, RF, RT
<1>10. ASSUME NEW i \in DOMAIN L
       PROVE  r[i] = body[i] \/ (f # t /\ ~ L[i].conv /\ ~ L[i].text)
  <2> DEFINE n == body[i]
             w == L[i].w
  <2>1. L[i] \in FieldTypes
    BY <1>1
  <2>2. /\ M[i] = IF L[i].text THEN n ELSE Stored(f, n, w)
        /\ c[i] = IF L[i].conv /\ i \in RF THEN Swap(f, M[i]) ELSE M[i]
        /\ d[i] = IF L[i].conv /\ i \in RT THEN Swap(t, c[i]) ELSE c[i]
        /\ r[i] = IF L[i].text THEN d[i] ELSE Value(t, d[i])
    BY <1>7
  <2>3. CASE L[i].text
    <3>1. ~ L[i].conv
      BY <2>1, <2>3, FieldFacts
    <3> QED
      BY <2>2, <2>3, <3>1
  <2>4. CASE ~ L[i].text
    <3>1. w \in Widths /\ n \in Nat /\ Fits(n, w)
      BY <2>1, <2>4, FieldFacts DEF GoodBody, Widths
    <3>2. /\ Value(f, Stored(f, n, w)) = n /\ Swap(f, Stored(f, n, w)) = Digits(n, w)
          /\ Value(t, Swap(t, Digits(n, w))) = n
      BY <3>1, StoredReads DEF Stored
    <3>3. Both(i) \/ Zero(i)
      BY <1>8, <1>9
    <3> HIDE DEF n, w
    <3>4. CASE Both(i) /\ L[i].conv
      BY <2>2, <2>4, <3>2, <3>4 DEF n
    <3>5. CASE Zero(i)
      <4>1. n = 0
        BY <2>4, <3>5 DEF n
      <4>2. Stored(f, n, w) = Digits(0, w) /\ Swap(f, Digits(0, w)) = Digits(0, w)
        BY <3>1, <4>1, ZeroReads DEF Stored
      <4>3. d[i] = Digits(0, w)
        BY <2>2, <2>4, <3>5, <4>2
      <4>4. Value(t, Digits(0, w)) = 0
        BY <3>1, ZeroReads
      <4> QED
        BY <2>2, <2>4, <4>1, <4>3, <4>4 DEF n
    <3>6. CASE ~ L[i].conv
      <4>1. r[i] = Value(t, Stored(f, n, w))
        BY <2>2, <2>4, <3>6
      <4>2. f = t => r[i] = n
        BY <3>2, <4>1
      <4> QED
        BY <2>4, <3>6, <4>2 DEF n
    <3> QED
      BY <3>3, <3>4, <3>5, <3>6
  <2> QED
    BY <2>3, <2>4
<1>11. DOMAIN r = DOMAIN L
  BY <1>6
<1> QED
  BY <1>10, <1>11 DEF r, c

----------------------------------------------------------------------------
(* The bytes of the messages of s after the first n. *)
AfterOf(s, n) ==
  LET sum == Sums([i \in DOMAIN s |-> HeadSize + msg_body_size(s[i].kind)])
  IN  sum[Len(s)] - sum[n]

(* No recv has cut a head in two. *)
Whole == short = 0 \/ "head" \notin ShortIn

(* The bytes of b are a head, or a body, of m. *)
HeadIn(b, f, m) == \A j \in 1 .. HeadSize : b[j] = Packet[f][m][j]

BodyIn(b, f, m) ==
  \A j \in 1 .. msg_body_size(m.kind) : b[HeadSize + j] = Packet[f][m][HeadSize + j]

(* The bytes of s are those of the messages of q after the first g, the    *)
(* last ones at the end; the first of them may be gone.                    *)
Start(s, q, i) == Len(s) - AfterOf(q, i - 1)

Carries(s, q, g, f) ==
  \A i \in g + 1 .. Len(q) : \A j \in 1 .. HeadSize + msg_body_size(q[i].kind) :
    Start(s, q, i) + j >= 1 => s[Start(s, q, i) + j] = Packet[f][q[i]][j]

Typed ==
  /\ from \in Orders /\ to \in Orders
  /\ IsSeq(stream) /\ buf = [i \in 1 .. BufSize |-> buf[i]]
  /\ part \in {"head", "body", "ended"}
  /\ len \in Nat /\ short \in Nat
  /\ sent \in Seq(Messages) /\ IsSeq(got)

(* The message whose packet is read. *)
Current == sent[Len(got) + 1]

Framing ==
  Whole =>
    /\ Len(got) <= Len(sent)
    /\ \A i \in 1 .. Len(got) : got[i].kind = sent[i].kind
    /\ part # "ended" => Carries(stream, sent, Len(got), from)
    /\ part = "head" => len \in {0, HeadSize}
    /\ part = "head" /\ len = HeadSize => Len(stream) = AfterOf(sent, Len(got))
    /\ part = "head" /\ len = 0 => /\ Len(got) < Len(sent)
                                   /\ Len(stream) = AfterOf(sent, Len(got)) - HeadSize
                                   /\ HeadIn(buf, from, Current)
    /\ part = "body" => /\ Len(got) < Len(sent)
                        /\ len <= msg_body_size(Current.kind)
                        /\ Len(stream) = AfterOf(sent, Len(got) + 1) + len
                        /\ HeadIn(buf, from, Current)

(* Alike, for hosts of the byte orders f and t. *)
Same(f, t, m, n) ==
  /\ m.kind = n.kind
  /\ \A i \in DOMAIN m.body :
       \/ m.body[i] = n.body[i]
       \/ f # t /\ ~ Layout[m.kind][i].conv /\ ~ Layout[m.kind][i].text

Intact ==
  short = 0 =>
    /\ part # "ended"
    /\ \A i \in 1 .. Len(got) : Same(from, to, got[i], sent[i])
    /\ part = "body" => len \in {0, msg_body_size(Current.kind)}
    /\ part = "body" /\ len = 0 => BodyIn(buf, from, Current)

WireInv == Typed /\ Framing /\ Intact

LEMMA AfterIs == \A n : After(n) = AfterOf(sent, n)
BY DEF After, AfterOf

LEMMA LengthsAre ==
  ASSUME NEW s \in Seq(Messages)
  PROVE  LET q == [i \in DOMAIN s |-> HeadSize + msg_body_size(s[i].kind)]
         IN  q \in Seq(Nat) /\ Len(q) = Len(s)
             /\ \A i \in 1 .. Len(s) : q[i] = HeadSize + msg_body_size(s[i].kind)
<1> DEFINE q == [i \in DOMAIN s |-> HeadSize + msg_body_size(s[i].kind)]
<1>1. Len(s) \in Nat /\ DOMAIN s = 1 .. Len(s)
  OBVIOUS
<1>2. ASSUME NEW i \in 1 .. Len(s) PROVE q[i] = HeadSize + msg_body_size(s[i].kind) /\ q[i] \in Nat
  <2>1. s[i] \in Messages
    BY <1>1
  <2>2. msg_body_size(s[i].kind) \in Nat
    BY <2>1, MessageIs, SizeIs
  <2> QED
    BY <1>1, <2>2 DEF HeadSize
<1>3. q = [i \in 1 .. Len(s) |-> q[i]]
  BY <1>1
<1> HIDE DEF q
<1>4. q \in [1 .. Len(s) -> Nat]
  BY <1>2, <1>3
<1>5. q \in Seq(Nat) /\ Len(q) = Len(s)
  BY <1>1, <1>4
<1> QED
  BY <1>2, <1>5 DEF q

LEMMA AfterFacts ==
  ASSUME NEW s \in Seq(Messages)
  PROVE  /\ AfterOf(s, Len(s)) = 0
         /\ \A n \in 0 .. Len(s) : AfterOf(s, n) \in Nat
         /\ \A n \in 1 .. Len(s) :
              AfterOf(s, n - 1) = AfterOf(s, n) + HeadSize + msg_body_size(s[n].kind)
<1> DEFINE q == [i \in DOMAIN s |-> HeadSize + msg_body_size(s[i].kind)]
<1>1. \A n : AfterOf(s, n) = Sums(q)[Len(s)] - Sums(q)[n]
  BY DEF AfterOf
<1>2. /\ q \in Seq(Nat) /\ Len(q) = Len(s)
      /\ \A i \in 1 .. Len(s) : q[i] = HeadSize + msg_body_size(s[i].kind)
  BY LengthsAre
<1> HIDE DEF q
<1>3. Len(s) \in Nat
  OBVIOUS
<1>4. /\ \A i \in 0 .. Len(s) : Sums(q)[i] \in Nat
      /\ \A i \in 1 .. Len(s) : Sums(q)[i] = Sums(q)[i - 1] + q[i]
  BY <1>2, SumsAre
<1>5. \A i \in 0 .. Len(s) : Sums(q)[i] <= Sums(q)[Len(s)]
  <2> TAKE i \in 0 .. Len(s)
  <2>1. Len(q) \in i .. Len(q) /\ i \in 0 .. Len(q)
    BY <1>2, <1>3
  <2> QED
    BY <1>2, <2>1, SumsGrow
<1>6. ASSUME NEW n \in 0 .. Len(s) PROVE AfterOf(s, n) \in Nat
  <2>1. Sums(q)[n] \in Nat /\ Sums(q)[Len(s)] \in Nat /\ Sums(q)[n] <= Sums(q)[Len(s)]
    BY <1>3, <1>4, <1>5
  <2> QED
    BY <1>1, <2>1
<1>7. ASSUME NEW n \in 1 .. Len(s)
      PROVE  AfterOf(s, n - 1) = AfterOf(s, n) + HeadSize + msg_body_size(s[n].kind)
  <2>1. n \in 0 .. Len(s) /\ n - 1 \in 0 .. Len(s)
    BY <1>3
  <2>2. Sums(q)[n] \in Nat /\ Sums(q)[n - 1] \in Nat /\ Sums(q)[Len(s)] \in Nat
    BY <1>3, <1>4, <2>1
  <2>3. Sums(q)[n] = Sums(q)[n - 1] + (HeadSize + msg_body_size(s[n].kind))
    BY <1>2, <1>4
  <2>4. msg_body_size(s[n].kind) \in Nat
    BY MessageIs, SizeIs
  <2> QED
    BY <1>1, <2>2, <2>3, <2>4 DEF HeadSize
<1>8. AfterOf(s, Len(s)) = 0
  BY <1>1, <1>3, <1>4
<1> QED
  BY <1>6, <1>7, <1>8

LEMMA AfterAppend ==
  ASSUME NEW s \in Seq(Messages), NEW m \in Messages, NEW n \in 0 .. Len(s)
  PROVE  AfterOf(Append(s, m), n) = AfterOf(s, n) + HeadSize + msg_body_size(m.kind)
<1> DEFINE t == Append(s, m)
           L == Len(s)
           q == [i \in DOMAIN s |-> HeadSize + msg_body_size(s[i].kind)]
           r == [i \in DOMAIN t |-> HeadSize + msg_body_size(t[i].kind)]
<1>1. /\ t \in Seq(Messages) /\ Len(t) = L + 1 /\ L \in Nat
      /\ \A i \in 1 .. L : t[i] = s[i]
      /\ t[L + 1] = m
  OBVIOUS
<1>2. AfterOf(s, n) = Sums(q)[L] - Sums(q)[n] /\ AfterOf(t, n) = Sums(r)[Len(t)] - Sums(r)[n]
  BY DEF AfterOf
<1>3. /\ q \in Seq(Nat) /\ Len(q) = L
      /\ \A i \in 1 .. L : q[i] = HeadSize + msg_body_size(s[i].kind)
  BY LengthsAre
<1> HIDE DEF t
<1>4. /\ r \in Seq(Nat) /\ Len(r) = Len(t)
      /\ \A i \in 1 .. Len(t) : r[i] = HeadSize + msg_body_size(t[i].kind)
  BY <1>1, LengthsAre
<1> HIDE DEF q, r, L
<1>5. \A i \in 1 .. L : q[i] = r[i]
  <2> TAKE i \in 1 .. L
  <2>1. i \in 1 .. Len(t) /\ t[i] = s[i]
    BY <1>1
  <2> QED
    BY <1>3, <1>4, <2>1
<1>6. \A i \in 0 .. L : Sums(q)[i] = Sums(r)[i]
  <2>1. q \in Seq(Nat) /\ r \in Seq(Nat) /\ L \in Nat
    BY <1>1, <1>3, <1>4
  <2>2. L <= Len(q) /\ L <= Len(r)
    BY <1>1, <1>3, <1>4
  <2> QED
    BY <1>5, <2>1, <2>2, SumsAgree, Zenon
<1>7. Sums(r)[L + 1] = Sums(r)[L] + r[L + 1] /\ Sums(r)[L] \in Nat
  <2>1. L + 1 \in 1 .. Len(r) /\ (L + 1) - 1 = L /\ L \in 0 .. Len(r)
    BY <1>1, <1>4
  <2> QED
    BY <1>4, <2>1, SumsAre
<1>8. r[L + 1] = HeadSize + msg_body_size(m.kind)
  BY <1>1, <1>4
<1>9. n \in 0 .. L /\ L \in 0 .. L
  BY <1>1 DEF L
<1>10. Sums(q)[n] = Sums(r)[n] /\ Sums(q)[L] = Sums(r)[L] /\ Sums(r)[n] \in Nat
  <2>1. n \in 0 .. Len(r)
    BY <1>1, <1>4, <1>9
  <2> QED
    BY <1>4, <1>6, <1>9, <2>1, SumsAre
<1>11. msg_body_size(m.kind) \in Nat
  BY MessageIs, SizeIs
<1> DEFINE z == msg_body_size(m.kind)
<1> HIDE DEF z
<1>12. AfterOf(t, n) = AfterOf(s, n) + HeadSize + z
  <2>1. /\ AfterOf(s, n) = Sums(q)[L] - Sums(q)[n] /\ AfterOf(t, n) = Sums(r)[L + 1] - Sums(r)[n]
    BY <1>1, <1>2
  <2>2. r[L + 1] = HeadSize + z /\ z \in Nat
    BY <1>8, <1>11 DEF z
  <2> QED
    BY <1>7, <1>10, <2>1, <2>2 DEF HeadSize
<1> QED
  BY <1>12, Zenon DEF t, z

(* The buffer has room for every body. *)
LEMMA MaxExists ==
  ASSUME NEW f, \A k \in 1 .. 9 : f[k] \in Nat
  PROVE  \E k \in 1 .. 9 : \A j \in 1 .. 9 : f[j] <= f[k]
<1> DEFINE S == {n \in Nat : n + 1 <= 9 =>
                   \E k \in 1 .. n + 1 : \A j \in 1 .. n + 1 : f[j] <= f[k]}
<1>1. 0 \in S
  OBVIOUS
<1>2. ASSUME NEW n \in S PROVE n + 1 \in S
  <2>1. SUFFICES ASSUME (n + 1) + 1 <= 9
                 PROVE  \E k \in 1 .. (n + 1) + 1 : \A j \in 1 .. (n + 1) + 1 : f[j] <= f[k]
    OBVIOUS
  <2>2. n \in Nat /\ n + 1 <= 9
    BY <2>1
  <2>3. PICK k \in 1 .. n + 1 : \A j \in 1 .. n + 1 : f[j] <= f[k]
    BY <2>2
  <2> HIDE DEF S
  <2> DEFINE z == (n + 1) + 1
  <2>4. /\ k \in 1 .. z /\ z \in 1 .. z /\ f[k] \in Nat /\ f[z] \in Nat
        /\ \A j \in 1 .. z : (j \in 1 .. n + 1 \/ j = z) /\ f[j] \in Nat
    BY <2>1, <2>2
  <2>5. CASE f[z] <= f[k]
    BY <2>3, <2>4, <2>5
  <2>6. CASE f[k] < f[z]
    BY <2>3, <2>4, <2>6
  <2> QED
    BY <2>4, <2>5, <2>6
<1> HIDE DEF S
<1>3. \A n \in Nat : n \in S
  <2>1. S \in SUBSET Nat
    BY DEF S
  <2> QED
    BY <1>1, <1>2, <2>1, NatInduct
<1>4. 8 \in S
  BY <1>3
<1> QED
  BY <1>4 DEF S

LEMMA BufFits ==
  /\ BufSize \in Nat /\ BufSize >= HeadSize
  /\ \A kind \in Kinds : HeadSize + msg_body_size(kind) <= BufSize
<1> DEFINE f == [k \in 1 .. 9 |-> msg_body_size(k)]
           S == {msg_body_size(kind) : kind \in Kinds}
           P(x) == \A y \in S : x >= y
<1>1. \A k \in 1 .. 9 : f[k] \in Nat /\ f[k] = msg_body_size(k)
  <2> TAKE k \in 1 .. 9
  <2>1. k \in Kinds
    BY DEF Kinds
  <2>2. msg_body_size(k) \in Nat
    BY <2>1, SizeIs
  <2> QED
    BY <2>2
<1> HIDE DEF f
<1>2. PICK k \in 1 .. 9 : \A j \in 1 .. 9 : f[j] <= f[k]
  BY <1>1, MaxExists
<1>3. msg_body_size(k) \in S /\ P(msg_body_size(k))
  BY <1>1, <1>2 DEF Kinds
<1>4. Max(S) = CHOOSE x \in S : P(x)
  BY DEF Max
<1>5. Max(S) \in S /\ P(Max(S))
  <2> HIDE DEF P, S
  <2> QED
    BY <1>3, <1>4
<1>6. BufSize = HeadSize + Max(S)
  BY DEF BufSize
<1>7. Max(S) \in Nat
  BY <1>5, SizeIs
<1>8. \A kind \in Kinds : msg_body_size(kind) <= Max(S) /\ msg_body_size(kind) \in Nat
  BY <1>5, SizeIs
<1> HIDE DEF S, P
<1> QED
  BY <1>6, <1>7, <1>8 DEF HeadSize

LEMMA PacketIs ==
  ASSUME NEW f \in Orders, NEW m \in Messages
  PROVE  /\ IsSeq(Packet[f][m])
         /\ Len(Packet[f][m]) = HeadSize + msg_body_size(m.kind)
         /\ Packet[f][m][1] = Digits(m.kind, 2)[1] /\ Packet[f][m][2] = Digits(m.kind, 2)[2]
         /\ Packet[f][m][3] = Digits(msg_body_size(m.kind), 2)[1]
         /\ Packet[f][m][4] = Digits(msg_body_size(m.kind), 2)[2]
         /\ \A k \in 1 .. msg_body_size(m.kind) :
              Packet[f][m][HeadSize + k] = Bytes(m.kind, OnWire(f, m.kind, m.body))[k]
<1> DEFINE d == Digits(m.kind, 2)
           e == Digits(msg_body_size(m.kind), 2)
           b == Bytes(m.kind, OnWire(f, m.kind, m.body))
           s == msg_body_size(m.kind)
<1>1. Packet[f][m] = Joined(Joined(d, e), b)
  BY Zenon DEF Packet, OnWire, Joined
<1>2. m.kind \in Kinds /\ m.kind \in Nat /\ GoodBody(m.kind, m.body)
  BY MessageIs DEF Kinds
<1>3. s \in Nat /\ 2 \in Widths
  BY <1>2, SizeIs DEF Widths
<1>4. Len(d) = 2 /\ Len(e) = 2
  BY <1>2, <1>3, DigitsAre
<1>5. Len(b) = s
  BY <1>2, OnWireIs, BytesOf
<1>6. IsSeq(d) /\ IsSeq(e)
  BY <1>2, <1>3, DigitsAre
<1>7. IsSeq(b)
  BY <1>2, OnWireIs, BytesOf
<1> HIDE DEF d, e, b, s
<1> DEFINE h == Joined(d, e)
<1>8. /\ Len(h) = 4 /\ h[1] = d[1] /\ h[2] = d[2]
      /\ h[3] = e[1] /\ h[4] = e[2]
  <2>2. Len(h) = Len(d) + Len(e)
    BY <1>6, ConcatIs
  <2>3. \A i \in 1 .. Len(d) : h[i] = d[i]
    BY <1>6, ConcatIs
  <2>4. \A i \in 1 .. Len(e) : h[Len(d) + i] = e[i]
    BY <1>6, ConcatIs
  <2> HIDE DEF h
  <2>5. Len(h) = 4
    BY <1>4, <2>2
  <2>6. h[1] = d[1] /\ h[2] = d[2]
    BY <1>4, <2>3
  <2>7. h[3] = e[1] /\ h[4] = e[2]
    <3>1. Len(d) + 1 = 3 /\ Len(d) + 2 = 4 /\ 1 \in 1 .. Len(e) /\ 2 \in 1 .. Len(e)
      BY <1>4
    <3> QED
      BY <2>4, <3>1
  <2> QED
    BY <2>5, <2>6, <2>7
<1>9. IsSeq(h)
  BY <1>6, ConcatIs
<1> HIDE DEF h
<1>10. /\ IsSeq(Joined(h, b)) /\ Len(Joined(h, b)) = 4 + s
       /\ \A i \in 1 .. 4 : Joined(h, b)[i] = h[i]
       /\ \A i \in 1 .. s : Joined(h, b)[4 + i] = b[i]
  <2>1. IsSeq(Joined(h, b))
    BY <1>7, <1>9, ConcatIs
  <2>2. Len(Joined(h, b)) = Len(h) + Len(b)
    BY <1>7, <1>9, ConcatIs
  <2>3. \A i \in 1 .. Len(h) : Joined(h, b)[i] = h[i]
    BY <1>7, <1>9, ConcatIs
  <2>4. \A i \in 1 .. Len(b) : Joined(h, b)[Len(h) + i] = b[i]
    BY <1>7, <1>9, ConcatIs
  <2>5. Len(Joined(h, b)) = 4 + s
    BY <1>3, <1>5, <1>8, <2>2
  <2>6. \A i \in 1 .. s : Joined(h, b)[4 + i] = b[i]
    BY <1>5, <1>8, <2>4
  <2>7. \A i \in 1 .. 4 : Joined(h, b)[i] = h[i]
    BY <1>8, <2>3
  <2> QED
    BY <2>1, <2>5, <2>6, <2>7
<1>11. Packet[f][m] = Joined(h, b)
  BY <1>1 DEF h
<1>12. /\ IsSeq(Packet[f][m]) /\ Len(Packet[f][m]) = 4 + s
       /\ Packet[f][m][1] = d[1] /\ Packet[f][m][2] = d[2]
       /\ Packet[f][m][3] = e[1] /\ Packet[f][m][4] = e[2]
       /\ \A i \in 1 .. s : Packet[f][m][4 + i] = b[i]
  BY <1>8, <1>10, <1>11
<1> QED
  BY <1>12 DEF HeadSize, d, e, b, s

----------------------------------------------------------------------------
(* What msg_recv makes of a buffer that holds a head, and a body. *)
LEMMA HeadRead ==
  ASSUME Typed, NEW m \in Messages, NEW f \in Orders, HeadIn(buf, f, m)
  PROVE  HeadField(1) = m.kind /\ HeadField(2) = msg_body_size(m.kind) /\ HeadOk
<1> DEFINE d == Digits(m.kind, 2)
           e == Digits(msg_body_size(m.kind), 2)
           k == m.kind
           s == msg_body_size(m.kind)
<1>1. k \in Kinds /\ k \in Nat /\ Fits(k, 2) /\ 2 \in Widths
  BY MessageIs DEF Kinds, Fits, Widths
<1>2. s \in Nat /\ Fits(s, 2)
  BY <1>1, SizeIs DEF Fits
<1>3. buf[1] = d[1] /\ buf[2] = d[2] /\ buf[3] = e[1] /\ buf[4] = e[2]
  BY PacketIs DEF HeadIn, HeadSize
<1>4. /\ d = [i \in 1 .. 2 |-> d[i]] /\ e = [i \in 1 .. 2 |-> e[i]]
  BY <1>1, <1>2, DigitsAre
<1>5. IsSeq(buf) /\ Len(buf) = BufSize
  BY BufFits, SeqIs DEF Typed
<1>6. BufSize \in Nat /\ BufSize >= 4
  BY BufFits DEF HeadSize
<1>7. BigValue(d) = k /\ BigValue(e) = s
  BY <1>1, <1>2, BigDigits
<1> HIDE DEF d, e, k, s
<1>8. SubSeq(buf, 1, 2) = d
  <2>1. SubSeq(buf, 1, 2) = [i \in 1 .. (2 - 1) + 1 |-> buf[(i + 1) - 1]]
    BY <1>5, <1>6, SubSeqIs
  <2>2. (2 - 1) + 1 = 2 /\ (1 + 1) - 1 = 1 /\ (2 + 1) - 1 = 2
    OBVIOUS
  <2>3. \A i \in 1 .. 2 : buf[(i + 1) - 1] = d[i]
    BY <1>3, <2>2
  <2> QED
    BY <1>4, <2>1, <2>2, <2>3
<1>9. SubSeq(buf, 3, 4) = e
  <2>1. SubSeq(buf, 3, 4) = [i \in 1 .. (4 - 3) + 1 |-> buf[(i + 3) - 1]]
    BY <1>5, <1>6, SubSeqIs
  <2>2. (4 - 3) + 1 = 2 /\ (1 + 3) - 1 = 3 /\ (2 + 3) - 1 = 4
    OBVIOUS
  <2>3. \A i \in 1 .. 2 : buf[(i + 3) - 1] = e[i]
    BY <1>3, <2>2
  <2> QED
    BY <1>4, <2>1, <2>2, <2>3
<1>10. /\ HeadField(1) = BigValue(SubSeq(buf, 1, 2))
       /\ HeadField(2) = BigValue(SubSeq(buf, 3, 4))
  <2>1. 2 * 1 - 1 = 1 /\ 2 * 1 = 2 /\ 2 * 2 - 1 = 3 /\ 2 * 2 = 4
    OBVIOUS
  <2> QED
    BY <2>1, ValueIs DEF HeadField, Swap
<1>11. HeadField(1) = k /\ HeadField(2) = s
  BY <1>7, <1>8, <1>9, <1>10
<1> QED
  BY <1>1, <1>11 DEF k, s, HeadOk

LEMMA BodyRead ==
  ASSUME Typed, NEW m \in Messages, HeadIn(buf, from, m), BodyIn(buf, from, m)
  PROVE  /\ Same(from, to, Received, m)
         /\ msg_check_form(Received.kind, Received.body)
<1> DEFINE k == m.kind
           s == msg_body_size(k)
           c == OnWire(from, k, m.body)
           b == SubSeq(buf, HeadSize + 1, HeadSize + s)
           r == Read(to, k, c)
           L == Layout[k]
<1>1. k \in Kinds /\ GoodBody(k, m.body) /\ from \in Orders /\ to \in Orders
  BY MessageIs DEF Typed
<1>2. HeadField(1) = k
  BY <1>1, HeadRead
<1>3. s \in Nat /\ FieldsOf(k, c)
  BY <1>1, SizeIs, OnWireIs
<1>4. IsSeq(buf) /\ Len(buf) = BufSize /\ BufSize \in Nat /\ HeadSize + s <= BufSize
  BY <1>1, BufFits, SeqIs DEF Typed
<1>5. \A j \in 1 .. s : buf[HeadSize + j] = Bytes(k, c)[j]
  BY <1>1, PacketIs DEF BodyIn
<1>6. IsSeq(b) /\ Len(b) = s /\ \A j \in 1 .. s : b[j] = Bytes(k, c)[j]
  <2> HIDE DEF s, c
  <2>1. /\ IsSeq(SubSeq(buf, 5, 4 + s)) /\ Len(SubSeq(buf, 5, 4 + s)) = ((4 + s) - 5) + 1
        /\ SubSeq(buf, 5, 4 + s) = [i \in 1 .. ((4 + s) - 5) + 1 |-> buf[(i + 5) - 1]]
    BY <1>3, <1>4, SubSeqIs DEF HeadSize
  <2>2. ((4 + s) - 5) + 1 = s /\ \A j \in 1 .. s : (j + 5) - 1 = 4 + j
    BY <1>3
  <2>3. SubSeq(buf, 5, 4 + s) = [i \in 1 .. s |-> buf[4 + i]]
    BY <2>1, <2>2
  <2>4. HeadSize + 1 = 5 /\ HeadSize + s = 4 + s
    BY DEF HeadSize
  <2>5. b = SubSeq(buf, 5, 4 + s)
    BY <2>4
  <2>6. \A j \in 1 .. s : buf[4 + j] = Bytes(k, c)[j]
    BY <1>5 DEF HeadSize
  <2> HIDE DEF b
  <2> QED
    BY <2>1, <2>2, <2>3, <2>5, <2>6
<1>7. Fields(k, b) = c
  <2> HIDE DEF b, c
  <2> QED
    BY <1>1, <1>3, <1>6, FieldsBack
<1>8. Received = [kind |-> k, body |-> Meaning(to, k, msg_body_conv(to, k, Fields(k, b)))]
  BY <1>2 DEF Received
<1>9. Received.kind = k /\ Received.body = r
  BY <1>7, <1>8 DEF Read
<1>10. /\ DOMAIN r = DOMAIN L
       /\ \A i \in DOMAIN L :
            r[i] = m.body[i] \/ (from # to /\ ~ L[i].conv /\ ~ L[i].text)
  BY <1>1, ReadBack
<1>11. Same(from, to, Received, m)
  BY <1>9, <1>10 DEF Same
<1>12. msg_check_form(k, r)
  <2> HIDE DEF r
  <2>1. ASSUME k = UCHANGE PROVE r[1] <= UCHANGE_MAX_UCNT
    <3>1. 1 \in DOMAIN L /\ L[1].conv
      BY <1>1, <2>1, LayoutIs DEF Number
    <3>2. r[1] = m.body[1]
      BY <1>10, <3>1
    <3>3. m.body[1] \in 0 .. UCHANGE_MAX_UCNT
      BY <1>1, <2>1 DEF GoodBody
    <3> QED
      BY <3>2, <3>3, WireAssumption
  <2>2. ASSUME NEW i \in DOMAIN L, L[i].text PROVE null_terminated(r[i])
    <3>1. r[i] = m.body[i]
      BY <1>10, <2>2
    <3>2. null_terminated(m.body[i])
      BY <1>1, <2>2 DEF GoodBody, TextLike
    <3> QED
      BY <3>1, <3>2
  <2> QED
    BY <1>10, <2>1, <2>2 DEF msg_check_form
<1> QED
  BY <1>9, <1>11, <1>12

----------------------------------------------------------------------------
(* The stream as messages are put in at its end and bytes taken from its   *)
(* front.                                                                  *)
LEMMA StartIs ==
  ASSUME NEW s, IsSeq(s), NEW q \in Seq(Messages), NEW i \in 1 .. Len(q)
  PROVE  /\ Start(s, q, i) \in Int /\ msg_body_size(q[i].kind) \in Nat
         /\ AfterOf(q, i) \in Nat /\ AfterOf(q, i - 1) \in Nat
         /\ Start(s, q, i) + HeadSize + msg_body_size(q[i].kind) = Len(s) - AfterOf(q, i)
<1>1. Len(q) \in Nat /\ q[i] \in Messages /\ Len(s) \in Nat
  BY SeqFacts
<1>2. i \in 0 .. Len(q) /\ i - 1 \in 0 .. Len(q)
  BY <1>1
<1>3. /\ AfterOf(q, i) \in Nat /\ AfterOf(q, i - 1) \in Nat
      /\ AfterOf(q, i - 1) = AfterOf(q, i) + HeadSize + msg_body_size(q[i].kind)
  BY <1>2, AfterFacts
<1>4. msg_body_size(q[i].kind) \in Nat
  BY <1>1, MessageIs, SizeIs
<1> QED
  BY <1>1, <1>3, <1>4 DEF Start, HeadSize

LEMMA CarriesMore ==
  ASSUME NEW s, IsSeq(s), NEW q \in Seq(Messages), NEW g \in 0 .. Len(q), NEW f \in Orders,
         NEW m \in Messages, Carries(s, q, g, f)
  PROVE  Carries(Joined(s, Packet[f][m]), Append(q, m), g, f)
<1> DEFINE t == Append(q, m)
           p == Packet[f][m]
           r == Joined(s, p)
           z == msg_body_size(m.kind)
           L == Len(q)
<1>1. /\ t \in Seq(Messages) /\ Len(t) = L + 1 /\ L \in Nat
      /\ \A i \in 1 .. L : t[i] = q[i]
      /\ t[L + 1] = m
  OBVIOUS
<1>2. \A n \in 0 .. L : AfterOf(t, n) = AfterOf(q, n) + HeadSize + z
  BY AfterAppend
<1>3. IsSeq(p) /\ Len(p) = HeadSize + z /\ z \in Nat
  BY PacketIs, MessageIs, SizeIs
<1>4. IsSeq(p)
  BY <1>3
<1>5. IsSeq(r) /\ Len(r) = Len(s) + Len(p)
  BY <1>4, ConcatIs
<1>6. /\ \A k \in 1 .. Len(s) : r[k] = s[k]
      /\ \A k \in 1 .. Len(p) : r[Len(s) + k] = p[k]
  BY <1>4, ConcatIs
<1>7. Len(s) \in Nat
  BY SeqFacts
<1>8. AfterOf(q, L) = 0
  BY AfterFacts
<1> HIDE DEF t, r, p, z
<1>9. ASSUME NEW i \in g + 1 .. Len(t), NEW j \in 1 .. HeadSize + msg_body_size(t[i].kind),
             Start(r, t, i) + j >= 1
      PROVE  r[Start(r, t, i) + j] = Packet[f][t[i]][j]
  <2>1. i \in Nat /\ i \in 1 .. L + 1 /\ i - 1 \in 0 .. L
    BY <1>1
  <2>2. AfterOf(t, i - 1) = AfterOf(q, i - 1) + HeadSize + z
    BY <1>2, <2>1
  <2>3. AfterOf(q, i - 1) \in Nat
    BY <2>1, AfterFacts DEF L
  <2>4. Start(r, t, i) = Start(s, q, i)
    BY <1>3, <1>5, <1>7, <2>2, <2>3 DEF Start, HeadSize
  <2>5. CASE i = L + 1
    <3>1. Start(s, q, i) = Len(s) /\ t[i] = m
      BY <1>1, <1>7, <1>8, <2>5 DEF Start
    <3>2. j \in 1 .. Len(p)
      BY <1>3, <3>1 DEF z
    <3> QED
      BY <1>6, <2>4, <3>1, <3>2 DEF p
  <2>6. CASE i # L + 1
    <3>1. i \in 1 .. L /\ i \in g + 1 .. L /\ t[i] = q[i]
      BY <1>1, <2>1, <2>6
    <3>2. /\ Start(s, q, i) \in Int /\ msg_body_size(q[i].kind) \in Nat /\ AfterOf(q, i) \in Nat
          /\ Start(s, q, i) + HeadSize + msg_body_size(q[i].kind) = Len(s) - AfterOf(q, i)
      BY <3>1, StartIs DEF L
    <3>3. j \in 1 .. HeadSize + msg_body_size(q[i].kind) /\ Start(s, q, i) + j >= 1
      BY <1>9, <2>4, <3>1
    <3>4. s[Start(s, q, i) + j] = Packet[f][q[i]][j]
      BY <3>1, <3>3 DEF Carries, L
    <3>5. Start(s, q, i) + j \in 1 .. Len(s)
      BY <1>7, <3>2, <3>3 DEF HeadSize
    <3> QED
      BY <1>6, <2>4, <3>1, <3>4, <3>5
  <2> QED
    BY <2>5, <2>6
<1>10. Carries(r, t, g, f)
  BY <1>9 DEF Carries
<1> QED
  BY <1>10, Zenon DEF r, t, p

LEMMA CarriesLess ==
  ASSUME NEW s, IsSeq(s), NEW r, IsSeq(r), NEW q \in Seq(Messages), NEW g \in 0 .. Len(q),
         NEW f, NEW n \in Nat, Len(r) = Len(s) - n, \A k \in 1 .. Len(r) : r[k] = s[k + n],
         Carries(s, q, g, f)
  PROVE  Carries(r, q, g, f)
<1>1. ASSUME NEW i \in g + 1 .. Len(q), NEW j \in 1 .. HeadSize + msg_body_size(q[i].kind),
             Start(r, q, i) + j >= 1
      PROVE  r[Start(r, q, i) + j] = Packet[f][q[i]][j]
  <2>1. Len(q) \in Nat /\ i \in 1 .. Len(q) /\ Len(s) \in Nat /\ Len(r) \in Nat
    BY SeqFacts
  <2>2. /\ Start(s, q, i) \in Int /\ msg_body_size(q[i].kind) \in Nat
        /\ AfterOf(q, i) \in Nat /\ AfterOf(q, i - 1) \in Nat
        /\ Start(s, q, i) + HeadSize + msg_body_size(q[i].kind) = Len(s) - AfterOf(q, i)
    BY <2>1, StartIs
  <2>3. Start(s, q, i) = Len(s) - AfterOf(q, i - 1) /\ Start(r, q, i) = Len(r) - AfterOf(q, i - 1)
    BY DEF Start
  <2> DEFINE a == Start(s, q, i)
             b == Start(r, q, i)
             z == msg_body_size(q[i].kind)
  <2>4. a = b + n /\ a \in Int /\ b \in Int
    BY <2>1, <2>2, <2>3
  <2>5. j \in 1 .. HeadSize + z /\ b + j >= 1 /\ z \in Nat /\ a + HeadSize + z = Len(s) - AfterOf(q, i)
    BY <1>1, <2>2
  <2> HIDE DEF a, b, z
  <2>6. b + j \in 1 .. Len(r) /\ (b + j) + n = a + j /\ a + j >= 1
    BY <2>1, <2>2, <2>4, <2>5 DEF HeadSize
  <2>7. s[a + j] = Packet[f][q[i]][j]
    BY <1>1, <2>6 DEF Carries, a
  <2> QED
    BY <2>6, <2>7 DEF b
<1> QED
  BY <1>1 DEF Carries

LEMMA CarriesNext ==
  ASSUME NEW s, NEW q \in Seq(Messages), NEW g \in Nat, NEW f, Carries(s, q, g, f)
  PROVE  Carries(s, q, g + 1, f)
<1>1. \A i \in (g + 1) + 1 .. Len(q) : i \in g + 1 .. Len(q)
  OBVIOUS
<1> QED
  BY <1>1 DEF Carries

----------------------------------------------------------------------------
(* Each step keeps WireInv. *)
LEMMA InitWire == Init => WireInv
<1> SUFFICES ASSUME Init PROVE WireInv
  OBVIOUS
<1>1. stream = <<>> /\ sent = <<>> /\ got = <<>> /\ part = "head" /\ len = HeadSize /\ short = 0
  BY DEF Init
<1>2. sent \in Seq(Messages) /\ Len(sent) = 0 /\ Len(stream) = 0 /\ Len(got) = 0
  BY <1>1
<1>3. IsSeq(stream) /\ IsSeq(got)
  <2>1. <<>> \in Seq({<<>>[i] : i \in DOMAIN <<>>})
    OBVIOUS
  <2> QED
    BY <1>1, <2>1 DEF IsSeq
<1>4. buf = [i \in 1 .. BufSize |-> buf[i]]
  <2>1. PICK j \in Junk : buf = [i \in 1 .. BufSize |-> j]
    BY DEF Init
  <2> QED
    BY <2>1
<1>5. Typed
  BY <1>1, <1>2, <1>3, <1>4 DEF Typed, Init, HeadSize
<1>6. AfterOf(sent, 0) = 0
  BY <1>2, AfterFacts
<1>7. Carries(stream, sent, Len(got), from)
  BY <1>2 DEF Carries
<1>8. Framing
  BY <1>1, <1>2, <1>6, <1>7 DEF Framing, HeadSize
<1>9. Intact
  BY <1>1, <1>2 DEF Intact
<1> QED
  BY <1>5, <1>8, <1>9 DEF WireInv

LEMMA SendWire ==
  ASSUME WireInv, NEW m \in Messages, msg_send(m)
  PROVE  WireInv'
<1> DEFINE t == Append(sent, m)
           L == Len(sent)
           g == Len(got)
<1>1. /\ sent' = t /\ stream' = Joined(stream, Packet[from][m])
      /\ from' = from /\ to' = to /\ buf' = buf /\ part' = part /\ len' = len
      /\ short' = short /\ got' = got
  BY DEF msg_send, Joined
<1>2. Typed /\ Framing /\ Intact
  BY DEF WireInv
<1>3. sent \in Seq(Messages) /\ L \in Nat /\ IsSeq(stream) /\ Len(stream) \in Nat
      /\ IsSeq(got) /\ g \in Nat /\ from \in Orders /\ len \in Nat
  BY <1>2, SeqFacts DEF Typed
<1>4. /\ t \in Seq(Messages) /\ Len(t) = L + 1
      /\ \A i \in 1 .. L : t[i] = sent[i]
  BY <1>3
<1>5. \A n \in 0 .. L : AfterOf(t, n) = AfterOf(sent, n) + HeadSize + msg_body_size(m.kind)
  BY <1>3, AfterAppend
<1>6. IsSeq(Packet[from][m]) /\ Len(Packet[from][m]) = HeadSize + msg_body_size(m.kind)
      /\ msg_body_size(m.kind) \in Nat
  BY <1>3, PacketIs, MessageIs, SizeIs
<1>7. IsSeq(Packet[from][m])
  BY <1>6
<1>8. IsSeq(stream') /\ Len(stream') = Len(stream) + Len(Packet[from][m])
  BY <1>1, <1>3, <1>7, ConcatIs
<1>9. Typed'
  BY <1>1, <1>2, <1>4, <1>8 DEF Typed
<1>10. g \in 0 .. L /\ Carries(stream, sent, g, from) => Carries(stream', t, g, from)
  BY <1>1, <1>3, CarriesMore
<1>11. \A n \in 0 .. L : AfterOf(sent, n) \in Nat
  BY <1>3, AfterFacts
<1> DEFINE z == msg_body_size(m.kind)
<1>12. Len(stream') = Len(stream) + (HeadSize + z)
  BY <1>6, <1>8
<1>13. z \in Nat
  BY <1>6
<1> HIDE DEF t, z
<1>14. ASSUME Whole PROVE /\ g <= L
                          /\ g < L => t[g + 1] = Current /\ g + 1 \in 0 .. L
                          /\ g \in 0 .. L
                          /\ \A i \in 1 .. g : t[i] = sent[i]
  <2>1. g <= L
    BY <1>2, <1>14 DEF Framing
  <2> QED
    BY <1>3, <1>4, <2>1 DEF Current
<1>15. Framing'
  <2> SUFFICES ASSUME Whole PROVE Framing'
    BY <1>1 DEF Framing, Whole
  <2>1. g <= Len(t) /\ \A i \in 1 .. g : got[i].kind = t[i].kind
    BY <1>2, <1>3, <1>4, <1>14 DEF Framing
  <2>2. part # "ended" => Carries(stream', t, g, from)
    BY <1>2, <1>10, <1>14 DEF Framing
  <2>3. part = "head" => len \in {0, HeadSize}
    BY <1>2 DEF Framing
  <2>4. AfterOf(t, g) = AfterOf(sent, g) + (HeadSize + z) /\ AfterOf(sent, g) \in Nat
    BY <1>5, <1>11, <1>13, <1>14 DEF z, HeadSize
  <2>5. part = "head" /\ len = HeadSize => Len(stream') = AfterOf(t, g)
    BY <1>2, <1>3, <1>12, <1>13, <2>4 DEF Framing, HeadSize
  <2>6. part = "head" /\ len = 0 => /\ g < Len(t)
                                    /\ Len(stream') = AfterOf(t, g) - HeadSize
                                    /\ HeadIn(buf, from, t[g + 1])
    <3> SUFFICES ASSUME part = "head" /\ len = 0
                 PROVE  /\ g < Len(t)
                        /\ Len(stream') = AfterOf(t, g) - HeadSize
                        /\ HeadIn(buf, from, t[g + 1])
      OBVIOUS
    <3>1. g < L /\ Len(stream) = AfterOf(sent, g) - HeadSize /\ HeadIn(buf, from, Current)
      BY <1>2 DEF Framing
    <3>2. t[g + 1] = Current /\ g < Len(t)
      BY <1>3, <1>4, <1>14, <3>1
    <3> QED
      BY <1>3, <1>12, <1>13, <2>4, <3>1, <3>2 DEF HeadSize
  <2>7. part = "body" => /\ g < Len(t)
                         /\ len <= msg_body_size(t[g + 1].kind)
                         /\ Len(stream') = AfterOf(t, g + 1) + len
                         /\ HeadIn(buf, from, t[g + 1])
    <3> SUFFICES ASSUME part = "body"
                 PROVE  /\ g < Len(t)
                        /\ len <= msg_body_size(t[g + 1].kind)
                        /\ Len(stream') = AfterOf(t, g + 1) + len
                        /\ HeadIn(buf, from, t[g + 1])
      OBVIOUS
    <3>1. /\ g < L /\ len <= msg_body_size(Current.kind)
          /\ Len(stream) = AfterOf(sent, g + 1) + len /\ HeadIn(buf, from, Current)
      BY <1>2 DEF Framing
    <3>2. t[g + 1] = Current /\ g + 1 \in 0 .. L /\ g < Len(t)
      BY <1>3, <1>4, <1>14, <3>1
    <3>3. /\ AfterOf(t, g + 1) = AfterOf(sent, g + 1) + (HeadSize + z)
          /\ AfterOf(sent, g + 1) \in Nat
      BY <1>5, <1>11, <1>13, <3>2 DEF z, HeadSize
    <3> QED
      BY <1>3, <1>12, <1>13, <3>1, <3>2, <3>3 DEF HeadSize
  <2>8. Current' = t[g + 1]
    BY <1>1 DEF Current
  <2> QED
    BY <1>1, <2>1, <2>2, <2>3, <2>5, <2>6, <2>7, <2>8 DEF Framing
<1>16. Intact'
  <2> SUFFICES ASSUME short = 0 PROVE Intact'
    BY <1>1 DEF Intact
  <2>1. Whole
    BY DEF Whole
  <2>2. \A i \in 1 .. g : Same(from, to, got[i], t[i])
    BY <1>2, <1>14, <2>1 DEF Intact
  <2>3. Current' = t[g + 1]
    BY <1>1 DEF Current
  <2>4. part = "body" => Current' = Current
    BY <1>2, <1>14, <2>1, <2>3 DEF Framing
  <2>5. /\ part # "ended"
        /\ part = "body" => len \in {0, msg_body_size(Current.kind)}
        /\ part = "body" /\ len = 0 => BodyIn(buf, from, Current)
    BY <1>2 DEF Intact
  <2> QED
    BY <1>1, <2>2, <2>4, <2>5 DEF Intact
<1> QED
  BY <1>9, <1>15, <1>16 DEF WireInv

LEMMA CountWire ==
  ASSUME WireInv, NEW n \in Nat, recv_count(n)
  PROVE  WireInv'
<1> DEFINE L == Len(sent)
           g == Len(got)
           N == Len(stream)
<1>1. Typed /\ Framing /\ Intact
  BY DEF WireInv
<1>2. /\ sent \in Seq(Messages) /\ L \in Nat /\ IsSeq(stream) /\ N \in Nat
      /\ IsSeq(got) /\ g \in Nat /\ from \in Orders /\ len \in Nat /\ short \in Nat
      /\ part \in {"head", "body", "ended"} /\ BufSize \in Nat
  BY <1>1, SeqFacts, BufFits DEF Typed
<1>3. /\ part # "ended" /\ len > 0 /\ n \in 1 .. Min({len, N})
      /\ buf' = Taken(n) /\ stream' = SubSeq(stream, n + 1, N) /\ len' = len - n
      /\ from' = from /\ to' = to /\ part' = part /\ sent' = sent /\ got' = got
      /\ \/ n = len /\ short' = short
         \/ part \in ShortIn /\ n < len /\ short' = short + 1
  BY DEF recv_count
<1>4. n \in Nat /\ n >= 1 /\ n <= len /\ n <= N
  BY <1>2, <1>3, MinTwo
<1>5. /\ IsSeq(stream') /\ Len(stream') = N - n
      /\ \A k \in 1 .. Len(stream') : stream'[k] = stream[k + n]
  <2> DEFINE r == SubSeq(stream, n + 1, N)
  <2>1. n + 1 \in Nat /\ n + 1 > 0 /\ n + 1 <= N + 1 /\ N <= Len(stream) /\ N \in Nat
    BY <1>2, <1>4
  <2>2. IsSeq(r)
    BY <1>2, <2>1, SubSeqIs
  <2>3. Len(r) = (N - (n + 1)) + 1
    BY <1>2, <2>1, SubSeqIs
  <2>4. r = [i \in 1 .. (N - (n + 1)) + 1 |-> stream[(i + (n + 1)) - 1]]
    BY <1>2, <2>1, SubSeqIs
  <2> HIDE DEF r
  <2>5. (N - (n + 1)) + 1 = N - n
    BY <1>2, <1>4
  <2>6. ASSUME NEW k \in 1 .. N - n PROVE r[k] = stream[k + n]
    <3>1. (k + (n + 1)) - 1 = k + n
      BY <1>2, <1>4
    <3> QED
      BY <2>4, <2>5, <3>1
  <2>7. Len(r) = N - n
    BY <2>3, <2>5
  <2>8. stream' = r
    BY <1>3 DEF r
  <2> QED
    BY <2>2, <2>6, <2>7, <2>8
<1>6. /\ buf' = [i \in 1 .. BufSize |-> buf'[i]]
      /\ \A i \in 1 .. BufSize :
           buf'[i] = IF i \in Base .. Base + n - 1 THEN stream[i - Base + 1] ELSE buf[i]
  <2>1. DOMAIN buf = 1 .. BufSize
    BY <1>1, Zenon DEF Typed
  <2>2. buf' = [i \in 1 .. BufSize |->
                  IF i \in Base .. Base + n - 1 THEN stream[i - Base + 1] ELSE buf[i]]
    BY <1>3, <2>1 DEF Taken
  <2> QED
    BY <2>2
<1>7. Typed'
  BY <1>1, <1>2, <1>3, <1>4, <1>5, <1>6 DEF Typed
<1>8. Current' = Current
  BY <1>3 DEF Current
<1>9. /\ \A i \in 0 .. L : AfterOf(sent, i) \in Nat
      /\ AfterOf(sent, L) = 0
  BY <1>2, AfterFacts
<1>10. g < L => /\ Current \in Messages /\ g + 1 \in 0 .. L /\ g + 1 \in 1 .. L /\ g \in 0 .. L
                /\ AfterOf(sent, g) = AfterOf(sent, g + 1) + HeadSize + msg_body_size(Current.kind)
                /\ msg_body_size(Current.kind) \in Nat
                /\ HeadSize + msg_body_size(Current.kind) <= BufSize
  <2> SUFFICES ASSUME g < L
               PROVE  /\ Current \in Messages /\ g + 1 \in 0 .. L /\ g + 1 \in 1 .. L /\ g \in 0 .. L
                      /\ AfterOf(sent, g) = AfterOf(sent, g + 1) + HeadSize + msg_body_size(Current.kind)
                      /\ msg_body_size(Current.kind) \in Nat
                      /\ HeadSize + msg_body_size(Current.kind) <= BufSize
    OBVIOUS
  <2>1. g + 1 \in 1 .. L /\ g + 1 \in 0 .. L /\ g \in 0 .. L /\ (g + 1) - 1 = g
    BY <1>2
  <2>2. Current \in Messages
    BY <1>2, <2>1 DEF Current
  <2>3. AfterOf(sent, g) = AfterOf(sent, g + 1) + HeadSize + msg_body_size(Current.kind)
    BY <1>2, <2>1, AfterFacts DEF Current
  <2> QED
    BY <2>1, <2>2, <2>3, MessageIs, SizeIs, BufFits
<1>11. ASSUME Whole, g < L, NEW o \in 0 .. BufSize, NEW k \in Nat,
              N - AfterOf(sent, g) = 0 - o, o + k <= HeadSize + msg_body_size(Current.kind),
              k <= N
       PROVE  \A j \in 1 .. k : stream[j] = Packet[from][Current][o + j]
  <2> TAKE j \in 1 .. k
  <2>1. Carries(stream, sent, g, from)
    BY <1>1, <1>3, <1>11 DEF Framing
  <2> DEFINE z == msg_body_size(Current.kind)
             a == AfterOf(sent, g)
  <2>2. a \in Nat /\ z \in Nat /\ N - a = 0 - o /\ o + k <= HeadSize + z
    BY <1>9, <1>10, <1>11
  <2> HIDE DEF z, a
  <2>3. o + j \in 1 .. HeadSize + z /\ (N - a) + (o + j) = j /\ j >= 1
    BY <1>2, <2>2 DEF HeadSize
  <2>4. g + 1 \in g + 1 .. L /\ (g + 1) - 1 = g
    BY <1>2, <1>11
  <2>5. Start(stream, sent, g + 1) = N - a
    BY <2>4 DEF Start, a
  <2>6. o + j \in 1 .. HeadSize + msg_body_size(sent[g + 1].kind)
    BY <2>3 DEF z, Current
  <2>7. Start(stream, sent, g + 1) + (o + j) = j
    BY <2>3, <2>5
  <2>8. stream[j] = Packet[from][sent[g + 1]][o + j]
    BY <2>1, <2>3, <2>4, <2>6, <2>7 DEF Carries
  <2> QED
    BY <2>8 DEF Current
<1>12. Whole' => Whole
  BY <1>2, <1>3 DEF Whole
<1>13. ASSUME Whole PROVE Carries(stream', sent, g, from)
  <2>1. Carries(stream, sent, g, from) /\ g \in 0 .. L
    BY <1>1, <1>2, <1>3, <1>13 DEF Framing
  <2> QED
    BY <1>2, <1>5, <2>1, CarriesLess
<1>14. ASSUME Whole', part = "head"
       PROVE  /\ len = HeadSize /\ n = HeadSize /\ len' = 0 /\ g < L
              /\ Len(stream') = AfterOf(sent, g) - HeadSize
              /\ HeadIn(buf', from, Current)
  <2>1. Whole /\ n = len
    BY <1>2, <1>3, <1>12, <1>14 DEF Whole
  <2>2. len = HeadSize /\ N = AfterOf(sent, g) /\ g <= L
    BY <1>1, <1>3, <1>14, <2>1 DEF Framing
  <2>3. g < L
    BY <1>2, <1>4, <1>9, <2>1, <2>2 DEF HeadSize
  <2>4. \A j \in 1 .. 4 : stream[j] = Packet[from][Current][0 + j]
    <3>1. N - AfterOf(sent, g) = 0 - 0 /\ 4 <= N /\ 0 \in 0 .. BufSize /\ 4 \in Nat
      BY <1>2, <1>4, <2>1, <2>2 DEF HeadSize
    <3>2. 0 + 4 <= HeadSize + msg_body_size(Current.kind)
      BY <1>10, <2>3 DEF HeadSize
    <3> QED
      BY <1>11, <2>1, <2>3, <3>1, <3>2
  <2>5. \A j \in 1 .. 4 : buf'[j] = stream[j]
    <3> TAKE j \in 1 .. 4
    <3>1. Base = 1 /\ n = 4 /\ j \in 1 .. BufSize
      BY <1>14, <2>1, <2>2, BufFits DEF Base, HeadSize
    <3>2. j \in Base .. Base + n - 1 /\ j - Base + 1 = j
      BY <3>1
    <3> QED
      BY <1>6, <3>1, <3>2
  <2>6. \A j \in 1 .. 4 : 0 + j = j
    OBVIOUS
  <2> QED
    BY <1>2, <1>3, <1>5, <2>1, <2>2, <2>3, <2>4, <2>5, <2>6 DEF HeadIn, HeadSize
<1>15. ASSUME Whole', part = "body"
       PROVE  /\ g < L /\ len' <= msg_body_size(Current.kind)
              /\ Len(stream') = AfterOf(sent, g + 1) + len'
              /\ HeadIn(buf', from, Current)
  <2>1. /\ g < L /\ len <= msg_body_size(Current.kind)
        /\ N = AfterOf(sent, g + 1) + len /\ HeadIn(buf, from, Current)
    BY <1>1, <1>12, <1>15 DEF Framing
  <2>2. \A j \in 1 .. 4 : buf'[j] = buf[j]
    <3> TAKE j \in 1 .. 4
    <3>1. Base = 5 /\ j \in 1 .. BufSize
      BY <1>15, BufFits DEF Base, HeadSize
    <3>2. ~ (j \in Base .. Base + n - 1)
      BY <1>4, <3>1
    <3> QED
      BY <1>6, <3>1, <3>2
  <2>3. HeadIn(buf', from, Current)
    BY <2>1, <2>2 DEF HeadIn, HeadSize
  <2>4. AfterOf(sent, g + 1) \in Nat /\ msg_body_size(Current.kind) \in Nat
    BY <1>9, <1>10, <2>1
  <2> QED
    BY <1>2, <1>3, <1>4, <1>5, <2>1, <2>3, <2>4
<1>16. Framing'
  <2> SUFFICES ASSUME Whole' PROVE Framing'
    BY DEF Framing
  <2>1. g <= L /\ \A i \in 1 .. g : got[i].kind = sent[i].kind
    BY <1>1, <1>12 DEF Framing
  <2>2. Carries(stream', sent, g, from)
    BY <1>12, <1>13
  <2>3. part = "head" => len' = 0
    BY <1>14
  <2>4. ~ (part = "head" /\ len' = HeadSize)
    BY <2>3 DEF HeadSize
  <2> QED
    BY <1>3, <1>8, <1>14, <1>15, <2>1, <2>2, <2>3, <2>4 DEF Framing
<1>17. Intact'
  <2> SUFFICES ASSUME short' = 0 PROVE Intact'
    BY DEF Intact
  <2>1. short = 0 /\ n = len /\ len' = 0
    BY <1>2, <1>3
  <2>2. Whole /\ Whole'
    BY <2>1 DEF Whole
  <2>3. \A i \in 1 .. g : Same(from, to, got[i], sent[i])
    BY <1>1, <2>1 DEF Intact
  <2>4. ASSUME part = "body" PROVE BodyIn(buf', from, Current)
    <3> DEFINE z == msg_body_size(Current.kind)
    <3>1. /\ g < L /\ N = AfterOf(sent, g + 1) + len
      BY <1>1, <2>2, <2>4 DEF Framing
    <3>2. len = z
      BY <1>1, <1>3, <2>1, <2>4 DEF Intact
    <3>3. z \in Nat /\ AfterOf(sent, g) = AfterOf(sent, g + 1) + HeadSize + z
          /\ AfterOf(sent, g + 1) \in Nat /\ HeadSize + z <= BufSize
      BY <1>9, <1>10, <3>1
    <3>4. N - AfterOf(sent, g) = 0 - 4 /\ 4 \in 0 .. BufSize /\ z <= N
          /\ 4 + z <= HeadSize + msg_body_size(Current.kind)
      BY <1>2, <3>1, <3>2, <3>3 DEF HeadSize
    <3>5. \A j \in 1 .. z : stream[j] = Packet[from][Current][4 + j]
      BY <1>11, <2>2, <3>1, <3>3, <3>4
    <3> HIDE DEF z
    <3>6. \A j \in 1 .. z : buf'[4 + j] = stream[j]
      <4> TAKE j \in 1 .. z
      <4>1. Base = 5 /\ n = z /\ 4 + j \in 1 .. BufSize
        BY <1>2, <2>1, <2>4, <3>2, <3>3 DEF Base, HeadSize
      <4>2. 4 + j \in Base .. Base + n - 1 /\ (4 + j) - Base + 1 = j
        BY <3>3, <4>1
      <4> QED
        BY <1>6, <4>1, <4>2
    <3> QED
      BY <3>5, <3>6 DEF BodyIn, HeadSize, z
  <2>5. part # "ended"
    BY <1>3
  <2> QED
    BY <1>3, <1>8, <2>1, <2>3, <2>4, <2>5 DEF Intact
<1> QED
  BY <1>7, <1>16, <1>17 DEF WireInv

LEMMA HeadWire ==
  ASSUME WireInv, RecvHead
  PROVE  WireInv'
<1> DEFINE g == Len(got)
           z == msg_body_size(Current.kind)
<1>1. Typed /\ Framing /\ Intact
  BY DEF WireInv
<1>2. /\ part = "head" /\ len = 0
      /\ part' = (IF HeadOk THEN "body" ELSE "ended")
      /\ len' = (IF HeadOk THEN HeadField(2) ELSE 0)
      /\ from' = from /\ to' = to /\ stream' = stream /\ buf' = buf /\ short' = short
      /\ sent' = sent /\ got' = got
  BY DEF RecvHead
<1>3. /\ sent \in Seq(Messages) /\ Len(sent) \in Nat /\ IsSeq(got) /\ g \in Nat
      /\ Len(stream) \in Nat /\ from \in Orders /\ IsSeq(stream)
  BY <1>1, SeqFacts DEF Typed
<1>4. len' \in Nat
  <2>1. HeadOk => HeadField(2) \in Nat
    BY SizeIs DEF HeadOk
  <2> QED
    BY <1>2, <2>1
<1>5. Typed'
  BY <1>1, <1>2, <1>4 DEF Typed
<1>6. Current' = Current
  BY <1>2 DEF Current
<1>7. ASSUME Whole
      PROVE  /\ HeadOk /\ HeadField(2) = z /\ g < Len(sent) /\ z \in Nat
             /\ Len(stream) = AfterOf(sent, g + 1) + z
             /\ HeadIn(buf, from, Current)
  <2>1. /\ g < Len(sent) /\ Len(stream) = AfterOf(sent, g) - HeadSize
        /\ HeadIn(buf, from, Current)
    BY <1>1, <1>2, <1>7 DEF Framing
  <2>2. g + 1 \in 1 .. Len(sent) /\ g + 1 \in 0 .. Len(sent) /\ (g + 1) - 1 = g
    BY <1>3, <2>1
  <2>3. Current \in Messages
    BY <1>3, <2>2 DEF Current
  <2>4. HeadField(2) = z /\ HeadOk
    BY <1>1, <1>3, <2>1, <2>3, HeadRead
  <2>5. z \in Nat
    BY <2>3, MessageIs, SizeIs
  <2>6. AfterOf(sent, g) = AfterOf(sent, g + 1) + HeadSize + z /\ AfterOf(sent, g + 1) \in Nat
    BY <1>3, <2>2, AfterFacts DEF Current
  <2> HIDE DEF z
  <2> QED
    BY <1>3, <2>1, <2>4, <2>5, <2>6 DEF HeadSize
<1>8. Framing'
  <2> SUFFICES ASSUME Whole PROVE Framing'
    BY <1>2 DEF Framing, Whole
  <2>1. /\ g <= Len(sent) /\ \A i \in 1 .. g : got[i].kind = sent[i].kind
        /\ Carries(stream, sent, g, from)
    BY <1>1, <1>2 DEF Framing
  <2>2. part' = "body" /\ len' = z
    BY <1>2, <1>7
  <2> QED
    BY <1>2, <1>6, <1>7, <2>1, <2>2 DEF Framing
<1>9. Intact'
  <2> SUFFICES ASSUME short = 0 PROVE Intact'
    BY <1>2 DEF Intact
  <2>1. Whole
    BY DEF Whole
  <2>2. part' = "body" /\ len' = z /\ g < Len(sent) /\ Len(stream) = AfterOf(sent, g + 1) + z
    BY <1>2, <1>7, <2>1
  <2>3. \A i \in 1 .. g : Same(from, to, got[i], sent[i])
    BY <1>1 DEF Intact
  <2>4. z = 0 => BodyIn(buf, from, Current)
    BY DEF BodyIn
  <2> QED
    BY <1>2, <1>6, <2>2, <2>3, <2>4 DEF Intact
<1> QED
  BY <1>5, <1>8, <1>9 DEF WireInv

LEMMA BodyWire ==
  ASSUME WireInv, RecvBody
  PROVE  WireInv'
<1> DEFINE g == Len(got)
           L == Len(sent)
<1>1. Typed /\ Framing /\ Intact
  BY DEF WireInv
<1>2. /\ part = "body" /\ len = 0
      /\ from' = from /\ to' = to /\ stream' = stream /\ buf' = buf /\ short' = short
      /\ sent' = sent
      /\ IF msg_check_form(Received.kind, Received.body)
           THEN got' = Append(got, Received) /\ part' = "head" /\ len' = HeadSize
           ELSE part' = "ended" /\ len' = 0 /\ got' = got
  BY DEF RecvBody
<1>3. /\ sent \in Seq(Messages) /\ L \in Nat /\ IsSeq(got) /\ g \in Nat
      /\ Len(stream) \in Nat /\ from \in Orders /\ IsSeq(stream)
  BY <1>1, SeqFacts DEF Typed
<1>4. Whole => Whole'
  BY <1>2 DEF Whole
<1>5. Whole' => Whole
  BY <1>2 DEF Whole
<1>6. ASSUME Whole
      PROVE  /\ g < L /\ Current \in Messages /\ Received.kind = Current.kind
             /\ Len(stream) = AfterOf(sent, g + 1) /\ Carries(stream, sent, g, from)
             /\ \A i \in 1 .. g : got[i].kind = sent[i].kind
             /\ HeadIn(buf, from, Current)
  <2>1. /\ g < L /\ Len(stream) = AfterOf(sent, g + 1) + 0
        /\ HeadIn(buf, from, Current) /\ Carries(stream, sent, g, from)
        /\ \A i \in 1 .. g : got[i].kind = sent[i].kind
    BY <1>1, <1>2, <1>6 DEF Framing
  <2>2. g + 1 \in 1 .. L /\ g + 1 \in 0 .. L
    BY <1>3, <2>1
  <2>3. Current \in Messages
    BY <1>3, <2>2 DEF Current
  <2>4. HeadField(1) = Current.kind
    BY <1>1, <1>3, <2>1, <2>3, HeadRead
  <2>5. AfterOf(sent, g + 1) \in Nat
    BY <1>3, <2>2, AfterFacts
  <2> QED
    BY <2>1, <2>3, <2>4, <2>5 DEF Received
<1>7. CASE msg_check_form(Received.kind, Received.body)
  <2> DEFINE t == Append(got, Received)
  <2>1. /\ IsSeq(t) /\ Len(t) = g + 1
        /\ \A i \in 1 .. g : t[i] = got[i]
        /\ t[g + 1] = Received
    BY <1>3, AppendIs
  <2>2. got' = t /\ part' = "head" /\ len' = HeadSize
    BY <1>2, <1>7
  <2> HIDE DEF t
  <2>3. Typed'
    BY <1>1, <1>2, <2>1, <2>2 DEF Typed, HeadSize
  <2>4. \A i \in 1 .. g + 1 : i \in 1 .. g \/ i = g + 1
    BY <1>3
  <2>5. Framing'
    <3> SUFFICES ASSUME Whole PROVE Framing'
      BY <1>5 DEF Framing
    <3>1. g + 1 <= L /\ \A i \in 1 .. g + 1 : t[i].kind = sent[i].kind
      BY <1>3, <1>6, <2>1, <2>4 DEF Current
    <3>2. Carries(stream, sent, g + 1, from)
      BY <1>3, <1>6, CarriesNext
    <3>3. Len(stream) = AfterOf(sent, g + 1)
      BY <1>6
    <3>4. HeadSize # 0
      BY DEF HeadSize
    <3> QED
      BY <1>2, <2>1, <2>2, <3>1, <3>2, <3>3, <3>4 DEF Framing
  <2>6. Intact'
    <3> SUFFICES ASSUME short = 0 PROVE Intact'
      BY <1>2 DEF Intact
    <3>1. Whole
      BY DEF Whole
    <3>2. /\ \A i \in 1 .. g : Same(from, to, got[i], sent[i])
          /\ BodyIn(buf, from, Current)
      BY <1>1, <1>2 DEF Intact
    <3>3. Same(from, to, Received, Current)
      BY <1>1, <1>6, <3>1, <3>2, BodyRead
    <3>4. \A i \in 1 .. g + 1 : Same(from, to, t[i], sent[i])
      BY <2>1, <2>4, <3>2, <3>3 DEF Current
    <3> QED
      BY <1>2, <2>1, <2>2, <3>4 DEF Intact
  <2> QED
    BY <2>3, <2>5, <2>6 DEF WireInv
<1>8. CASE ~ msg_check_form(Received.kind, Received.body)
  <2>1. got' = got /\ part' = "ended" /\ len' = 0
    BY <1>2, <1>8
  <2>2. Typed'
    BY <1>1, <1>2, <2>1 DEF Typed
  <2>3. Framing'
    <3> SUFFICES ASSUME Whole PROVE Framing'
      BY <1>5 DEF Framing
    <3>1. g <= L
      BY <1>3, <1>6
    <3> QED
      BY <1>2, <1>6, <2>1, <3>1 DEF Framing
  <2>4. short # 0
    <3> SUFFICES ASSUME short = 0 PROVE FALSE
      OBVIOUS
    <3>1. Whole
      BY DEF Whole
    <3>2. BodyIn(buf, from, Current)
      BY <1>1, <1>2 DEF Intact
    <3> QED
      BY <1>1, <1>6, <1>8, <3>1, <3>2, BodyRead
  <2>5. Intact'
    BY <1>2, <2>4 DEF Intact
  <2> QED
    BY <2>2, <2>3, <2>5 DEF WireInv
<1> QED
  BY <1>7, <1>8

LEMMA StillWire == WireInv /\ UNCHANGED vars => WireInv'
<1> SUFFICES ASSUME WireInv, UNCHANGED vars PROVE WireInv'
  OBVIOUS
<1>1. /\ from' = from /\ to' = to /\ stream' = stream /\ buf' = buf /\ part' = part
      /\ len' = len /\ short' = short /\ sent' = sent /\ got' = got
  BY DEF vars
<1>2. Typed /\ Framing /\ Intact
  BY DEF WireInv
<1>3. Current' = Current
  BY <1>1 DEF Current
<1>4. Typed'
  BY <1>1, <1>2 DEF Typed
<1>5. Framing'
  BY <1>1, <1>2, <1>3 DEF Framing, Whole
<1>6. Intact'
  BY <1>1, <1>2, <1>3 DEF Intact
<1> QED
  BY <1>4, <1>5, <1>6 DEF WireInv

LEMMA NextWire == WireInv /\ [Next]_vars => WireInv'
<1> SUFFICES ASSUME WireInv, [Next]_vars PROVE WireInv'
  OBVIOUS
<1>1. ASSUME NEW m \in Messages, msg_send(m) PROVE WireInv'
  BY <1>1, SendWire
<1>2. ASSUME NEW n \in 1 .. BufSize, recv_count(n) PROVE WireInv'
  BY <1>2, CountWire, BufFits
<1>3. CASE RecvHead
  BY <1>3, HeadWire
<1>4. CASE RecvBody
  BY <1>4, BodyWire
<1>5. CASE UNCHANGED vars
  BY <1>5, StillWire
<1> QED
  BY <1>1, <1>2, <1>3, <1>4, <1>5 DEF Next
----------------------------------------------------------------------------
(* What is known of the connection in every state: as long as no head has  *)
(* been cut in two, the stream, the buffer and the bytes that are wanted   *)
(* lie on the border lines of the packets that were sent; as long as no    *)
(* recv has been short, what was received is what was sent.                *)
THEOREM WireInvariant == Spec => []WireInv
<1>1. Init => WireInv
  BY InitWire
<1>2. WireInv /\ [Next]_vars => WireInv'
  BY NextWire
<1> QED
  BY <1>1, <1>2, PTL DEF Spec

(* While recv gives what recv_count asks for, every message arrives with   *)
(* its fields, whatever the byte orders of the hosts, for all lengths of a *)
(* text and all capacities of an UCHANGE.                                  *)
THEOREM WireFieldsIntact == Spec => []FieldsIntact
<1>1. WireInv => FieldsIntact
  <2> SUFFICES ASSUME WireInv, short = 0
               PROVE  /\ part # "ended" /\ Len(got) <= Len(sent)
                      /\ \A i \in DOMAIN got : Alike(got[i], sent[i])
    BY DEF FieldsIntact
  <2>1. Typed /\ Framing /\ Intact /\ Whole
    BY DEF WireInv, Whole
  <2>2. DOMAIN got = 1 .. Len(got)
    BY <2>1, SeqFacts DEF Typed
  <2>3. \A m, n : Same(from, to, m, n) => Alike(m, n)
    BY DEF Same, Alike
  <2> QED
    BY <2>1, <2>2, <2>3 DEF Framing, Intact
<1> QED
  BY <1>1, WireInvariant, PTL

(* If no head is cut in two, each head is read where a packet begins, and  *)
(* a body that comes in pieces costs no message but itself.                *)
THEOREM WireFramed ==
  ASSUME "head" \notin ShortIn
  PROVE  Spec => []Framed
<1>1. WireInv => Framed
  <2> SUFFICES ASSUME WireInv PROVE Framed
    OBVIOUS
  <2>1. Typed /\ Framing /\ Whole
    BY DEF WireInv, Whole
  <2>2. DOMAIN got = 1 .. Len(got)
    BY <2>1, SeqFacts DEF Typed
  <2> QED
    BY <2>1, <2>2, AfterIs DEF Framing, Framed
<1> QED
  BY <1>1, WireInvariant, PTL
=============================================================================
