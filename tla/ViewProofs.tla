----------------------------- MODULE ViewProofs -----------------------------
(***************************************************************************)
(* What the clients see of the game, for every set of connections and      *)
(* every value of the rules' constants: with the messages on their way     *)
(* taken, the list of users on a screen is the server's, and each of those *)
(* messages finds the users that it names in that list.                    *)
(***************************************************************************)
EXTENDS JankenProofs, SequenceTheorems, WellFoundedInduction

(* Induction as a fact about sets of numbers. *)
LEMMA NatInduct ==
  ASSUME NEW S \in SUBSET Nat, 0 \in S, \A n \in S : n + 1 \in S
  PROVE  \A n \in Nat : n \in S
<1> DEFINE R == {p \in Nat \X Nat : p[1] < p[2]}
<1>1. IsWellFoundedOn(R, Nat)
  BY NatLessThanWellFounded DEF OpToRel
<1>2. \A x, y \in Nat : y < x => <<y, x>> \in R
  OBVIOUS
<1> HIDE DEF R
<1>3. SUFFICES ASSUME Nat \ S # {} PROVE FALSE
  OBVIOUS
<1>4. PICK n \in Nat \ S : \A m \in Nat \ S : ~ (<<m, n>> \in R)
  BY <1>1, <1>3, WFMin
<1>5. \A m \in Nat \ S : ~ (m < n)
  BY <1>2, <1>4
<1>6. n # 0 /\ n - 1 \in Nat /\ n - 1 < n
  BY <1>4
<1>7. n - 1 \in S
  BY <1>5, <1>6
<1>8. (n - 1) + 1 = n
  BY <1>6
<1> QED
  BY <1>4, <1>7, <1>8
----------------------------------------------------------------------------
(* After.  F holds the states of session s as it takes the first messages  *)
(* of q.                                                                   *)
Steps(F, n, s, q) == F = [i \in 0 .. n |-> IF i = 0 THEN s ELSE Handled(F[i - 1], q[i])]

LEMMA StepsExist ==
  ASSUME NEW s, NEW q PROVE \A n \in Nat : \E F : Steps(F, n, s, q)
<1> DEFINE S == {n \in Nat : \E F : Steps(F, n, s, q)}
<1>1. 0 \in S
  <2> DEFINE F == [i \in 0 .. 0 |-> s]
  <2>1. Steps(F, 0, s, q)
    BY DEF Steps
  <2> QED
    BY <2>1
<1>2. ASSUME NEW n \in S PROVE n + 1 \in S
  <2>1. n \in Nat /\ \E F : Steps(F, n, s, q)
    OBVIOUS
  <2>2. PICK F : Steps(F, n, s, q)
    BY <2>1
  <2> DEFINE G == [i \in 0 .. n + 1 |-> IF i <= n THEN F[i] ELSE Handled(F[n], q[n + 1])]
             H == [i \in 0 .. n + 1 |-> IF i = 0 THEN s ELSE Handled(G[i - 1], q[i])]
  <2>3. ASSUME NEW i \in 0 .. n + 1 PROVE G[i] = H[i]
    <3>1. CASE i = 0
      BY <2>1, <2>2, <3>1 DEF Steps
    <3>2. CASE i # 0 /\ i <= n
      <4>1. F[i] = Handled(F[i - 1], q[i])
        BY <2>1, <2>2, <3>2 DEF Steps
      <4>2. G[i] = F[i] /\ G[i - 1] = F[i - 1]
        BY <2>1, <3>2
      <4>3. H[i] = Handled(G[i - 1], q[i])
        BY <2>1, <3>2
      <4> QED
        BY <4>1, <4>2, <4>3
    <3>3. CASE i = n + 1
      <4>1. G[i] = Handled(F[n], q[n + 1]) /\ G[i - 1] = F[n]
        BY <2>1, <3>3
      <4>2. H[i] = Handled(G[i - 1], q[i])
        <5>1. i # 0
          BY <2>1, <3>3
        <5> HIDE DEF G
        <5> QED
          BY <5>1
      <4> QED
        BY <3>3, <4>1, <4>2
    <3> QED
      BY <2>1, <3>1, <3>2, <3>3
  <2>4. G = H
    <3>1. /\ G = [i \in 0 .. n + 1 |-> G[i]] /\ H = [i \in 0 .. n + 1 |-> H[i]]
      OBVIOUS
    <3> HIDE DEF G, H
    <3> QED
      BY <2>3, <3>1, Zenon
  <2>5. Steps(G, n + 1, s, q)
    BY <2>4 DEF Steps
  <2> QED
    BY <2>1, <2>5
<1> HIDE DEF S
<1>3. \A n \in Nat : n \in S
  <2>1. S \in SUBSET Nat
    BY DEF S
  <2> QED
    BY <1>1, <1>2, <2>1, NatInduct
<1> QED
  BY <1>3 DEF S

Stepping(F, n, s, q) == F[0] = s /\ \A i \in 1 .. n : F[i] = Handled(F[i - 1], q[i])

LEMMA StepsOf ==
  ASSUME NEW F, NEW n, NEW s, NEW q, Steps(F, n, s, q), n \in Nat
  PROVE  Stepping(F, n, s, q)
<1> DEFINE R == [i \in 0 .. n |-> IF i = 0 THEN s ELSE Handled(F[i - 1], q[i])]
<1>1. F = R
  BY Zenon DEF Steps
<1>2. R[0] = s
  OBVIOUS
<1>3. ASSUME NEW i \in 1 .. n PROVE R[i] = Handled(F[i - 1], q[i])
  <2>1. i \in 0 .. n /\ i # 0
    OBVIOUS
  <2> QED
    BY <2>1, Zenon
<1> HIDE DEF R
<1> QED
  BY <1>1, <1>2, <1>3, Zenon DEF Stepping

LEMMA AfterSteps ==
  ASSUME NEW s, NEW q, Len(q) \in Nat
  PROVE  \E F : Stepping(F, Len(q), s, q) /\ After(s, q) = F[Len(q)]
<1> DEFINE F == CHOOSE F : Steps(F, Len(q), s, q)
<1>1. Steps(F, Len(q), s, q)
  BY StepsExist
<1>2. After(s, q) = F[Len(q)]
  BY DEF After, Steps
<1> HIDE DEF F
<1>3. PICK n \in Nat : n = Len(q)
  OBVIOUS
<1>4. Steps(F, n, s, q)
  BY <1>1, <1>3, Zenon
<1>5. Stepping(F, n, s, q)
  BY <1>4, StepsOf
<1> QED
  BY <1>1, <1>2, <1>3, <1>5, Zenon

(* Two runs through messages that are the same, the second i messages      *)
(* later, from the same state are the same.                                *)
LEMMA StepsAgree ==
  ASSUME NEW F, NEW m \in Nat, NEW s, NEW q, NEW G, NEW n \in Nat, NEW t, NEW r,
         Stepping(F, m, s, q), Stepping(G, n, t, r), NEW k \in Nat, m + k <= n,
         G[k] = s, \A i \in 1 .. m : q[i] = r[i + k]
  PROVE  \A i \in 0 .. m : F[i] = G[i + k]
<1>a. F[0] = s /\ \A j \in 1 .. m : F[j] = Handled(F[j - 1], q[j])
  BY Zenon DEF Stepping
<1>b. \A j \in 1 .. n : G[j] = Handled(G[j - 1], r[j])
  BY Zenon DEF Stepping
<1> DEFINE S == {i \in Nat : i <= m => F[i] = G[i + k]}
<1>1. 0 \in S
  BY <1>a
<1>2. ASSUME NEW i \in S PROVE i + 1 \in S
  <2>1. SUFFICES ASSUME i + 1 <= m PROVE F[i + 1] = G[(i + 1) + k]
    OBVIOUS
  <2>2. /\ i \in Nat /\ i + 1 \in 1 .. m /\ (i + 1) + k \in 1 .. n /\ (i + 1) - 1 = i
        /\ ((i + 1) + k) - 1 = i + k
    BY <2>1
  <2>3. /\ F[i + 1] = Handled(F[(i + 1) - 1], q[i + 1])
        /\ G[(i + 1) + k] = Handled(G[((i + 1) + k) - 1], r[(i + 1) + k])
    BY <1>a, <1>b, <2>2
  <2>4. F[i] = G[i + k] /\ q[i + 1] = r[(i + 1) + k]
    BY <2>1, <2>2
  <2> QED
    BY <2>2, <2>3, <2>4
<1>3. S \in SUBSET Nat
  OBVIOUS
<1> HIDE DEF S
<1>4. \A i \in Nat : i \in S
  BY <1>1, <1>2, <1>3, NatInduct
<1> QED
  BY <1>4 DEF S

LEMMA AfterEmpty ==
  ASSUME NEW s PROVE After(s, <<>>) = s
<1>1. Len(<<>>) = 0
  OBVIOUS
<1>2. PICK F : Stepping(F, Len(<<>>), s, <<>>) /\ After(s, <<>>) = F[Len(<<>>)]
  BY <1>1, AfterSteps
<1>3. F[0] = s
  BY <1>2, Zenon DEF Stepping
<1> QED
  BY <1>1, <1>2, <1>3

LEMMA AfterAppend ==
  ASSUME NEW D, NEW s, NEW q \in Seq(D), NEW m \in D
  PROVE  After(s, Append(q, m)) = Handled(After(s, q), m)
<1> DEFINE r == Append(q, m)
<1>1. /\ Len(q) \in Nat /\ Len(r) = Len(q) + 1 /\ r[Len(q) + 1] = m
      /\ \A i \in 1 .. Len(q) : q[i] = r[i]
  BY AppendProperties
<1> HIDE DEF r
<1>2. PICK F : Stepping(F, Len(q), s, q) /\ After(s, q) = F[Len(q)]
  BY <1>1, AfterSteps, Zenon
<1>3. PICK G : Stepping(G, Len(r), s, r) /\ After(s, r) = G[Len(r)]
  <2>1. Len(r) \in Nat
    BY <1>1
  <2> QED
    BY <2>1, AfterSteps, Zenon
<1>4. PICK j \in Nat, n \in Nat : j = Len(q) /\ n = Len(r)
  <2>1. Len(r) \in Nat
    BY <1>1
  <2> QED
    BY <1>1, <2>1, Zenon
<1>5. G[n] = Handled(G[n - 1], r[n]) /\ G[0] = s
  <2>1. n \in 1 .. n
    BY <1>1, <1>4
  <2> QED
    BY <1>3, <1>4, <2>1, Zenon DEF Stepping
<1>6. F[j] = G[j]
  <2>1. /\ Stepping(F, j, s, q) /\ Stepping(G, n, s, r)
    BY <1>2, <1>3, <1>4, Zenon
  <2>2. /\ 0 \in Nat /\ j + 0 <= n /\ G[0] = s
        /\ \A i \in 1 .. j : q[i] = r[i + 0]
    BY <1>1, <1>4, <1>5
  <2>3. \A i \in 0 .. j : F[i] = G[i + 0]
    BY <2>1, <2>2, StepsAgree
  <2> QED
    BY <2>3
<1>7. n - 1 = j
  BY <1>1, <1>4
<1> QED
  BY <1>1, <1>2, <1>3, <1>4, <1>5, <1>6, <1>7 DEF r

LEMMA AfterHead ==
  ASSUME NEW D, NEW s, NEW q \in Seq(D), q # <<>>
  PROVE  After(s, q) = After(Handled(s, Head(q)), Tail(q))
<1> DEFINE t == Tail(q)
           h == Handled(s, Head(q))
<1>1. /\ Len(q) \in Nat \ {0} /\ Len(t) = Len(q) - 1 /\ Len(t) \in Nat
      /\ Head(q) = q[1]
      /\ \A i \in 1 .. Len(t) : t[i] = q[i + 1]
  OBVIOUS
<1> HIDE DEF t, h
<1>2. PICK G : Stepping(G, Len(q), s, q) /\ After(s, q) = G[Len(q)]
  <2>1. Len(q) \in Nat
    BY <1>1
  <2> QED
    BY <2>1, AfterSteps, Zenon
<1>3. PICK F : Stepping(F, Len(t), h, t) /\ After(h, t) = F[Len(t)]
  BY <1>1, AfterSteps, Zenon
<1>4. PICK j \in Nat, n \in Nat : j = Len(t) /\ n = Len(q)
  <2>1. Len(q) \in Nat
    BY <1>1
  <2> QED
    BY <1>1, <2>1, Zenon
<1>5. G[1] = h
  <2>1. 1 \in 1 .. n /\ 1 - 1 = 0
    BY <1>1, <1>4
  <2>2. G[1] = Handled(G[1 - 1], q[1]) /\ G[0] = s
    BY <1>2, <1>4, <2>1, Zenon DEF Stepping
  <2> QED
    BY <1>1, <2>1, <2>2 DEF h
<1>6. F[j] = G[j + 1]
  <2>1. Stepping(F, j, h, t) /\ Stepping(G, n, s, q)
    BY <1>2, <1>3, <1>4, Zenon
  <2>2. 1 \in Nat /\ j + 1 <= n /\ \A i \in 1 .. j : t[i] = q[i + 1]
    BY <1>1, <1>4
  <2>3. \A i \in 0 .. j : F[i] = G[i + 1]
    BY <1>5, <2>1, <2>2, StepsAgree
  <2> QED
    BY <2>3
<1>7. j + 1 = n
  BY <1>1, <1>4
<1> QED
  BY <1>2, <1>3, <1>4, <1>6, <1>7 DEF t, h
----------------------------------------------------------------------------
(* The list alone.  Take: what a message makes of a list.  Ends: it ends   *)
(* the session of user id, which then takes no more changes.               *)
Take(list, m) == IF m.kind = "UCHANGE" THEN Updated(list, m.users) ELSE list

Ends(id, m) == m.kind = "UCHANGE" /\ \E i \in m.users : i.id = id /\ i.state = "UOFFLINE"

Lasts(id, q) == \A i \in DOMAIN q : ~ Ends(id, q[i])

LEMMA NobodyEnds == ASSUME NEW m \in DownMsgs PROVE ~ Ends(NoId, m)
<1>1. \A i \in Infos : i.id # NoId
  BY IdFacts DEF Infos
<1> QED
  BY <1>1, DownKinds DEF Ends

LEMMA HandledList ==
  ASSUME NEW s \in Sessions, NEW m \in DownMsgs, ~ Ends(s.id, m)
  PROVE  /\ Handled(s, m).user_by_id = Take(s.user_by_id, m)
         /\ Handled(s, m).id = s.id /\ Handled(s, m).phase = s.phase
<1>1. CASE m.kind = "TURN_R"
  <2>1. OnTurnR(s, m).user_by_id = s.user_by_id /\ OnTurnR(s, m).id = s.id
        /\ OnTurnR(s, m).phase = s.phase
    BY <1>1 DEF OnTurnR, Sessions
  <2> QED
    BY <1>1, <2>1 DEF Handled, Take
<1>2. CASE m.kind = "CHALLENGE"
  <2>1. OnChallenge(s, m).user_by_id = s.user_by_id /\ OnChallenge(s, m).id = s.id
        /\ OnChallenge(s, m).phase = s.phase
    BY <1>2 DEF OnChallenge, Sessions
  <2> QED
    BY <1>2, <2>1 DEF Handled, Take
<1>3. CASE m.kind = "CHALLENGE_R"
  <2>1. OnChallengeR(s, m).user_by_id = s.user_by_id /\ OnChallengeR(s, m).id = s.id
        /\ OnChallengeR(s, m).phase = s.phase
    BY <1>3 DEF OnChallengeR, Sessions
  <2> QED
    BY <1>3, <2>1 DEF Handled, Take
<1>4. CASE m.kind = "UCHANGE"
  <2> DEFINE mine == {i \in m.users : i.id = s.id}
             listed == [s EXCEPT !.user_by_id = Updated(@, m.users)]
             st == (CHOOSE i \in mine : TRUE).state
  <2>1. /\ listed.user_by_id = Updated(s.user_by_id, m.users) /\ listed.id = s.id
        /\ listed.phase = s.phase
    BY DEF Sessions
  <2>2. ~ \E i \in mine : i.state = "UOFFLINE"
    BY <1>4 DEF Ends
  <2>3. OnUchange(s, m) = listed \/ OnUchange(s, m) = [listed EXCEPT !.state = st]
    BY <2>2 DEF OnUchange
  <2> HIDE DEF st
  <2>4. /\ [listed EXCEPT !.state = st].user_by_id = listed.user_by_id
        /\ [listed EXCEPT !.state = st].id = listed.id
        /\ [listed EXCEPT !.state = st].phase = listed.phase
    BY DEF Sessions
  <2> HIDE DEF listed
  <2>5. Handled(s, m) = OnUchange(s, m)
    BY <1>4 DEF Handled
  <2> QED
    BY <1>4, <2>1, <2>3, <2>4, <2>5 DEF Take
<1>5. CASE m.kind \notin {"TURN_R", "CHALLENGE", "CHALLENGE_R", "UCHANGE"}
  BY <1>5 DEF Handled, Take
<1> QED
  BY <1>1, <1>2, <1>3, <1>4, <1>5

(* Somebody without an id who reads the messages q, the list l in hand. *)
Reader(l) == [NewSession EXCEPT !.user_by_id = l]

ListAfter(l, q) == After(Reader(l), q).user_by_id

LEMMA ReaderType ==
  ASSUME NEW l \in SUBSET Infos
  PROVE  Reader(l) \in Sessions /\ Reader(l).id = NoId /\ Reader(l).user_by_id = l
<1>1. NewSession \in Sessions /\ NewSession.id = NoId
  BY DEF NewSession, Sessions, Phases, AnyId, AnyChId, AnyKey, UserStates
<1> QED
  BY <1>1 DEF Reader, Sessions

(* Reads: the session that began as s has list l now. *)
Reads(s, t, l) ==
  t \in Sessions /\ t.id = s.id /\ t.phase = s.phase /\ t.user_by_id = l

LEMMA ReadsOne ==
  ASSUME NEW s, NEW t, NEW l, Reads(s, t, l), NEW m \in DownMsgs, ~ Ends(s.id, m)
  PROVE  Reads(s, Handled(t, m), Take(l, m))
  BY HandledList, HandledType DEF Reads

LEMMA AfterReads ==
  ASSUME NEW s \in Sessions, NEW q \in Seq(DownMsgs), Lasts(s.id, q)
  PROVE  Reads(s, After(s, q), ListAfter(s.user_by_id, q))
<1> DEFINE r == Reader(s.user_by_id)
<1>1. s.user_by_id \in SUBSET Infos
  BY DEF Sessions
<1>2. r \in Sessions /\ r.id = NoId /\ r.user_by_id = s.user_by_id
  BY <1>1, ReaderType
<1>3. /\ Len(q) \in Nat
      /\ \A i \in 1 .. Len(q) : q[i] \in DownMsgs /\ ~ Ends(s.id, q[i])
  BY DEF Lasts
<1> HIDE DEF r
<1>4. PICK F : Stepping(F, Len(q), s, q) /\ After(s, q) = F[Len(q)]
  BY <1>3, AfterSteps, Zenon
<1>5. PICK G : Stepping(G, Len(q), r, q) /\ After(r, q) = G[Len(q)]
  BY <1>3, AfterSteps, Zenon
<1>6. F[0] = s /\ \A i \in 1 .. Len(q) : F[i] = Handled(F[i - 1], q[i])
  BY <1>4, Zenon DEF Stepping
<1>7. G[0] = r /\ \A i \in 1 .. Len(q) : G[i] = Handled(G[i - 1], q[i])
  BY <1>5, Zenon DEF Stepping
<1> DEFINE Both(i) == \E l : Reads(s, F[i], l) /\ Reads(r, G[i], l)
           S == {i \in Nat : i <= Len(q) => Both(i)}
<1>8. 0 \in S
  <2>1. Reads(s, F[0], s.user_by_id) /\ Reads(r, G[0], s.user_by_id)
    BY <1>2, <1>6, <1>7 DEF Reads
  <2> QED
    BY <2>1
<1>9. ASSUME NEW i \in S PROVE i + 1 \in S
  <2>1. SUFFICES ASSUME i + 1 <= Len(q) PROVE Both(i + 1)
    OBVIOUS
  <2>2. i \in Nat /\ i + 1 \in 1 .. Len(q) /\ (i + 1) - 1 = i /\ Both(i)
    BY <1>3, <2>1
  <2>3. PICK l : Reads(s, F[i], l) /\ Reads(r, G[i], l)
    BY <2>2
  <2>4. PICK m \in DownMsgs : m = q[i + 1] /\ ~ Ends(s.id, m)
    BY <1>3, <2>2
  <2>5. ~ Ends(r.id, m)
    BY <1>2, NobodyEnds
  <2>6. Reads(s, Handled(F[i], m), Take(l, m)) /\ Reads(r, Handled(G[i], m), Take(l, m))
    BY <2>3, <2>4, <2>5, ReadsOne
  <2>7. F[i + 1] = Handled(F[i], m) /\ G[i + 1] = Handled(G[i], m)
    BY <1>6, <1>7, <2>2, <2>4
  <2> QED
    BY <2>6, <2>7
<1>10. S \in SUBSET Nat
  OBVIOUS
<1> HIDE DEF S
<1>11. Len(q) \in S
  BY <1>3, <1>8, <1>9, <1>10, NatInduct
<1>12. Both(Len(q))
  BY <1>3, <1>11 DEF S
<1>13. PICK l : Reads(s, After(s, q), l) /\ Reads(r, After(r, q), l)
  BY <1>4, <1>5, <1>12
<1>14. ListAfter(s.user_by_id, q) = l
  BY <1>13 DEF ListAfter, Reads, r
<1> QED
  BY <1>13, <1>14

LEMMA NobodyLasts == ASSUME NEW q \in Seq(DownMsgs) PROVE Lasts(NoId, q)
  BY NobodyEnds DEF Lasts

LEMMA ListEmpty == ASSUME NEW l \in SUBSET Infos PROVE ListAfter(l, <<>>) = l
  BY ReaderType, AfterEmpty DEF ListAfter

LEMMA ListAppend ==
  ASSUME NEW l \in SUBSET Infos, NEW q \in Seq(DownMsgs), NEW m \in DownMsgs
  PROVE  ListAfter(l, Append(q, m)) = Take(ListAfter(l, q), m)
<1>1. PICK r \in Sessions : r = Reader(l) /\ r.id = NoId /\ r.user_by_id = l
  BY ReaderType
<1>2. Reads(r, After(r, q), ListAfter(l, q))
  BY <1>1, AfterReads, NobodyLasts
<1>3. Reads(r, Handled(After(r, q), m), Take(ListAfter(l, q), m))
  BY <1>1, <1>2, ReadsOne, NobodyEnds
<1>4. After(r, Append(q, m)) = Handled(After(r, q), m)
  BY AfterAppend
<1> QED
  BY <1>1, <1>3, <1>4 DEF Reads, ListAfter

LEMMA ListHead ==
  ASSUME NEW l \in SUBSET Infos, NEW q \in Seq(DownMsgs), q # <<>>
  PROVE  ListAfter(l, q) = ListAfter(Take(l, Head(q)), Tail(q))
<1>1. PICK r \in Sessions : r = Reader(l) /\ r.id = NoId /\ r.user_by_id = l
  BY ReaderType
<1>2. PICK m \in DownMsgs : m = Head(q)
  OBVIOUS
<1>3. PICK t \in Seq(DownMsgs) : t = Tail(q)
  BY HeadTailProperties
<1>4. PICK h : h = Handled(r, m)
  OBVIOUS
<1>5. h \in Sessions /\ h.id = NoId /\ h.user_by_id = Take(l, m)
  BY <1>1, <1>4, HandledList, HandledType, NobodyEnds
<1>6. Reads(h, After(h, t), ListAfter(h.user_by_id, t))
  BY <1>5, AfterReads, NobodyLasts
<1>7. After(r, q) = After(h, t)
  BY <1>2, <1>3, <1>4, AfterHead
<1> QED
  BY <1>1, <1>2, <1>3, <1>5, <1>6, <1>7 DEF Reads, ListAfter

LEMMA AfterConcat ==
  ASSUME NEW D, NEW s, NEW q \in Seq(D), NEW r \in Seq(D)
  PROVE  After(s, q \o r) = After(After(s, q), r)
<1> DEFINE w == q \o r
<1>1. /\ Len(q) \in Nat /\ Len(r) \in Nat /\ Len(w) = Len(q) + Len(r) /\ Len(w) \in Nat
      /\ \A i \in 1 .. Len(q) : q[i] = w[i]
      /\ \A i \in 1 .. Len(r) : r[i] = w[i + Len(q)]
  BY ConcatProperties
<1> HIDE DEF w
<1>2. PICK F : Stepping(F, Len(q), s, q) /\ After(s, q) = F[Len(q)]
  BY <1>1, AfterSteps, Zenon
<1>3. PICK G : Stepping(G, Len(w), s, w) /\ After(s, w) = G[Len(w)]
  BY <1>1, AfterSteps, Zenon
<1>4. PICK t : t = After(s, q)
  OBVIOUS
<1>5. PICK H : Stepping(H, Len(r), t, r) /\ After(t, r) = H[Len(r)]
  BY <1>1, AfterSteps, Zenon
<1>6. PICK j \in Nat, k \in Nat, n \in Nat : j = Len(q) /\ k = Len(r) /\ n = Len(w)
  BY <1>1, Zenon
<1>7. Stepping(F, j, s, q) /\ Stepping(G, n, s, w) /\ Stepping(H, k, t, r)
  BY <1>2, <1>3, <1>5, <1>6, Zenon
<1>8. F[j] = G[j]
  <2>1. /\ 0 \in Nat /\ j + 0 <= n
        /\ \A i \in 1 .. j : q[i] = w[i + 0]
    BY <1>1, <1>6
  <2>2. G[0] = s
    BY <1>7, Zenon DEF Stepping
  <2>3. \A i \in 0 .. j : F[i] = G[i + 0]
    BY <1>7, <2>1, <2>2, StepsAgree
  <2> QED
    BY <2>3
<1>9. H[k] = G[k + j]
  <2>1. k + j <= n
    BY <1>1, <1>6
  <2>a. G[j] = t
    BY <1>2, <1>4, <1>6, <1>8, Zenon
  <2>b. \A i \in 1 .. k : r[i] = w[i + j]
    BY <1>1, <1>6
  <2>2. \A i \in 0 .. k : H[i] = G[i + j]
    BY <1>7, <2>1, <2>a, <2>b, StepsAgree
  <2> QED
    BY <2>2
<1>10. k + j = n
  BY <1>1, <1>6
<1> QED
  BY <1>3, <1>4, <1>5, <1>6, <1>9, <1>10 DEF w

LEMMA ListConcat ==
  ASSUME NEW l \in SUBSET Infos, NEW q \in Seq(DownMsgs), NEW r \in Seq(DownMsgs)
  PROVE  ListAfter(l, q \o r) = ListAfter(ListAfter(l, q), r)
<1>1. PICK s \in Sessions : s = Reader(l) /\ s.id = NoId /\ s.user_by_id = l
  BY ReaderType
<1>2. PICK t : t = After(s, q)
  OBVIOUS
<1>3. Reads(s, t, ListAfter(l, q))
  BY <1>1, <1>2, AfterReads, NobodyLasts
<1>4. t \in Sessions /\ t.id = NoId /\ t.user_by_id = ListAfter(l, q)
  BY <1>1, <1>3 DEF Reads
<1>5. Reads(t, After(t, r), ListAfter(t.user_by_id, r))
  BY <1>4, AfterReads, NobodyLasts
<1>6. After(s, q \o r) = After(t, r)
  BY <1>2, AfterConcat
<1> QED
  BY <1>1, <1>4, <1>5, <1>6 DEF Reads, ListAfter
----------------------------------------------------------------------------
(* The entries of some users, and what a UCHANGE makes of them. *)
Part(users, A) == {Info(id, users[id]) : id \in A}

Roster(users) == Part(users, DOMAIN users)

LEMMA InfoIs ==
  /\ \A id, user : Info(id, user).id = id /\ Info(id, user).state = user.state
  /\ \A id, user, other : (/\ user.nick = other.nick /\ user.state = other.state
                           /\ user.score = other.score) => Info(id, user) = Info(id, other)
  BY DEF Info

LEMMA UpdatedPart ==
  ASSUME NEW old, NEW A, NEW new, NEW B, NEW all, NEW C,
         \A id \in A \ B : id \in C /\ Info(id, all[id]) = Info(id, old[id]),
         \A id \in B : new[id].state # "UOFFLINE" =>
                         id \in C /\ Info(id, all[id]) = Info(id, new[id]),
         \A id \in C : id \in A \ B \/ (id \in B /\ new[id].state # "UOFFLINE")
  PROVE  Updated(Part(old, A), Part(new, B)) = Part(all, C)
<1> DEFINE X == Part(old, A)
           Y == Part(new, B)
<1>1. \A i : i \in X <=> \E id \in A : i = Info(id, old[id])
  BY DEF Part
<1>2. \A i : i \in Y <=> \E id \in B : i = Info(id, new[id])
  BY DEF Part
<1>3. \A i : i \in Part(all, C) <=> \E id \in C : i = Info(id, all[id])
  BY DEF Part
<1> HIDE DEF X, Y
<1>4. \A i : (i \in X /\ \A j \in Y : j.id # i.id) <=>
               \E id \in A \ B : i = Info(id, old[id])
  BY <1>1, <1>2, InfoIs
<1>5. \A i : (i \in Y /\ i.state # "UOFFLINE") <=>
               \E id \in B : i = Info(id, new[id]) /\ new[id].state # "UOFFLINE"
  BY <1>2, InfoIs
<1>6. \A i : i \in Updated(X, Y) <=> (i \in X /\ \A j \in Y : j.id # i.id)
                                     \/ (i \in Y /\ i.state # "UOFFLINE")
  BY DEF Updated
<1>7. \A i : i \in Updated(X, Y) <=> i \in Part(all, C)
  BY <1>3, <1>4, <1>5, <1>6
<1> QED
  BY <1>7 DEF X, Y

Awake(users) == \A id \in DOMAIN users : users[id].state # "UOFFLINE"

LEMMA TakePart ==
  ASSUME NEW l, NEW users, NEW B
  PROVE  Take(l, Uchange(Part(users, B))) = Updated(l, Part(users, B))
  BY DEF Take, Uchange
----------------------------------------------------------------------------
(* The list in chunks. *)
LEMMA Quotients ==
  ASSUME NEW u \in Nat \ {0}, NEW c \in Nat, NEW r \in Nat, r < c
  PROVE  r \div u \in Nat /\ r \div u < (c + u - 1) \div u
<1> DEFINE a == r \div u
           b == (c + u - 1) \div u
<1>1. a \in Nat /\ r = u * a + (r % u) /\ r % u \in 0 .. u - 1
  OBVIOUS
<1>2. b \in Nat /\ c + u - 1 = u * b + ((c + u - 1) % u) /\ (c + u - 1) % u \in 0 .. u - 1
  OBVIOUS
<1> HIDE DEF a, b
<1>3. SUFFICES ASSUME b <= a PROVE FALSE
  BY <1>1, <1>2 DEF a, b
<1>4. u * b <= u * a
  BY <1>1, <1>2, <1>3
<1> QED
  BY <1>1, <1>2, <1>4

RankOf(users, id) == Cardinality({i \in DOMAIN users : i < id})

LEMMA Ranks ==
  ASSUME NEW users, IsTree(users, Ids, UserInfos)
  PROVE  /\ Cardinality(DOMAIN users) \in Nat
         /\ \A id \in DOMAIN users :
              RankOf(users, id) \in Nat /\ RankOf(users, id) < Cardinality(DOMAIN users)
<1>1. IsFiniteSet(DOMAIN users) /\ \A id \in DOMAIN users : id \in Int
  BY IdFacts, FdsAssumption, UintAssumption, FS_Subset DEF IsTree
<1>2. Cardinality(DOMAIN users) \in Nat
  BY <1>1, FS_CardinalityType
<1>3. ASSUME NEW id \in DOMAIN users
      PROVE  RankOf(users, id) \in Nat /\ RankOf(users, id) < Cardinality(DOMAIN users)
  <2> DEFINE below == {i \in DOMAIN users : i < id}
  <2>1. below \subseteq DOMAIN users /\ id \notin below
    BY <1>1
  <2> HIDE DEF below
  <2>2. /\ IsFiniteSet(below) /\ Cardinality(below) <= Cardinality(DOMAIN users)
        /\ Cardinality(below) # Cardinality(DOMAIN users)
    BY <1>1, <2>1, FS_Subset
  <2>3. Cardinality(below) \in Nat
    BY <2>2, FS_CardinalityType
  <2> QED
    BY <1>2, <2>2, <2>3 DEF RankOf, below
<1> QED
  BY <1>2, <1>3

First(users, n) == {id \in DOMAIN users : RankOf(users, id) \div UCHANGE_MAX_UCNT < n}

Nth(users, n) == {id \in DOMAIN users : RankOf(users, id) \div UCHANGE_MAX_UCNT = n}

LEMMA ChunkIs == \A users, n : Chunk(users, n) = Part(users, Nth(users, n - 1))
  BY DEF Chunk, Part, Nth, RankOf

LEMMA FirstNth ==
  ASSUME NEW users, IsTree(users, Ids, UserInfos)
  PROVE  /\ First(users, 0) = {}
         /\ \A n \in Nat : First(users, n + 1) = First(users, n) \cup Nth(users, n)
         /\ ChunkCount(users) \in Nat
         /\ First(users, ChunkCount(users)) = DOMAIN users
<1>1. UCHANGE_MAX_UCNT \in Nat \ {0} /\ Cardinality(DOMAIN users) \in Nat
  BY RoomAssumption, Ranks
<1>2. \A id \in DOMAIN users :
        /\ RankOf(users, id) \div UCHANGE_MAX_UCNT \in Nat
        /\ RankOf(users, id) \div UCHANGE_MAX_UCNT < ChunkCount(users)
  BY <1>1, Ranks, Quotients DEF ChunkCount
<1>3. ChunkCount(users) \in Nat
  BY <1>1 DEF ChunkCount
<1>4. First(users, 0) = {} /\ First(users, ChunkCount(users)) = DOMAIN users
  BY <1>2 DEF First
<1>5. \A n \in Nat : First(users, n + 1) = First(users, n) \cup Nth(users, n)
  BY <1>2 DEF First, Nth
<1> QED
  BY <1>3, <1>4, <1>5

(* Whoever reads all the chunks has everyone (send_user_info, ALL_TO_ONE). *)
LEMMA ListOfAll ==
  ASSUME NEW users, IsTree(users, Ids, UserInfos), Awake(users)
  PROVE  ListAfter({}, AllUsers(users)) = Roster(users)
<1> DEFINE q == AllUsers(users)
           r == Reader({})
           n == ChunkCount(users)
<1>1. q \in Seq(DownMsgs)
  BY AllUsersType
<1>2. /\ n \in Nat /\ Len(q) = n
      /\ \A i \in 1 .. n : q[i] = Uchange(Part(users, Nth(users, i - 1)))
  BY FirstNth, ChunkIs DEF AllUsers
<1>3. r \in Sessions /\ r.id = NoId /\ r.user_by_id = {}
  BY ReaderType
<1> HIDE DEF q, r, n
<1>4. PICK G : Stepping(G, Len(q), r, q) /\ After(r, q) = G[Len(q)]
  BY <1>2, AfterSteps, Zenon
<1>5. G[0] = r /\ \A i \in 1 .. n : G[i] = Handled(G[i - 1], q[i])
  BY <1>2, <1>4, Zenon DEF Stepping
<1> DEFINE S == {i \in Nat : i <= n => Reads(r, G[i], Part(users, First(users, i)))}
<1>6. 0 \in S
  <2>1. Part(users, First(users, 0)) = {}
    BY FirstNth DEF Part
  <2>2. Reads(r, G[0], {})
    BY <1>3, <1>5 DEF Reads
  <2> QED
    BY <2>1, <2>2
<1>7. ASSUME NEW i \in S PROVE i + 1 \in S
  <2>1. SUFFICES ASSUME i + 1 <= n PROVE Reads(r, G[i + 1], Part(users, First(users, i + 1)))
    OBVIOUS
  <2>2. /\ i \in Nat /\ i + 1 \in 1 .. n /\ (i + 1) - 1 = i
        /\ Reads(r, G[i], Part(users, First(users, i)))
    BY <1>2, <2>1
  <2> DEFINE A == First(users, i)
             B == Nth(users, i)
             C == First(users, i + 1)
  <2>3. C = A \cup B
    BY <2>2, FirstNth
  <2>4. \A id \in C : users[id].state # "UOFFLINE"
    BY DEF First, Awake
  <2> HIDE DEF A, B, C
  <2>5. Updated(Part(users, A), Part(users, B)) = Part(users, C)
    BY <2>3, <2>4, UpdatedPart
  <2>6. PICK m \in DownMsgs : m = q[i + 1] /\ m = Uchange(Part(users, B))
    BY <1>1, <1>2, <2>2 DEF B
  <2>7. Reads(r, Handled(G[i], m), Take(Part(users, A), m))
    BY <1>3, <2>2, <2>6, ReadsOne, NobodyEnds DEF A
  <2>8. G[i + 1] = Handled(G[i], m)
    BY <1>5, <2>2, <2>6
  <2> QED
    BY <2>5, <2>6, <2>7, <2>8, TakePart DEF C
<1>8. S \in SUBSET Nat
  OBVIOUS
<1> HIDE DEF S
<1>9. n \in S
  BY <1>2, <1>6, <1>7, <1>8, NatInduct
<1>10. Reads(r, After(r, q), Part(users, First(users, n)))
  BY <1>2, <1>4, <1>9 DEF S
<1>11. First(users, n) = DOMAIN users
  BY FirstNth DEF n
<1> QED
  BY <1>10, <1>11 DEF Reads, ListAfter, Roster, q, r
----------------------------------------------------------------------------
(* Before the main screen.  Begins: until it is admitted a connection      *)
(* carries nothing but the dialogue of the login, and the list is empty.   *)
(* Enters: the first thing that an admitted session reads is the answer to *)
(* its JOIN, which the login screen does not drop as it would a change.    *)
Early(u, d, s) == s.phase \in {"LOGIN", "RETRY"} \/ Has(u, "JOIN") \/ Refused(d)

Begins(u, d, s) ==
  Early(u, d, s) =>
    /\ s.user_by_id = {} /\ s.phase \notin {"MAIN", "DONE"}
    /\ \A i \in DOMAIN u : u[i].kind \in {"JOIN", "EDISCONN"}
    /\ \A i \in DOMAIN d : d[i].kind = "JOIN_R"

Enters(d, s) ==
  s.phase = "WAIT_MSG" => s.user_by_id = {} /\ d # <<>> /\ Head(d).kind = "JOIN_R"

(* A session's id is its descriptor, as in the answer that gave it. *)
Admits(fd, d) ==
  \A i \in DOMAIN d : (d[i].kind = "JOIN_R" /\ d[i].error = "ME_OK") => d[i].id = fd

OwnId(fd, d, s) == s.id \in {NoId, fd} /\ Admits(fd, d)

(* Sees: a session at work is not told of its own end, and has the list of *)
(* users once it has read what is on its way.                              *)
Sees(fd, d, s, users) ==
  s.phase \in {"WAIT_MSG", "MAIN"} =>
    Lasts(fd, d) /\ ListAfter(s.user_by_id, d) = Roster(users)

ViewAt(fd, u, d, s, users, known) ==
  /\ Begins(u, d, s) /\ OwnId(fd, d, s)
  /\ known => Enters(d, s) /\ Sees(fd, d, s, users)

(* The inductive invariant of the roster, on top of LoginInv. *)
RosterInv ==
  /\ Awake(user_by_id)
  /\ \A fd \in Fds : ViewAt(fd, up[fd], down[fd], session[fd], user_by_id,
                            fd \in DOMAIN user_by_fd)

LEMMA RosterInvNext ==
  RosterInv' <=>
    /\ Awake(user_by_id')
    /\ \A fd \in Fds : ViewAt(fd, up'[fd], down'[fd], session'[fd], user_by_id',
                              fd \in DOMAIN user_by_fd')
  BY DEF RosterInv

LEMMA SeenIsSettled ==
  ASSUME NEW fd \in Fds, NEW s \in Sessions, NEW d \in Seq(DownMsgs), NEW users,
         OwnId(fd, d, s), Sees(fd, d, s, users), s.phase \in {"WAIT_MSG", "MAIN"}
  PROVE  Reads(s, After(s, d), Roster(users))
<1>1. Lasts(fd, d) /\ ListAfter(s.user_by_id, d) = Roster(users)
  BY DEF Sees
<1>2. Lasts(s.id, d)
  BY <1>1, NobodyLasts DEF OwnId
<1> QED
  BY <1>1, <1>2, AfterReads

LEMMA RosterInvIs == TypeOK /\ RosterInv => RosterConverges
<1> SUFFICES ASSUME TypeOK, RosterInv, NEW fd \in Fds, Present(fd)
             PROVE  Settled(fd).user_by_id = Roster(user_by_id)
  BY DEF RosterConverges, Roster, Part
<1>1. session[fd] \in Sessions /\ down[fd] \in Seq(DownMsgs)
  BY DEF TypeOK, ClientTypeOK, ChannelsTypeOK
<1>2. /\ OwnId(fd, down[fd], session[fd]) /\ Sees(fd, down[fd], session[fd], user_by_id)
      /\ session[fd].phase \in {"WAIT_MSG", "MAIN"}
  BY DEF RosterInv, ViewAt, Present
<1>3. Reads(session[fd], Settled(fd), Roster(user_by_id))
  BY <1>1, <1>2, SeenIsSettled DEF Settled
<1> QED
  BY <1>3 DEF Reads
----------------------------------------------------------------------------
(* What a handler tells.  Hears: to who reads q and then more, r, the list *)
(* A becomes B.                                                            *)
Hears(fd, q, r, A, B) ==
  /\ q # <<>> => r # <<>> /\ Head(r) = Head(q)
  /\ Lasts(fd, q) => Lasts(fd, r)
  /\ \A l \in SUBSET Infos : ListAfter(l, q) = A => ListAfter(l, r) = B

LEMMA HearsSame == \A fd, q, A : Hears(fd, q, q, A, A)
  BY DEF Hears

LEMMA HearsTrans ==
  ASSUME NEW fd, NEW q, NEW r, NEW t, NEW A, NEW B, NEW C,
         Hears(fd, q, r, A, B), Hears(fd, r, t, B, C)
  PROVE  Hears(fd, q, t, A, C)
<1>1. q # <<>> => t # <<>> /\ Head(t) = Head(q)
  BY DEF Hears
<1>2. Lasts(fd, q) => Lasts(fd, t)
  BY DEF Hears
<1>3. \A l \in SUBSET Infos : ListAfter(l, q) = A => ListAfter(l, t) = C
  BY DEF Hears
<1> QED
  BY <1>1, <1>2, <1>3 DEF Hears

LEMMA LastsAppend ==
  ASSUME NEW fd, NEW q \in Seq(DownMsgs), NEW m \in DownMsgs, ~ Ends(fd, m), Lasts(fd, q)
  PROVE  Lasts(fd, Append(q, m))
<1>1. \A i \in DOMAIN Append(q, m) : Append(q, m)[i] = m
                                     \/ (i \in DOMAIN q /\ Append(q, m)[i] = q[i])
  OBVIOUS
<1> QED
  BY <1>1 DEF Lasts

LEMMA HearsAppend ==
  ASSUME NEW fd, NEW q \in Seq(DownMsgs), NEW m \in DownMsgs, ~ Ends(fd, m), NEW A
  PROVE  Hears(fd, q, Append(q, m), A, Take(A, m))
<1>1. q # <<>> => Append(q, m) # <<>> /\ Head(Append(q, m)) = Head(q)
  OBVIOUS
<1>2. \A l \in SUBSET Infos : ListAfter(l, Append(q, m)) = Take(ListAfter(l, q), m)
  BY ListAppend
<1> QED
  BY <1>1, <1>2, LastsAppend DEF Hears

(* Informs: a handler turns the down channels d into e.  Only those of K   *)
(* are sent anything, nobody an answer to a JOIN, and those of F are told  *)
(* what makes A of B.                                                      *)
NoAnswers(q, r) ==
  \A i \in DOMAIN r : r[i].kind = "JOIN_R" => \E j \in DOMAIN q : q[j] = r[i]

Informs(K, F, d, e, A, B) ==
  /\ e \in [Fds -> Seq(DownMsgs)]
  /\ \A f \in Fds : (f \notin K => e[f] = d[f]) /\ NoAnswers(d[f], e[f])
  /\ \A f \in F : Hears(f, d[f], e[f], A, B)

LEMMA InformsSame ==
  ASSUME NEW d \in [Fds -> Seq(DownMsgs)] PROVE \A K, F, A : Informs(K, F, d, d, A, A)
<1>1. \A f \in Fds : NoAnswers(d[f], d[f])
  BY DEF NoAnswers
<1> QED
  BY <1>1, HearsSame DEF Informs

LEMMA InformsTrans ==
  ASSUME NEW K, NEW F, NEW d, NEW e, NEW g, NEW A, NEW B, NEW C,
         Informs(K, F, d, e, A, B), Informs(K, F, e, g, B, C)
  PROVE  Informs(K, F, d, g, A, C)
<1>1. \A f \in F : Hears(f, d[f], g[f], A, C)
  BY HearsTrans DEF Informs
<1>2. \A f \in Fds : NoAnswers(d[f], g[f])
  BY DEF Informs, NoAnswers
<1> QED
  BY <1>1, <1>2 DEF Informs

LEMMA NoAnswersAppend ==
  ASSUME NEW q \in Seq(DownMsgs), NEW m, m.kind # "JOIN_R"
  PROVE  NoAnswers(q, Append(q, m))
<1>1. \A i \in DOMAIN Append(q, m) : Append(q, m)[i] = m
                                     \/ (i \in DOMAIN q /\ Append(q, m)[i] = q[i])
  OBVIOUS
<1> QED
  BY <1>1 DEF NoAnswers

LEMMA InformsAll ==
  ASSUME NEW d \in [Fds -> Seq(DownMsgs)], NEW fds, NEW m \in DownMsgs, m.kind # "JOIN_R",
         NEW K, \A f \in Fds : f \in fds => f \in K,
         NEW F \in SUBSET Fds, \A f \in F : ~ Ends(f, m), NEW A, NEW B,
         \A f \in F : f \in fds \/ A = B, B = Take(A, m)
  PROVE  Informs(K, F, d, SendAll(d, fds, m), A, B)
<1> DEFINE e == SendAll(d, fds, m)
<1>1. e \in [Fds -> Seq(DownMsgs)]
  BY SendAllType
<1>2. \A f \in Fds : e[f] = IF f \in fds THEN Append(d[f], m) ELSE d[f]
  BY DEF SendAll
<1> HIDE DEF e
<1>3. ASSUME NEW f \in Fds PROVE (f \notin K => e[f] = d[f]) /\ NoAnswers(d[f], e[f])
  <2>1. d[f] \in Seq(DownMsgs)
    OBVIOUS
  <2>2. NoAnswers(d[f], Append(d[f], m)) /\ NoAnswers(d[f], d[f])
    BY <2>1, NoAnswersAppend DEF NoAnswers
  <2> QED
    BY <1>2, <2>2
<1>4. ASSUME NEW f \in F PROVE Hears(f, d[f], e[f], A, B)
  <2>1. f \in Fds /\ d[f] \in Seq(DownMsgs)
    OBVIOUS
  <2>2. Hears(f, d[f], Append(d[f], m), A, B)
    BY <2>1, HearsAppend
  <2>3. A = B => Hears(f, d[f], d[f], A, B)
    BY HearsSame
  <2> QED
    BY <1>2, <2>1, <2>2, <2>3
<1> QED
  BY <1>1, <1>3, <1>4 DEF Informs, e

LEMMA SendIsAll ==
  ASSUME NEW M, NEW d \in [Fds -> Seq(M)], NEW fd \in Fds, NEW m
  PROVE  Send(d, fd, m) = SendAll(d, {fd}, m)
  BY DEF Send, SendAll

LEMMA PlainTake ==
  ASSUME NEW m, m.kind # "UCHANGE" PROVE \A f, A : ~ Ends(f, m) /\ Take(A, m) = A
  BY DEF Ends, Take

LEMMA InformsSend ==
  ASSUME NEW d \in [Fds -> Seq(DownMsgs)], NEW fd \in Fds, NEW m \in DownMsgs,
         m.kind \notin {"JOIN_R", "UCHANGE"}, NEW K, fd \in K, NEW F \in SUBSET Fds, NEW A
  PROVE  Informs(K, F, d, Send(d, fd, m), A, A)
<1>1. Send(d, fd, m) = SendAll(d, {fd}, m)
  BY SendIsAll
<1>2. Informs(K, F, d, SendAll(d, {fd}, m), A, A)
  BY PlainTake, InformsAll
<1> QED
  BY <1>1, <1>2

(* broadcast_user_changes. *)
LEMMA InformsChanges ==
  ASSUME NEW d \in [Fds -> Seq(DownMsgs)], NEW users, IsTree(users, Ids, UserInfos),
         NEW ids \in SUBSET DOMAIN users, NEW K, FdsOf(users) \subseteq K,
         NEW F \in SUBSET Fds, F \subseteq FdsOf(users),
         \A f \in F : f \in ids => users[f].state # "UOFFLINE",
         NEW A, NEW B, B = Updated(A, Part(users, ids))
  PROVE  Informs(K, F, d, broadcast_user_changes(d, users, ids), A, B)
<1>1. PICK m : m = Uchange(Part(users, ids))
  OBVIOUS
<1>2. Part(users, ids) \in SUBSET Infos
  BY InfoType DEF Part
<1>3. m \in DownMsgs /\ m.kind = "UCHANGE" /\ m.users = Part(users, ids)
  BY <1>1, <1>2, UchangeType DEF Uchange
<1>4. ASSUME NEW f \in F PROVE ~ Ends(f, m)
  <2> SUFFICES ASSUME NEW i \in Part(users, ids), i.id = f, i.state = "UOFFLINE" PROVE FALSE
    BY <1>3 DEF Ends
  <2>1. PICK id \in ids : i = Info(id, users[id])
    BY DEF Part
  <2> QED
    BY <2>1, InfoIs
<1>5. B = Take(A, m)
  BY <1>1, TakePart
<1>6. Informs(K, F, d, SendAll(d, FdsOf(users), m), A, B)
  BY <1>3, <1>4, <1>5, InformsAll
<1> QED
  BY <1>1, <1>6 DEF broadcast_user_changes, Part
----------------------------------------------------------------------------
(* A handler that admits nobody and tells those who stay of what it does   *)
(* keeps the invariant.                                                    *)
LEMMA EarlyBefore ==
  ASSUME NEW u, NEW v, Has(v, "JOIN") => Has(u, "JOIN"),
         NEW d, NEW e, NoAnswers(d, e), NEW s, Early(v, e, s)
  PROVE  Early(u, d, s)
<1>1. Refused(e) => Refused(d)
  BY DEF NoAnswers, Refused
<1> QED
  BY <1>1 DEF Early

LEMMA EarlyUnknown ==
  ASSUME NEW u, NEW d, NEW s, NEW known, JoinOnceAt(u, d, s.phase, known), Early(u, d, s)
  PROVE  ~ known
  BY DEF JoinOnceAt, Early

LEMMA BeginsKeeps ==
  ASSUME NEW u, NEW u2, NEW d, NEW e, NEW s, Begins(u, d, s),
         Early(u2, e, s) => Early(u, d, s) /\ e = d,
         \A i \in DOMAIN u2 : \E j \in DOMAIN u : u2[i] = u[j]
  PROVE  Begins(u2, e, s)
  BY DEF Begins

LEMMA AdmitsKeeps ==
  ASSUME NEW fd, NEW d, NEW e, NoAnswers(d, e), Admits(fd, d)
  PROVE  Admits(fd, e)
  BY DEF NoAnswers, Admits

LEMMA SeesHears ==
  ASSUME NEW fd, NEW d, NEW e, NEW s \in Sessions, NEW users, NEW users2,
         Hears(fd, d, e, Roster(users), Roster(users2)), Enters(d, s), Sees(fd, d, s, users)
  PROVE  Enters(e, s) /\ Sees(fd, e, s, users2)
<1>1. s.user_by_id \in SUBSET Infos
  BY DEF Sessions
<1>2. Enters(e, s)
  BY DEF Enters, Hears
<1>3. Sees(fd, e, s, users2)
  BY <1>1 DEF Sees, Hears
<1> QED
  BY <1>2, <1>3

(* The head of a connection's entries is gone, the others are as they were. *)
LEMMA TakenFrom ==
  ASSUME TypeOK, NEW fd \in Fds, NEW kind, Takes(fd, kind), NEW f \in Fds
  PROVE  /\ \A i \in DOMAIN up'[f] : \E j \in DOMAIN up[f] : up'[f][i] = up[f][j]
         /\ \E j \in DOMAIN up[fd] : up[fd][j].kind = kind
<1>1. /\ up \in [Fds -> Seq(UpMsgs)] /\ up[fd] \in Seq(UpMsgs) /\ up[fd] # <<>>
      /\ Head(up[fd]).kind = kind
      /\ up' = [up EXCEPT ![fd] = Tail(up[fd])]
  BY DEF Takes, TypeOK, ChannelsTypeOK
<1>2. /\ \A i \in DOMAIN Tail(up[fd]) : i + 1 \in DOMAIN up[fd] /\ Tail(up[fd])[i] = up[fd][i + 1]
      /\ 1 \in DOMAIN up[fd] /\ Head(up[fd]) = up[fd][1]
  BY <1>1
<1> QED
  BY <1>1, <1>2

LEMMA TellsRoster ==
  ASSUME LoginInv, RosterInv, NEW fd \in Fds, NEW kind, Takes(fd, kind), UNCHANGED session,
         DOMAIN user_by_fd' \subseteq DOMAIN user_by_fd,
         kind \in {"JOIN", "EDISCONN"} => fd \in DOMAIN user_by_fd \/ down'[fd] = down[fd],
         Informs(DOMAIN user_by_fd \cup {fd}, DOMAIN user_by_fd', down, down',
                 Roster(user_by_id), Roster(user_by_id')),
         Awake(user_by_id')
  PROVE  RosterInv'
<1>1. TypeOK /\ JoinOnce /\ session \in [Fds -> Sessions]
  BY DEF LoginInv, TypeOK, ClientTypeOK
<1> SUFFICES ASSUME NEW f \in Fds
             PROVE  ViewAt(f, up'[f], down'[f], session'[f], user_by_id',
                           f \in DOMAIN user_by_fd')
  BY RosterInvNext
<1>2. /\ Begins(up[f], down[f], session[f]) /\ OwnId(f, down[f], session[f])
      /\ f \in DOMAIN user_by_fd => /\ Enters(down[f], session[f])
                                    /\ Sees(f, down[f], session[f], user_by_id)
  BY DEF RosterInv, ViewAt
<1>3. /\ f \notin DOMAIN user_by_fd \cup {fd} => down'[f] = down[f]
      /\ NoAnswers(down[f], down'[f])
      /\ f \in DOMAIN user_by_fd' => Hears(f, down[f], down'[f], Roster(user_by_id),
                                           Roster(user_by_id'))
  BY DEF Informs
<1>4. JoinOnceAt(up[f], down[f], session[f].phase, f \in DOMAIN user_by_fd)
  BY <1>1, JoinOnceIsAt
<1>5. /\ \A i \in DOMAIN up'[f] : \E j \in DOMAIN up[f] : up'[f][i] = up[f][j]
      /\ \E j \in DOMAIN up[fd] : up[fd][j].kind = kind
      /\ Has(up'[f], "JOIN") => Has(up[f], "JOIN")
  BY <1>1, TakenFrom, UpAfterTakes
<1>6. ASSUME Early(up'[f], down'[f], session[f])
      PROVE  Early(up[f], down[f], session[f]) /\ down'[f] = down[f]
  <2>1. Early(up[f], down[f], session[f])
    BY <1>3, <1>5, <1>6, EarlyBefore
  <2>2. f \notin DOMAIN user_by_fd
    BY <1>4, <2>1, EarlyUnknown
  <2>3. CASE f = fd
    <3>1. kind \in {"JOIN", "EDISCONN"}
      BY <1>2, <1>5, <2>1, <2>3 DEF Begins
    <3> QED
      BY <2>1, <2>2, <2>3, <3>1
  <2>4. CASE f # fd
    BY <1>3, <2>1, <2>2, <2>4
  <2> QED
    BY <2>3, <2>4
<1>7. Begins(up'[f], down'[f], session[f])
  BY <1>2, <1>5, <1>6, BeginsKeeps
<1>8. OwnId(f, down'[f], session[f])
  BY <1>2, <1>3, AdmitsKeeps DEF OwnId
<1>9. ASSUME f \in DOMAIN user_by_fd'
      PROVE  Enters(down'[f], session[f]) /\ Sees(f, down'[f], session[f], user_by_id')
  BY <1>1, <1>2, <1>3, <1>9, SeesHears
<1> QED
  BY <1>7, <1>8, <1>9 DEF ViewAt
----------------------------------------------------------------------------
(* The handlers that keep everyone.  Told: who is known learns what the    *)
(* users have become.                                                      *)
Told(fd, F, users, d) ==
  /\ Informs(DOMAIN user_by_fd \cup {fd}, F, down, d, Roster(user_by_id), Roster(users))
  /\ Awake(users)

LEMMA KnownFds ==
  ASSUME LoginInv
  PROVE  /\ DOMAIN user_by_fd \in SUBSET Fds /\ down \in [Fds -> Seq(DownMsgs)]
         /\ FdsOf(user_by_id) = DOMAIN user_by_fd
         /\ \A id \in DOMAIN user_by_id : /\ user_by_id[id].fd \in DOMAIN user_by_fd
                                          /\ user_by_id[id].fd \in Fds
                                          /\ user_by_id[id].fd = id
         /\ \A f \in DOMAIN user_by_fd : f \in DOMAIN user_by_id /\ user_by_id[f].fd = f
<1>1. /\ DOMAIN user_by_fd \in SUBSET Fds /\ down \in [Fds -> Seq(DownMsgs)]
  BY DEF LoginInv, TypeOK, ServerTypeOK, ChannelsTypeOK, IsTree
<1>2. \A id \in DOMAIN user_by_id : /\ user_by_id[id].fd \in DOMAIN user_by_fd
                                    /\ user_by_id[id].fd \in Fds
                                    /\ user_by_id[id].fd = id
  BY <1>1 DEF LoginInv, IndexesAgree, OwnIds
<1>3. \A f \in DOMAIN user_by_fd : f \in DOMAIN user_by_id /\ user_by_id[f].fd = f
  BY <1>2 DEF LoginInv, IndexesAgree, OwnIds
<1>4. FdsOf(user_by_id) = DOMAIN user_by_fd
  BY <1>2, <1>3 DEF FdsOf
<1> QED
  BY <1>1, <1>2, <1>3, <1>4

LEMMA ToldRoster ==
  ASSUME LoginInv, RosterInv, NEW fd \in Fds, NEW kind, Takes(fd, kind),
         kind \notin {"JOIN", "EDISCONN"}, UNCHANGED <<session, user_by_fd>>,
         Told(fd, DOMAIN user_by_fd, user_by_id', down')
  PROVE  RosterInv'
  BY TellsRoster DEF Told

(* Users who look the same are not told of. *)
LEMMA SameRoster ==
  ASSUME NEW users, DOMAIN users = DOMAIN user_by_id, RosterInv,
         \A id \in DOMAIN user_by_id : /\ users[id].nick = user_by_id[id].nick
                                       /\ users[id].state = user_by_id[id].state
                                       /\ users[id].score = user_by_id[id].score
  PROVE  Roster(users) = Roster(user_by_id) /\ Awake(users)
<1>1. \A id \in DOMAIN user_by_id : Info(id, users[id]) = Info(id, user_by_id[id])
  BY InfoIs
<1>2. Roster(users) = Roster(user_by_id)
  BY <1>1 DEF Roster, Part
<1> QED
  BY <1>2 DEF RosterInv, Awake

LEMMA ToldNothing ==
  ASSUME LoginInv, RosterInv, NEW fd \in Fds, NEW F
  PROVE  Told(fd, F, user_by_id, down)
<1>1. down \in [Fds -> Seq(DownMsgs)]
  BY KnownFds
<1> QED
  BY <1>1, InformsSame DEF Told, RosterInv

LEMMA SilentRoster ==
  ASSUME LoginInv, RosterInv, NEW fd \in Fds, UNCHANGED session,
         \/ HandleChallengeIgnored(fd) \/ HandleStartNoId(fd)
         \/ HandleDisconnectUnknown(fd) \/ HandleTurnIgnored(fd) \/ HandleTurnFirst(fd)
         \/ HandleQuit(fd) /\ ~ Known(Head(up[fd]).id, Head(up[fd]).key)
  PROVE  RosterInv'
<1>1. /\ UNCHANGED <<user_by_id, user_by_fd, down>>
      /\ \/ Takes(fd, "CHALLENGE") \/ Takes(fd, "EDISCONN") \/ Takes(fd, "TURN")
         \/ Takes(fd, "QUIT")
  BY DEF HandleChallengeIgnored, HandleStartNoId, HandleDisconnectUnknown,
         HandleTurnIgnored, HandleTurnFirst, HandleQuit, serverVars, trees
<1>2. Told(fd, DOMAIN user_by_fd, user_by_id, down)
  BY ToldNothing
<1>3. /\ Informs(DOMAIN user_by_fd \cup {fd}, DOMAIN user_by_fd', down, down',
                 Roster(user_by_id), Roster(user_by_id'))
      /\ Awake(user_by_id') /\ DOMAIN user_by_fd' \subseteq DOMAIN user_by_fd
      /\ down'[fd] = down[fd]
  BY <1>1, <1>2 DEF Told
<1> QED
  BY <1>1, <1>3, TellsRoster

(* A handler that sends one message and changes nobody's entry. *)
LEMMA SendTold ==
  ASSUME LoginInv, RosterInv, NEW fd \in Fds, NEW to, to \in DOMAIN user_by_fd \/ to = fd,
         NEW m \in DownMsgs, m.kind \notin {"JOIN_R", "UCHANGE"}, NEW users,
         DOMAIN users = DOMAIN user_by_id,
         \A id \in DOMAIN user_by_id : /\ users[id].nick = user_by_id[id].nick
                                       /\ users[id].state = user_by_id[id].state
                                       /\ users[id].score = user_by_id[id].score
  PROVE  Told(fd, DOMAIN user_by_fd, users, Send(down, to, m))
<1>1. Roster(users) = Roster(user_by_id) /\ Awake(users)
  BY SameRoster
<1>2. PICK K, F \in SUBSET Fds : K = DOMAIN user_by_fd \cup {fd} /\ F = DOMAIN user_by_fd
  BY KnownFds
<1>3. to \in Fds /\ to \in K /\ down \in [Fds -> Seq(DownMsgs)]
  BY <1>2, KnownFds
<1>4. \A A : Informs(K, F, down, Send(down, to, m), A, A)
  BY <1>3, InformsSend
<1> QED
  BY <1>1, <1>2, <1>4 DEF Told

LEMMA ChallengeErrorRoster ==
  ASSUME LoginInv, RosterInv, NEW fd \in Fds, HandleChallengeError(fd), UNCHANGED session
  PROVE  RosterInv'
<1>1. TypeOK
  BY DEF LoginInv
<1>2. PICK m \in Challenges : m = Head(up[fd])
  BY <1>1, ChallengeFacts DEF HandleChallengeError
<1>3. ChallengeError(m) \in {"ME_OK", "NXID", "ICKEY", "ENGAGED", "CHLSELF", "NXCHID",
                             "CANCELLED", "REJECTED"}
  BY <1>2 DEF ChallengeError, Challenges
<1>4. PICK r \in DownMsgs : r = ChallengeR(ChallengeError(m), m, FALSE)
  BY <1>3, ChallengeRType
<1>5. r.kind \notin {"JOIN_R", "UCHANGE"}
  BY <1>4 DEF ChallengeR
<1>6. /\ down' = Send(down, fd, r) /\ Takes(fd, "CHALLENGE")
      /\ UNCHANGED <<user_by_id, user_by_fd>>
  BY <1>2, <1>4 DEF HandleChallengeError, serverVars, trees
<1>7. Told(fd, DOMAIN user_by_fd, user_by_id, Send(down, fd, r))
  BY <1>5, SendTold
<1> QED
  BY <1>6, <1>7, ToldRoster

LEMMA SetChidLooks ==
  ASSUME TypeOK, NEW id \in DOMAIN user_by_id, NEW c, NEW users,
         users = [user_by_id EXCEPT ![id].chid = c]
  PROVE  /\ DOMAIN users = DOMAIN user_by_id
         /\ \A i \in DOMAIN user_by_id : /\ users[i].nick = user_by_id[i].nick
                                         /\ users[i].state = user_by_id[i].state
                                         /\ users[i].score = user_by_id[i].score
<1>1. user_by_id[id] \in UserInfos
  BY DEF TypeOK, ServerTypeOK, IsTree
<1> QED
  BY <1>1 DEF UserInfos

LEMMA StartRoster ==
  ASSUME LoginInv, RosterInv, NEW fd \in Fds, HandleStart(fd), UNCHANGED session
  PROVE  RosterInv'
<1>1. TypeOK
  BY DEF LoginInv
<1>2. PICK m \in Challenges : m = Head(up[fd]) /\ m.id1 \in DOMAIN user_by_id
                              /\ m.id2 \in DOMAIN user_by_id
  BY <1>1, ChallengeFacts DEF HandleStart, Valid
<1>3. PICK c \in FreeChIds :
        /\ user_by_id' = [user_by_id EXCEPT ![m.id1].chid = c]
        /\ down' = Send(down, user_by_id[m.id2].fd, [m EXCEPT !.chid = c])
  BY <1>2 DEF HandleStart
<1>4. PICK r : r = [m EXCEPT !.chid = c]
  OBVIOUS
<1>5. r \in DownMsgs /\ r.kind = "CHALLENGE"
  BY <1>4 DEF Challenges, DownMsgs, FreeChIds, AnyChId
<1>6. PICK to : to = user_by_id[m.id2].fd
  OBVIOUS
<1>7. to \in DOMAIN user_by_fd
  BY <1>2, <1>6, KnownFds
<1>8. /\ DOMAIN user_by_id' = DOMAIN user_by_id
      /\ \A i \in DOMAIN user_by_id : /\ user_by_id'[i].nick = user_by_id[i].nick
                                      /\ user_by_id'[i].state = user_by_id[i].state
                                      /\ user_by_id'[i].score = user_by_id[i].score
  BY <1>1, <1>2, <1>3, SetChidLooks
<1>9. Told(fd, DOMAIN user_by_fd, user_by_id', Send(down, to, r))
  BY <1>5, <1>7, <1>8, SendTold
<1>10. Takes(fd, "CHALLENGE") /\ user_by_fd' = user_by_fd
  BY DEF HandleStart
<1> QED
  BY <1>3, <1>4, <1>6, <1>9, <1>10, ToldRoster

LEMMA CancelRoster ==
  ASSUME LoginInv, RosterInv, NEW fd \in Fds, HandleCancel(fd), UNCHANGED session
  PROVE  RosterInv'
<1>1. TypeOK
  BY DEF LoginInv
<1>2. PICK m \in Challenges : m = Head(up[fd]) /\ m.id1 \in DOMAIN user_by_id
  BY <1>1, ChallengeFacts DEF HandleCancel, Valid
<1>3. PICK user2 : user2 = ch_by_id[user_by_id[m.id1].chid].user2
  OBVIOUS
<1>4. PICK r \in DownMsgs : r = ChallengeR("CANCELLED", m, FALSE)
  BY ChallengeRType
<1>5. r.kind \notin {"JOIN_R", "UCHANGE"}
  BY <1>4 DEF ChallengeR
<1>6. /\ user_by_id' = [user_by_id EXCEPT ![m.id1].chid = NoId]
      /\ down' = IF user2 \in DOMAIN user_by_id
                   THEN Send(down, user_by_id[user2].fd, r) ELSE down
      /\ Takes(fd, "CHALLENGE") /\ user_by_fd' = user_by_fd
  BY <1>2, <1>3, <1>4 DEF HandleCancel
<1>7. /\ DOMAIN user_by_id' = DOMAIN user_by_id
      /\ \A i \in DOMAIN user_by_id : /\ user_by_id'[i].nick = user_by_id[i].nick
                                      /\ user_by_id'[i].state = user_by_id[i].state
                                      /\ user_by_id'[i].score = user_by_id[i].score
  BY <1>1, <1>2, <1>6, SetChidLooks
<1>8. CASE user2 \in DOMAIN user_by_id
  <2>1. PICK to : to = user_by_id[user2].fd
    OBVIOUS
  <2>2. to \in DOMAIN user_by_fd
    BY <1>8, <2>1, KnownFds
  <2>3. Told(fd, DOMAIN user_by_fd, user_by_id', Send(down, to, r))
    BY <1>5, <1>7, <2>2, SendTold
  <2> QED
    BY <1>6, <1>8, <2>1, <2>3, ToldRoster
<1>9. CASE user2 \notin DOMAIN user_by_id
  <2>1. Roster(user_by_id') = Roster(user_by_id) /\ Awake(user_by_id')
    BY <1>7, SameRoster
  <2>2. Told(fd, DOMAIN user_by_fd, user_by_id, down)
    BY ToldNothing
  <2>3. Told(fd, DOMAIN user_by_fd, user_by_id', down)
    BY <2>1, <2>2 DEF Told
  <2> QED
    BY <1>6, <1>9, <2>3, ToldRoster
<1> QED
  BY <1>8, <1>9

LEMMA RejectRoster ==
  ASSUME LoginInv, RosterInv, NEW fd \in Fds, HandleReject(fd), UNCHANGED session
  PROVE  RosterInv'
<1>1. TypeOK
  BY DEF LoginInv
<1>2. PICK m \in Challenges : m = Head(up[fd]) /\ m.id1 \in DOMAIN user_by_id
  BY <1>1, ChallengeFacts DEF HandleReject, Rejects, Valid
<1>3. PICK r \in DownMsgs : r = ChallengeR("REJECTED", m, FALSE)
  BY ChallengeRType
<1>4. r.kind \notin {"JOIN_R", "UCHANGE"}
  BY <1>3 DEF ChallengeR
<1>5. PICK to : to = user_by_id[m.id1].fd
  OBVIOUS
<1>6. to \in DOMAIN user_by_fd
  BY <1>2, <1>5, KnownFds
<1>7. /\ down' = Send(down, to, r) /\ Takes(fd, "CHALLENGE")
      /\ UNCHANGED <<user_by_id, user_by_fd>>
  BY <1>2, <1>3, <1>5 DEF HandleReject, trees
<1>8. Told(fd, DOMAIN user_by_fd, user_by_id, Send(down, to, r))
  BY <1>4, <1>6, SendTold
<1> QED
  BY <1>7, <1>8, ToldRoster

LEMMA SendmsgRoster ==
  ASSUME LoginInv, RosterInv, NEW fd \in Fds, HandleSendmsg(fd), UNCHANGED session
  PROVE  RosterInv'
<1>1. TypeOK
  BY DEF LoginInv
<1>2. PICK h \in SendMsgs : h = Head(up[fd])
  BY <1>1, TakesType, UpKinds DEF HandleSendmsg, TypeOK
<1>3. PICK m : m = [h EXCEPT !.key = 0]
  OBVIOUS
<1>4. m \in DownMsgs /\ m.kind = "SENDMSG"
  BY <1>3 DEF SendMsgs, DownMsgs, AnyKey
<1>5. /\ down' = SendAll(down, FdsOf(user_by_id), m) \/ down' = down
      /\ Takes(fd, "SENDMSG") /\ UNCHANGED <<user_by_id, user_by_fd>>
  BY <1>2, <1>3 DEF HandleSendmsg, serverVars, trees
<1>6. PICK K, F \in SUBSET Fds : K = DOMAIN user_by_fd \cup {fd} /\ F = DOMAIN user_by_fd
  BY KnownFds
<1>7. PICK fds : fds = FdsOf(user_by_id)
  OBVIOUS
<1>8. fds \subseteq K /\ down \in [Fds -> Seq(DownMsgs)]
  BY <1>6, <1>7, KnownFds
<1>9. \A A : Informs(K, F, down, SendAll(down, fds, m), A, A)
  BY <1>4, <1>8, PlainTake, InformsAll
<1>10. Told(fd, DOMAIN user_by_fd, user_by_id, SendAll(down, fds, m))
  BY <1>6, <1>9 DEF Told, RosterInv
<1> QED
  BY <1>5, <1>7, <1>10, ToldNothing, ToldRoster
----------------------------------------------------------------------------
(* Battles.  What a handler has told, and then sends more or broadcasts.   *)
LEMMA SendMore ==
  ASSUME LoginInv, NEW fd \in Fds, NEW users, NEW d, Told(fd, DOMAIN user_by_fd, users, d),
         NEW to \in DOMAIN user_by_fd, NEW m \in DownMsgs, m.kind \notin {"JOIN_R", "UCHANGE"}
  PROVE  Told(fd, DOMAIN user_by_fd, users, Send(d, to, m))
<1>1. PICK K, F \in SUBSET Fds : K = DOMAIN user_by_fd \cup {fd} /\ F = DOMAIN user_by_fd
  BY KnownFds
<1>2. PICK A, B : A = Roster(user_by_id) /\ B = Roster(users)
  OBVIOUS
<1>3. Informs(K, F, down, d, A, B) /\ Awake(users)
  BY <1>1, <1>2 DEF Told
<1>4. to \in Fds /\ to \in K /\ d \in [Fds -> Seq(DownMsgs)]
  BY <1>1, <1>3 DEF Informs
<1>5. Informs(K, F, d, Send(d, to, m), B, B)
  BY <1>4, InformsSend
<1>6. Informs(K, F, down, Send(d, to, m), A, B)
  BY <1>3, <1>5, InformsTrans
<1> QED
  BY <1>1, <1>2, <1>3, <1>6 DEF Told

LEMMA ChangesTold ==
  ASSUME LoginInv, NEW fd \in Fds, NEW d, Told(fd, DOMAIN user_by_fd, user_by_id, d),
         NEW users, IsTree(users, Ids, UserInfos), SameUsers(users), Awake(users),
         NEW ids \in SUBSET DOMAIN user_by_id,
         \A id \in DOMAIN user_by_id \ ids : users[id] = user_by_id[id]
  PROVE  Told(fd, DOMAIN user_by_fd, users, broadcast_user_changes(d, users, ids))
<1>1. PICK K, F \in SUBSET Fds : K = DOMAIN user_by_fd \cup {fd} /\ F = DOMAIN user_by_fd
  BY KnownFds
<1>2. PICK A, B : A = Roster(user_by_id) /\ B = Roster(users)
  OBVIOUS
<1>3. Informs(K, F, down, d, A, A) /\ d \in [Fds -> Seq(DownMsgs)]
  BY <1>1, <1>2 DEF Told, Informs
<1>4. DOMAIN users = DOMAIN user_by_id /\ FdsOf(users) = F
  <2>1. /\ DOMAIN users = DOMAIN user_by_id
        /\ \A id \in DOMAIN user_by_id : users[id].fd = user_by_id[id].fd
    BY DEF SameUsers
  <2>2. FdsOf(users) = FdsOf(user_by_id)
    BY <2>1 DEF FdsOf
  <2> QED
    BY <1>1, <2>1, <2>2, KnownFds
<1>5. B = Updated(A, Part(users, ids))
  <2>1. Updated(Part(user_by_id, DOMAIN user_by_id), Part(users, ids))
          = Part(users, DOMAIN users)
    BY <1>4, UpdatedPart DEF Awake
  <2> QED
    BY <1>2, <2>1 DEF Roster
<1>6. \A f \in F : f \in ids => users[f].state # "UOFFLINE"
  BY <1>4 DEF Awake
<1>7. Informs(K, F, d, broadcast_user_changes(d, users, ids), A, B)
  BY <1>1, <1>3, <1>4, <1>5, <1>6, InformsChanges
<1>8. Informs(K, F, down, broadcast_user_changes(d, users, ids), A, B)
  BY <1>3, <1>7, InformsTrans
<1> QED
  BY <1>1, <1>2, <1>8 DEF Told

LEMMA AcceptRoster ==
  ASSUME LoginInv, RosterInv, NEW fd \in Fds, HandleAccept(fd), UNCHANGED session
  PROVE  RosterInv'
<1>1. TypeOK /\ IsTree(user_by_id, Ids, UserInfos) /\ Awake(user_by_id)
  BY DEF LoginInv, TypeOK, ServerTypeOK, RosterInv
<1> DEFINE m == Head(up[fd])
           c == m.chid
           ch == [ch_by_id[c] EXCEPT !.state = "STARTED", !.turn_no = 0]
           users == Battling(user_by_id, m.id1, m.id2, c)
           after == AfterTurn(ch, 0)
           r == TurnR(ch, after, Winner(after, NoId))
           ok1 == ChallengeR("ME_OK", m, TRUE)
           ok2 == ChallengeR("ME_OK", m, FALSE)
           told == broadcast_user_changes(down, users, {m.id1, m.id2})
           replied1 == Send(told, users[m.id1].fd, ok1)
           replied == Send(replied1, users[m.id2].fd, ok2)
           turned1 == Send(replied, users[ch.user1].fd, r)
           turned == Send(turned1, users[ch.user2].fd, r)
<1>2. /\ m \in Challenges /\ m.id1 \in DOMAIN user_by_id /\ m.id2 \in DOMAIN user_by_id
      /\ m.chid \in ChIds /\ ch_by_id[m.chid] \in ChallengeRecs
  BY <1>1, ChallengeFacts DEF HandleAccept, Valid
<1>3. /\ user_by_id' = users /\ Takes(fd, "CHALLENGE") /\ user_by_fd' = user_by_fd
      /\ IF {ch.user1, ch.user2} \subseteq DOMAIN users
           THEN down' = turned ELSE down' = replied
  BY DEF HandleAccept, Battling
<1> HIDE DEF m
<1>4. ch \in ChallengeRecs
  BY <1>2 DEF ChallengeRecs
<1> HIDE DEF c, ch, after, r, ok1, ok2
<1>5. IsTree(users, Ids, UserInfos) /\ SameUsers(users)
  <2>1. /\ IsTree(users, Ids, UserInfos) /\ DOMAIN users = DOMAIN user_by_id
        /\ \A id \in DOMAIN user_by_id : /\ users[id].fd = user_by_id[id].fd
                                         /\ users[id].nick = user_by_id[id].nick
    BY <1>1, <1>2, BattlingType DEF c
  <2> QED
    BY <2>1 DEF SameUsers
<1>6. /\ ok1 \in DownMsgs /\ ok1.kind = "CHALLENGE_R"
      /\ ok2 \in DownMsgs /\ ok2.kind = "CHALLENGE_R"
  BY <1>2, ChallengeRType DEF ChallengeR, ok1, ok2
<1>7. r \in DownMsgs /\ r.kind = "TURN_R"
  <2>1. after \in ChallengeRecs
    BY <1>4, AfterTurnType DEF after
  <2>2. Winner(after, NoId) \in AnyId
    BY <2>1, WinnerType DEF ChallengeRecs, AnyId
  <2> QED
    BY <1>4, <2>1, <2>2, TurnRType DEF TurnR, r
<1>8. /\ \A id \in DOMAIN user_by_id \ {m.id1, m.id2} : users[id] = user_by_id[id]
      /\ Awake(users)
  <2>1. /\ DOMAIN users = DOMAIN user_by_id
        /\ \A id \in {m.id1, m.id2} : users[id].state = "UBATTLING"
        /\ \A id \in DOMAIN user_by_id \ {m.id1, m.id2} : users[id] = user_by_id[id]
    BY <1>1, <1>2, BattlingStates
  <2> QED
    BY <1>1, <2>1 DEF Awake
<1> HIDE DEF users
<1>9. \A id \in DOMAIN users : users[id].fd \in DOMAIN user_by_fd
  BY <1>5, KnownFds DEF SameUsers
<1>10. Told(fd, DOMAIN user_by_fd, users, told)
  <2>1. PICK ids \in SUBSET DOMAIN user_by_id : ids = {m.id1, m.id2}
    BY <1>2
  <2> QED
    BY <1>5, <1>8, <2>1, ToldNothing, ChangesTold
<1> HIDE DEF told
<1>11. m.id1 \in DOMAIN users /\ m.id2 \in DOMAIN users
  BY <1>2, <1>5 DEF SameUsers
<1>12. Told(fd, DOMAIN user_by_fd, users, replied1)
  BY <1>6, <1>9, <1>10, <1>11, SendMore
<1> HIDE DEF replied1
<1>13. Told(fd, DOMAIN user_by_fd, users, replied)
  BY <1>6, <1>9, <1>11, <1>12, SendMore
<1> HIDE DEF replied
<1>14. ASSUME {ch.user1, ch.user2} \subseteq DOMAIN users
       PROVE  Told(fd, DOMAIN user_by_fd, users, turned)
  <2>1. Told(fd, DOMAIN user_by_fd, users, turned1)
    BY <1>7, <1>9, <1>13, <1>14, SendMore
  <2> HIDE DEF turned1
  <2> QED
    BY <1>7, <1>9, <1>14, <2>1, SendMore
<1>15. Told(fd, DOMAIN user_by_fd, user_by_id', down')
  BY <1>3, <1>13, <1>14
<1> QED
  BY <1>3, <1>15, ToldRoster

(* The end of a battle puts nobody offline. *)
LEMMA EndBattleAwake ==
  ASSUME LoginInv, Awake(user_by_id), NEW ch \in ChallengeRecs, NEW winner,
         NEW bonus \in Bonuses, NEW penalty \in Penalties,
         ch.user1 \in DOMAIN user_by_id, ch.user2 \in DOMAIN user_by_id,
         winner = ch.user1 \/ winner = ch.user2,
         NEW users, users = EndBattle(user_by_id, ch, winner, bonus, penalty)
  PROVE  /\ IsTree(users, Ids, UserInfos) /\ SameUsers(users) /\ Awake(users)
         /\ \A id \in DOMAIN user_by_id \ {ch.user1, ch.user2} : users[id] = user_by_id[id]
<1>1. TypeOK /\ IsTree(user_by_id, Ids, UserInfos)
  BY DEF LoginInv, TypeOK, ServerTypeOK
<1>2. bonus \in Nat /\ penalty \in Nat
  BY RuleAssumption
<1>3. IsTree(users, Ids, UserInfos)
  BY <1>1, <1>2, EndBattleType
<1>4. SameUsers(users)
  BY <1>1, EndBattleSame
<1> DEFINE loser == IF winner = ch.user1 THEN ch.user2 ELSE ch.user1
           won == [user_by_id EXCEPT ![winner] = Settle(@, bonus)]
           ended == [won EXCEPT ![loser] = Settle(@, - penalty)]
<1>5. users = ended
  BY DEF EndBattle
<1>6. /\ winner \in DOMAIN user_by_id /\ loser \in DOMAIN user_by_id
      /\ winner \in {ch.user1, ch.user2} /\ loser \in {ch.user1, ch.user2}
  OBVIOUS
<1> HIDE DEF loser
<1>7. \A user \in UserInfos : \A points \in Int :
        user.state # "UOFFLINE" => Settle(user, points).state # "UOFFLINE"
  BY DEF Settle, UserInfos
<1>8. \A id \in DOMAIN user_by_id : user_by_id[id] \in UserInfos
                                    /\ user_by_id[id].state # "UOFFLINE"
  BY <1>1 DEF IsTree, Awake
<1>9. /\ DOMAIN won = DOMAIN user_by_id
      /\ \A id \in DOMAIN user_by_id : won[id] \in UserInfos /\ won[id].state # "UOFFLINE"
      /\ \A id \in DOMAIN user_by_id \ {winner} : won[id] = user_by_id[id]
  <2>1. Settle(user_by_id[winner], bonus) \in UserInfos
        /\ Settle(user_by_id[winner], bonus).state # "UOFFLINE"
    BY <1>2, <1>6, <1>7, <1>8, SettleType
  <2> QED
    BY <1>6, <1>8, <2>1
<1> HIDE DEF won
<1>10. /\ DOMAIN ended = DOMAIN user_by_id
       /\ \A id \in DOMAIN user_by_id : ended[id].state # "UOFFLINE"
       /\ \A id \in DOMAIN user_by_id \ {loser} : ended[id] = won[id]
  <2>1. Settle(won[loser], - penalty).state # "UOFFLINE"
    BY <1>2, <1>6, <1>7, <1>9
  <2> QED
    BY <1>6, <1>9, <2>1
<1> HIDE DEF ended
<1> QED
  BY <1>3, <1>4, <1>5, <1>6, <1>9, <1>10 DEF Awake

(* judge_turn tells of what it does. *)
LEMMA JudgeTold ==
  ASSUME LoginInv, RosterInv, NEW fd \in Fds,
         NEW c \in ChIds, NEW ch \in ChallengeRecs, NEW force_lose_id,
         NEW damage \in Damages \cup {0}, NEW bonus \in Bonuses, NEW penalty \in Penalties,
         NEW left, left = judge_turn(c, ch, force_lose_id, damage, bonus, penalty)
  PROVE  Told(fd, DOMAIN user_by_fd, left.users, left.down)
<1>1. Awake(user_by_id) /\ Told(fd, DOMAIN user_by_fd, user_by_id, down) /\ TypeOK
  BY ToldNothing DEF RosterInv, LoginInv
<1>2. PICK after, winner, r, sent1, sent, users :
        /\ after = AfterTurn(ch, damage)
        /\ winner = Winner(after, force_lose_id)
        /\ r = TurnR(ch, after, winner)
        /\ sent1 = Send(down, user_by_id[ch.user1].fd, r)
        /\ sent = Send(sent1, user_by_id[ch.user2].fd, r)
        /\ users = EndBattle(user_by_id, after, winner, bonus, penalty)
  OBVIOUS
<1>3. CASE ~ ({ch.user1, ch.user2} \subseteq DOMAIN user_by_id)
  <2>1. left.users = user_by_id /\ left.down = down
    BY <1>3 DEF judge_turn
  <2> QED
    BY <1>1, <2>1
<1>4. CASE {ch.user1, ch.user2} \subseteq DOMAIN user_by_id
  <2>0. damage \in Nat
    BY RuleAssumption
  <2>1. after \in ChallengeRecs /\ after.user1 = ch.user1 /\ after.user2 = ch.user2
    BY <1>2, <2>0, AfterTurnType
  <2>2. winner \in {ch.user1, ch.user2, NoId} /\ winner \in AnyId
    BY <1>2, <2>1, WinnerType DEF ChallengeRecs, AnyId
  <2>3. r \in DownMsgs /\ r.kind = "TURN_R"
    BY <1>2, <2>1, <2>2, TurnRType DEF TurnR
  <2>4. /\ user_by_id[ch.user1].fd \in DOMAIN user_by_fd
        /\ user_by_id[ch.user2].fd \in DOMAIN user_by_fd
    BY <1>4, KnownFds
  <2>5. Told(fd, DOMAIN user_by_fd, user_by_id, sent1)
    BY <1>1, <1>2, <2>3, <2>4, SendMore
  <2>6. Told(fd, DOMAIN user_by_fd, user_by_id, sent)
    BY <1>2, <2>3, <2>4, <2>5, SendMore
  <2>7. CASE winner = NoId
    <3>1. left.users = user_by_id /\ left.down = sent
      BY <1>2, <1>4, <2>7 DEF judge_turn
    <3> QED
      BY <2>6, <3>1
  <2>8. CASE winner # NoId
    <3>1. /\ left.users = users
          /\ left.down = broadcast_user_changes(sent, users, {ch.user1, ch.user2})
      BY <1>2, <1>4, <2>8 DEF judge_turn
    <3>2. /\ after.user1 \in DOMAIN user_by_id /\ after.user2 \in DOMAIN user_by_id
          /\ winner = after.user1 \/ winner = after.user2
      BY <1>4, <2>1, <2>2, <2>8
    <3>3. /\ IsTree(users, Ids, UserInfos) /\ SameUsers(users) /\ Awake(users)
          /\ \A id \in DOMAIN user_by_id \ {after.user1, after.user2} :
               users[id] = user_by_id[id]
      BY <1>1, <1>2, <2>1, <3>2, EndBattleAwake
    <3>4. PICK ids \in SUBSET DOMAIN user_by_id : ids = {ch.user1, ch.user2}
      BY <1>4
    <3>5. Told(fd, DOMAIN user_by_fd, users, broadcast_user_changes(sent, users, ids))
      BY <2>1, <2>6, <3>3, <3>4, ChangesTold
    <3> QED
      BY <3>1, <3>4, <3>5
  <2> QED
    BY <2>7, <2>8
<1> QED
  BY <1>3, <1>4

LEMMA TurnJudgedRoster ==
  ASSUME LoginInv, RosterInv, NEW fd \in Fds, HandleTurnJudged(fd), UNCHANGED session
  PROVE  RosterInv'
<1>1. TypeOK
  BY DEF LoginInv
<1>2. PICK m : m = Head(up[fd])
  OBVIOUS
<1>3. /\ m.chid \in ChIds /\ NotedBy(m) \in ChallengeRecs
      /\ Takes(fd, "TURN") /\ user_by_fd' = user_by_fd
  BY <1>1, <1>2, TurnFacts DEF HandleTurnJudged
<1>4. PICK damage \in Damages, bonus \in Bonuses, penalty \in Penalties :
        LET left == judge_turn(m.chid, NotedBy(m), NoId, damage, bonus, penalty)
        IN  user_by_id' = left.users /\ down' = left.down
  BY <1>2 DEF HandleTurnJudged
<1>5. PICK left : left = judge_turn(m.chid, NotedBy(m), NoId, damage, bonus, penalty)
  OBVIOUS
<1>6. Told(fd, DOMAIN user_by_fd, left.users, left.down)
  BY <1>3, <1>5, JudgeTold
<1> QED
  BY <1>3, <1>4, <1>5, <1>6, ToldRoster
----------------------------------------------------------------------------
(* A user that leaves: the others are told, and its own session, which     *)
(* would take the change for its end, is not known any more.               *)
LEMMA InformsFewer ==
  ASSUME NEW K, NEW F, NEW G, G \subseteq F, NEW d, NEW e, NEW A, NEW B,
         Informs(K, F, d, e, A, B)
  PROVE  Informs(K, G, d, e, A, B)
  BY DEF Informs

LEMMA UpdatedLeaves ==
  ASSUME NEW all, NEW users, NEW rest, NEW u, DOMAIN rest = DOMAIN all \ {u},
         \A id \in DOMAIN rest : rest[id] = all[id], users[u].state = "UOFFLINE"
  PROVE  Updated(Roster(all), Part(users, {u})) = Roster(rest)
<1>1. Updated(Part(all, DOMAIN all), Part(users, {u})) = Part(rest, DOMAIN rest)
  BY UpdatedPart
<1> QED
  BY <1>1 DEF Roster

LEMMA LeaveTold ==
  ASSUME LoginInv, NEW fd \in Fds, NEW all, NEW d, Told(fd, DOMAIN user_by_fd, all, d),
         IsTree(all, Ids, UserInfos), SameUsers(all), NEW u \in DOMAIN user_by_id,
         NEW users, DOMAIN users = DOMAIN user_by_id, users[u].state = "UOFFLINE",
         users[u].fd = all[u].fd, users[u] \in UserInfos,
         \A id \in DOMAIN user_by_id \ {u} : users[id] = all[id], IsTree(users, Ids, UserInfos)
  PROVE  Told(fd, DOMAIN user_by_fd \ {u}, tdelete(users, u),
              broadcast_user_changes(d, users, {u}))
<1>1. PICK K \in SUBSET Fds, F \in SUBSET Fds, G \in SUBSET Fds :
        /\ K = DOMAIN user_by_fd \cup {fd} /\ F = DOMAIN user_by_fd
        /\ G = DOMAIN user_by_fd \ {u}
  BY KnownFds
<1>2. PICK A, B, C, rest : /\ A = Roster(user_by_id) /\ B = Roster(all)
                           /\ rest = tdelete(users, u) /\ C = Roster(rest)
  OBVIOUS
<1>3. Informs(K, F, down, d, A, B) /\ d \in [Fds -> Seq(DownMsgs)] /\ Awake(all)
  BY <1>1, <1>2 DEF Told, Informs
<1>4. DOMAIN all = DOMAIN user_by_id
  BY DEF SameUsers
<1>5. FdsOf(users) = F
  <2>1. \A id \in DOMAIN user_by_id : users[id].fd = user_by_id[id].fd
    BY DEF SameUsers
  <2>2. FdsOf(users) = FdsOf(user_by_id)
    BY <2>1 DEF FdsOf
  <2> QED
    BY <1>1, <2>2, KnownFds
<1>6. /\ DOMAIN rest = DOMAIN user_by_id \ {u}
      /\ \A id \in DOMAIN rest : rest[id] = all[id]
  BY <1>2 DEF tdelete
<1>7. Awake(rest)
  BY <1>3, <1>4, <1>6 DEF Awake
<1>8. C = Updated(B, Part(users, {u}))
  <2>1. Updated(Roster(all), Part(users, {u})) = Roster(rest)
    BY <1>4, <1>6, UpdatedLeaves
  <2> QED
    BY <1>2, <2>1
<1>9. PICK ids \in SUBSET DOMAIN users : ids = {u}
  OBVIOUS
<1>10. /\ FdsOf(users) \subseteq K /\ G \subseteq FdsOf(users)
       /\ \A f \in G : f \in ids => users[f].state # "UOFFLINE"
       /\ C = Updated(B, Part(users, ids)) /\ G \subseteq F
  BY <1>1, <1>5, <1>8, <1>9
<1>11. Informs(K, G, d, broadcast_user_changes(d, users, ids), B, C)
  BY <1>3, <1>10, InformsChanges
<1>12. Informs(K, G, down, d, A, B)
  BY <1>3, <1>10, InformsFewer
<1>13. Informs(K, G, down, broadcast_user_changes(d, users, ids), A, C)
  BY <1>11, <1>12, InformsTrans
<1> QED
  BY <1>1, <1>2, <1>7, <1>9, <1>13 DEF Told

LEMMA QuitUserRoster ==
  ASSUME LoginInv, RosterInv, NEW fd \in Fds, NEW kind, Takes(fd, kind),
         kind \in {"JOIN", "EDISCONN"} => fd \in DOMAIN user_by_fd,
         NEW u \in DOMAIN user_by_id, quit_user(u), UNCHANGED session
  PROVE  RosterInv'
<1>1. TypeOK
  BY DEF LoginInv
<1>2. PICK user : user = user_by_id[u]
  OBVIOUS
<1> DEFINE Left(bonus, penalty) ==
             IF Fights(u)
               THEN judge_turn(user.chid, ch_by_id[user.chid], u, 0, bonus, penalty)
               ELSE [users |-> user_by_id, chs |-> ch_by_id, down |-> down,
                     server |-> server]
<1>3. PICK bonus \in Bonuses, penalty \in Penalties :
        LET left == Left(bonus, penalty)
            users == [left.users EXCEPT ![u].state = "UOFFLINE"]
        IN  /\ down' = broadcast_user_changes(left.down, users, {u})
            /\ user_by_id' = tdelete(users, u)
            /\ user_by_fd' = tdelete(user_by_fd, user.fd)
  BY <1>2 DEF quit_user
<1>4. PICK left : left = Left(bonus, penalty)
  OBVIOUS
<1>5. PICK users : users = [left.users EXCEPT ![u].state = "UOFFLINE"]
  OBVIOUS
<1>6. /\ down' = broadcast_user_changes(left.down, users, {u})
      /\ user_by_id' = tdelete(users, u)
      /\ user_by_fd' = tdelete(user_by_fd, user.fd)
  BY <1>3, <1>4, <1>5
<1>7. /\ Told(fd, DOMAIN user_by_fd, left.users, left.down)
      /\ IsTree(left.users, Ids, UserInfos) /\ SameUsers(left.users)
  <2>1. CASE Fights(u)
    <3>1. PICK c \in ChIds, ch \in ChallengeRecs : c = user.chid /\ ch = ch_by_id[user.chid]
      BY <1>1, <1>2, <2>1 DEF Fights, TypeOK, ServerTypeOK, IsTree
    <3>2. left = judge_turn(c, ch, u, 0, bonus, penalty)
      BY <1>4, <2>1, <3>1
    <3>3. JudgedOK(left) /\ JudgedSame(left)
      BY <1>1, <3>2, JudgeType, JudgeSame
    <3>4. Told(fd, DOMAIN user_by_fd, left.users, left.down)
      BY <3>2, JudgeTold
    <3> QED
      BY <3>3, <3>4 DEF JudgedOK, JudgedSame
  <2>2. CASE ~ Fights(u)
    <3>1. left.users = user_by_id /\ left.down = down
      BY <1>4, <2>2
    <3>2. SameUsers(user_by_id) /\ IsTree(user_by_id, Ids, UserInfos)
      BY <1>1 DEF SameUsers, TypeOK, ServerTypeOK
    <3> QED
      BY <3>1, <3>2, ToldNothing
  <2> QED
    BY <2>1, <2>2
<1>8. /\ DOMAIN users = DOMAIN user_by_id /\ users[u].state = "UOFFLINE"
      /\ users[u].fd = left.users[u].fd /\ users[u] \in UserInfos
      /\ \A id \in DOMAIN user_by_id \ {u} : users[id] = left.users[id]
  <2>1. left.users[u] \in UserInfos /\ DOMAIN left.users = DOMAIN user_by_id
    BY <1>7 DEF IsTree, SameUsers
  <2> QED
    BY <1>5, <2>1 DEF UserInfos, UserStates
<1>9. IsTree(users, Ids, UserInfos)
  <2>1. PICK v : v = [left.users[u] EXCEPT !.state = "UOFFLINE"]
    OBVIOUS
  <2>2. u \in DOMAIN left.users
    BY <1>7 DEF SameUsers
  <2>3. users = [left.users EXCEPT ![u] = v]
    BY <1>5, <2>1
  <2>4. v \in UserInfos
    BY <1>8, <2>2, <2>3
  <2> QED
    BY <1>7, <2>2, <2>3, <2>4, UpdateTree
<1>10. Told(fd, DOMAIN user_by_fd \ {u}, user_by_id', down')
  BY <1>6, <1>7, <1>8, <1>9, LeaveTold
<1>11. DOMAIN user_by_fd' = DOMAIN user_by_fd \ {u}
  <2>1. user.fd = u
    BY <1>2, KnownFds
  <2> QED
    BY <1>6, <2>1 DEF tdelete
<1>12. /\ Informs(DOMAIN user_by_fd \cup {fd}, DOMAIN user_by_fd', down, down',
                  Roster(user_by_id), Roster(user_by_id'))
       /\ Awake(user_by_id') /\ DOMAIN user_by_fd' \subseteq DOMAIN user_by_fd
  BY <1>10, <1>11 DEF Told
<1> QED
  BY <1>12, TellsRoster
----------------------------------------------------------------------------
(* The joins.  A connection that is told of somebody else's. *)
LEMMA ViewHears ==
  ASSUME LoginInv, RosterInv, NEW f \in Fds, NEW e, NoAnswers(down[f], e), NEW users,
         f \notin DOMAIN user_by_fd => e = down[f],
         f \in DOMAIN user_by_fd => Hears(f, down[f], e, Roster(user_by_id), Roster(users)),
         NEW known \in BOOLEAN, known => f \in DOMAIN user_by_fd
  PROVE  ViewAt(f, up[f], e, session[f], users, known)
<1>1. JoinOnceAt(up[f], down[f], session[f].phase, f \in DOMAIN user_by_fd)
  BY JoinOnceIsAt DEF LoginInv
<1>2. /\ Begins(up[f], down[f], session[f]) /\ OwnId(f, down[f], session[f])
      /\ f \in DOMAIN user_by_fd => /\ Enters(down[f], session[f])
                                    /\ Sees(f, down[f], session[f], user_by_id)
  BY DEF RosterInv, ViewAt
<1>3. session[f] \in Sessions
  BY DEF LoginInv, TypeOK, ClientTypeOK
<1>4. ASSUME Early(up[f], e, session[f])
      PROVE  Early(up[f], down[f], session[f]) /\ e = down[f]
  <2>1. Early(up[f], down[f], session[f])
    BY <1>4, EarlyBefore
  <2> QED
    BY <1>1, <2>1, EarlyUnknown
<1>5. Begins(up[f], e, session[f])
  BY <1>2, <1>4, BeginsKeeps
<1>6. OwnId(f, e, session[f])
  BY <1>2, AdmitsKeeps DEF OwnId
<1>7. ASSUME f \in DOMAIN user_by_fd
      PROVE  Enters(e, session[f]) /\ Sees(f, e, session[f], users)
  BY <1>2, <1>3, <1>7, SeesHears
<1> QED
  BY <1>5, <1>6, <1>7 DEF ViewAt

(* A JOIN that the handler takes: nothing has been sent to its connection  *)
(* that it has not read, and its list is empty.                            *)
LEMMA JoinWaits ==
  ASSUME LoginInv, RosterInv, NEW fd \in Fds, Takes(fd, "JOIN")
  PROVE  /\ fd \notin DOMAIN user_by_fd /\ down[fd] = <<>>
         /\ session[fd].user_by_id = {} /\ session[fd].phase \in {"WAIT_MSG", "GONE"}
         /\ OwnId(fd, down[fd], session[fd])
         /\ \A i \in DOMAIN up'[fd] : up'[fd][i].kind \in {"JOIN", "EDISCONN"}
<1>1. TypeOK /\ JoinOnce /\ session[fd].phase \in Phases /\ down[fd] \in Seq(DownMsgs)
  BY DEF LoginInv, TypeOK, ClientTypeOK, Sessions, ChannelsTypeOK
<1>2. JoinOnceAt(up[fd], down[fd], session[fd].phase, fd \in DOMAIN user_by_fd)
  BY <1>1, JoinOnceIsAt
<1>3. Has(up[fd], "JOIN")
  BY <1>1, <1>2, UpAfterTakes DEF JoinOnceAt
<1>4. Begins(up[fd], down[fd], session[fd]) /\ OwnId(fd, down[fd], session[fd])
  BY DEF RosterInv, ViewAt
<1>5. /\ session[fd].user_by_id = {} /\ session[fd].phase \notin {"MAIN", "DONE"}
      /\ \A i \in DOMAIN up[fd] : up[fd][i].kind \in {"JOIN", "EDISCONN"}
      /\ \A i \in DOMAIN down[fd] : down[fd][i].kind = "JOIN_R"
  BY <1>3, <1>4 DEF Begins, Early
<1>6. /\ ~ Has(down[fd], "JOIN_R") /\ fd \notin DOMAIN user_by_fd
      /\ session[fd].phase \notin {"LOGIN", "RETRY"}
  BY <1>2, <1>3 DEF JoinOnceAt
<1>7. down[fd] = <<>>
  <2>1. \A i \in DOMAIN down[fd] : FALSE
    BY <1>5, <1>6 DEF Has
  <2>2. down[fd] # <<>> => 1 \in DOMAIN down[fd]
    BY <1>1
  <2> QED
    BY <2>1, <2>2
<1>8. \A i \in DOMAIN up'[fd] : \E j \in DOMAIN up[fd] : up'[fd][i] = up[fd][j]
  BY <1>1, TakenFrom
<1>9. session[fd].phase \in {"WAIT_MSG", "GONE"}
  BY <1>1, <1>5, <1>6 DEF Phases
<1>10. \A i \in DOMAIN up'[fd] : up'[fd][i].kind \in {"JOIN", "EDISCONN"}
  BY <1>5, <1>8
<1> QED
  BY <1>4, <1>5, <1>6, <1>7, <1>9, <1>10

LEMMA JoinRefusedRoster ==
  ASSUME LoginInv, RosterInv, NEW fd \in Fds, HandleJoinRefused(fd), UNCHANGED session
  PROVE  RosterInv'
<1>1. /\ down \in [Fds -> Seq(DownMsgs)] /\ Takes(fd, "JOIN") /\ TypeOK
      /\ UNCHANGED <<user_by_id, user_by_fd>>
  BY DEF LoginInv, TypeOK, ChannelsTypeOK, HandleJoinRefused, serverVars, trees
<1>2. PICK r : r.kind = "JOIN_R" /\ r.error # "ME_OK" /\ down' = Send(down, fd, r)
  <2>1. PICK err : err # "ME_OK" /\ down' = Send(down, fd, JoinR(err, NoId, 0))
    BY DEF HandleJoinRefused
  <2> QED
    BY <2>1 DEF JoinR
<1>3. /\ fd \notin DOMAIN user_by_fd /\ down[fd] = <<>>
      /\ session[fd].user_by_id = {} /\ session[fd].phase \in {"WAIT_MSG", "GONE"}
      /\ OwnId(fd, down[fd], session[fd])
      /\ \A i \in DOMAIN up'[fd] : up'[fd][i].kind \in {"JOIN", "EDISCONN"}
  BY <1>1, JoinWaits
<1>4. down'[fd] = <<r>> /\ \A f \in Fds : f # fd => down'[f] = down[f]
  BY <1>1, <1>2, <1>3 DEF Send
<1>5. ASSUME NEW f \in Fds
      PROVE  ViewAt(f, up'[f], down'[f], session'[f], user_by_id', f \in DOMAIN user_by_fd')
  <2>1. CASE f = fd
    <3>1. Begins(up'[fd], down'[fd], session[fd])
      BY <1>2, <1>3, <1>4 DEF Begins
    <3>2. OwnId(fd, down'[fd], session[fd])
      BY <1>2, <1>3, <1>4 DEF OwnId, Admits
    <3> QED
      BY <1>1, <1>3, <2>1, <3>1, <3>2 DEF ViewAt
  <2>2. CASE f # fd
    <3>1. up'[f] = up[f] /\ down'[f] = down[f]
      BY <1>1, <1>4, <2>2, UpAfterTakes
    <3>2. ViewAt(f, up[f], down[f], session[f], user_by_id, f \in DOMAIN user_by_fd)
      BY DEF RosterInv
    <3> QED
      BY <1>1, <3>1, <3>2
  <2> QED
    BY <2>1, <2>2
<1>6. Awake(user_by_id')
  BY <1>1 DEF RosterInv
<1> QED
  BY <1>5, <1>6, RosterInvNext

LEMMA Preceded ==
  ASSUME NEW S, NEW j \in S, NEW a \in Seq(S)
  PROVE  /\ <<j>> \in Seq(S) /\ <<j>> # <<>> /\ Head(<<j>>) = j /\ Tail(<<j>>) = <<>>
         /\ <<j>> \o a \in Seq(S) /\ <<j>> \o a # <<>> /\ Head(<<j>> \o a) = j
         /\ \A i \in DOMAIN (<<j>> \o a) :
              (<<j>> \o a)[i] = j \/ \E k \in DOMAIN a : (<<j>> \o a)[i] = a[k]
<1>1. <<j>> \in Seq(S) /\ <<j>> # <<>> /\ Head(<<j>>) = j /\ Tail(<<j>>) = <<>>
      /\ Len(<<j>>) = 1 /\ <<j>>[1] = j
  OBVIOUS
<1>2. PICK h \in Seq(S) : h = <<j>>
  BY <1>1
<1>3. PICK q : q = h \o a
  OBVIOUS
<1>4. Len(h) = 1 /\ h[1] = j
  BY <1>1, <1>2
<1>5. /\ q \in Seq(S) /\ Len(q) = 1 + Len(a) /\ Len(a) \in Nat /\ DOMAIN a = 1 .. Len(a)
      /\ DOMAIN q = 1 .. 1 + Len(a)
      /\ \A i \in 1 .. 1 + Len(a) : q[i] = IF i <= 1 THEN h[i] ELSE a[i - 1]
  <2> DEFINE w == h \o a
  <2>1. /\ w \in Seq(S) /\ DOMAIN a = 1 .. Len(a) /\ Len(a) \in Nat /\ Len(h) \in Nat
        /\ Len(w) = Len(h) + Len(a) /\ DOMAIN w = 1 .. Len(h) + Len(a)
        /\ \A i \in 1 .. Len(h) + Len(a) : w[i] = IF i <= Len(h) THEN h[i] ELSE a[i - Len(h)]
    OBVIOUS
  <2>2. q = w
    BY <1>3
  <2> HIDE DEF w
  <2> QED
    BY <1>4, <2>1, <2>2
<1>6. q # <<>> /\ Head(q) = j
  BY <1>4, <1>5
<1>7. ASSUME NEW i \in DOMAIN q PROVE q[i] = j \/ \E k \in DOMAIN a : q[i] = a[k]
  <2>1. CASE i = 1
    BY <1>4, <1>5, <2>1
  <2>2. CASE i # 1
    <3>1. i - 1 \in DOMAIN a /\ q[i] = a[i - 1]
      BY <1>5, <2>2
    <3> QED
      BY <3>1
  <2> QED
    BY <2>1, <2>2
<1> QED
  BY <1>1, <1>2, <1>3, <1>5, <1>6, <1>7

(* What the new user is told. *)
Welcomes(fd, j, q, users) ==
  /\ q \in Seq(DownMsgs) /\ q # <<>> /\ Head(q) = j
  /\ \A i \in DOMAIN q : q[i] = j \/ q[i].kind = "UCHANGE"
  /\ Lasts(fd, q)
  /\ ListAfter({}, q) = Roster(users)

LEMMA FirstList ==
  ASSUME NEW users, IsTree(users, Ids, UserInfos), Awake(users), NEW fd \in Fds,
         NEW j \in DownMsgs, j.kind = "JOIN_R", NEW q, q = <<j>> \o AllUsers(users)
  PROVE  Welcomes(fd, j, q, users)
<1>1. PICK a \in Seq(DownMsgs) : a = AllUsers(users)
  BY AllUsersType
<1>2. PICK h \in Seq(DownMsgs) : /\ h = <<j>> /\ h # <<>> /\ Head(h) = j /\ Tail(h) = <<>>
  BY <1>1, Preceded
<1>3. /\ q \in Seq(DownMsgs) /\ q # <<>> /\ Head(q) = j
      /\ \A i \in DOMAIN q : q[i] = j \/ \E k \in DOMAIN a : q[i] = a[k]
  BY <1>1, Preceded
<1>4. \A k \in DOMAIN a : /\ a[k].kind = "UCHANGE"
                          /\ \A i \in a[k].users : i.state # "UOFFLINE"
  <2> SUFFICES ASSUME NEW k \in DOMAIN a
               PROVE  a[k].kind = "UCHANGE" /\ \A i \in a[k].users : i.state # "UOFFLINE"
    OBVIOUS
  <2>1. a[k] = Uchange(Chunk(users, k))
    BY <1>1 DEF AllUsers
  <2>2. a[k].kind = "UCHANGE" /\ a[k].users = Chunk(users, k)
    BY <2>1 DEF Uchange
  <2>3. ASSUME NEW i \in Chunk(users, k) PROVE i.state # "UOFFLINE"
    <3>1. PICK id \in DOMAIN users : i = Info(id, users[id])
      BY <2>3 DEF Chunk
    <3> QED
      BY <3>1, InfoIs DEF Awake
  <2> QED
    BY <2>2, <2>3
<1>5. Lasts(fd, q)
  BY <1>3, <1>4 DEF Lasts, Ends
<1>6. ListAfter({}, q) = Roster(users)
  <2>1. PICK l \in SUBSET Infos : l = {}
    OBVIOUS
  <2>2. ListAfter(l, h \o a) = ListAfter(ListAfter(l, h), a)
    BY ListConcat
  <2>3. ListAfter(l, h) = l
    <3>1. Take(l, j) = l
      BY PlainTake
    <3>2. ListAfter(l, h) = ListAfter(Take(l, Head(h)), Tail(h))
      BY <1>2, ListHead
    <3> QED
      BY <1>2, <3>1, <3>2, ListEmpty
  <2>4. ListAfter({}, AllUsers(users)) = Roster(users)
    BY ListOfAll
  <2> QED
    BY <1>1, <1>2, <2>1, <2>2, <2>3, <2>4
<1>7. \A i \in DOMAIN q : q[i] = j \/ q[i].kind = "UCHANGE"
  BY <1>3, <1>4
<1> QED
  BY <1>3, <1>5, <1>6, <1>7 DEF Welcomes

LEMMA JoinOkRoster ==
  ASSUME LoginInv, RosterInv, NEW fd \in Fds, HandleJoinOk(fd), UNCHANGED clientVars
  PROVE  RosterInv'
<1>1. /\ down \in [Fds -> Seq(DownMsgs)] /\ Takes(fd, "JOIN") /\ TypeOK /\ session' = session
      /\ IsTree(user_by_id, Ids, UserInfos) /\ Awake(user_by_id)
  BY DEF LoginInv, TypeOK, ChannelsTypeOK, ServerTypeOK, HandleJoinOk, clientVars, RosterInv
<1>2. PICK nick \in Nicks : nick = Head(up[fd]).nick
  BY <1>1, TakesType, UpKinds DEF TypeOK
<1>3. PICK new \in UserInfos : new = user_create(fd, nick)
  BY NewUserType
<1>4. PICK users : users = Put(user_by_id, fd, new)
  OBVIOUS
<1>5. PICK j, m, told : /\ j = JoinR("ME_OK", fd, fd)
                        /\ m = Uchange({Info(fd, users[fd])})
                        /\ told = [down EXCEPT ![fd] = (@ \o <<j>>) \o AllUsers(users)]
  OBVIOUS
<1>6. /\ user_by_id' = users
      /\ down' = SendAll(told, FdsOf(users) \ {fd}, m)
  BY <1>2, <1>3, <1>4, <1>5, IdFacts DEF HandleJoinOk
<1>7. /\ fd \notin DOMAIN user_by_fd /\ down[fd] = <<>>
      /\ session[fd].user_by_id = {} /\ session[fd].phase \in {"WAIT_MSG", "GONE"}
      /\ OwnId(fd, down[fd], session[fd])
  BY <1>1, JoinWaits
<1>8. fd \notin DOMAIN user_by_id /\ fd \in Ids
  BY <1>7, KnownFds, IdFacts
<1>9. /\ DOMAIN users = DOMAIN user_by_id \cup {fd} /\ users[fd] = new
      /\ \A id \in DOMAIN user_by_id : users[id] = user_by_id[id]
      /\ IsTree(users, Ids, UserInfos)
  <2>1. IsTree(users, Ids, UserInfos)
    BY <1>1, <1>4, <1>8, PutTree
  <2> QED
    BY <1>4, <1>8, <2>1 DEF Put
<1>10. new.state = "UONLINE" /\ new.fd = fd
  BY <1>3 DEF user_create
<1>11. Awake(users)
  BY <1>1, <1>9, <1>10 DEF Awake
<1>12. FdsOf(users) \ {fd} = DOMAIN user_by_fd
  <2>1. FdsOf(users) = FdsOf(user_by_id) \cup {fd}
    BY <1>9, <1>10 DEF FdsOf
  <2> QED
    BY <1>7, <2>1, KnownFds
<1>13. j \in DownMsgs /\ j.kind = "JOIN_R" /\ j.error = "ME_OK" /\ j.id = fd
  BY <1>5, <1>8 DEF JoinR, DownMsgs, AnyId, AnyKey
<1>14. PICK q : q = <<j>> \o AllUsers(users)
  OBVIOUS
<1>15. /\ q \in Seq(DownMsgs) /\ q # <<>> /\ Head(q) = j
       /\ \A i \in DOMAIN q : q[i] = j \/ q[i].kind = "UCHANGE"
       /\ Lasts(fd, q) /\ ListAfter({}, q) = Roster(users)
  <2>1. Welcomes(fd, j, q, users)
    BY <1>9, <1>11, <1>13, <1>14, FirstList
  <2> QED
    BY <2>1 DEF Welcomes
<1>16. told[fd] = q /\ \A f \in Fds : f # fd => told[f] = down[f]
  <2>1. down[fd] \o <<j>> = <<j>>
    BY <1>7, <1>13
  <2> QED
    BY <1>1, <1>5, <1>14, <2>1
<1>17. /\ down'[fd] = q
       /\ \A f \in Fds : f # fd => down'[f] = IF f \in DOMAIN user_by_fd
                                                THEN Append(down[f], m) ELSE down[f]
  BY <1>6, <1>12, <1>16 DEF SendAll
<1>18. DOMAIN user_by_fd' = DOMAIN user_by_fd \cup {fd}
  BY JoinOkIndexes
<1>19. m \in DownMsgs /\ m.kind = "UCHANGE" /\ m = Uchange(Part(users, {fd}))
  <2>1. m = Uchange(Part(users, {fd}))
    BY <1>5 DEF Part
  <2>2. Part(users, {fd}) \in SUBSET Infos
    BY <1>9, InfoType DEF Part
  <2> QED
    BY <2>1, <2>2, UchangeType DEF Uchange
<1>20. \A f : ~ Ends(f, m)
  <2>1. \A i \in Part(users, {fd}) : i.state # "UOFFLINE"
    BY <1>9, <1>10, InfoIs DEF Part
  <2>2. m.users = Part(users, {fd})
    BY <1>19 DEF Uchange
  <2> QED
    BY <2>1, <2>2 DEF Ends
<1>21. Take(Roster(user_by_id), m) = Roster(users)
  <2>1. Updated(Part(user_by_id, DOMAIN user_by_id), Part(users, {fd}))
          = Part(users, DOMAIN users)
    BY <1>8, <1>9, <1>11, UpdatedPart DEF Awake
  <2> QED
    BY <1>19, <2>1, TakePart DEF Roster
<1>22. ASSUME NEW f \in Fds
       PROVE  ViewAt(f, up'[f], down'[f], session'[f], user_by_id', f \in DOMAIN user_by_fd')
  <2>1. CASE f = fd
    <3>1. ~ Early(up'[fd], q, session[fd])
      <4>1. JoinOnce'
        BY JoinOkOnce
      <4>2. JoinOnceAt(up'[fd], down'[fd], session'[fd].phase, fd \in DOMAIN user_by_fd')
        BY <4>1, JoinOnceIsAt
      <4>3. JoinOnceAt(up'[fd], q, session[fd].phase, TRUE)
        BY <1>1, <1>17, <1>18, <4>2
      <4> QED
        BY <4>3, EarlyUnknown
    <3>2. Begins(up'[fd], q, session[fd])
      BY <3>1 DEF Begins
    <3>3. OwnId(fd, q, session[fd])
      BY <1>7, <1>13, <1>15 DEF OwnId, Admits
    <3>4. Enters(q, session[fd]) /\ Sees(fd, q, session[fd], users)
      BY <1>7, <1>13, <1>15 DEF Enters, Sees
    <3> QED
      BY <1>1, <1>6, <1>17, <2>1, <3>2, <3>3, <3>4 DEF ViewAt
  <2>2. CASE f # fd
    <3>1. down[f] \in Seq(DownMsgs)
      BY <1>1
    <3>2. /\ NoAnswers(down[f], down[f]) /\ NoAnswers(down[f], Append(down[f], m))
      BY <1>19, <3>1, NoAnswersAppend DEF NoAnswers
    <3>3. Hears(f, down[f], Append(down[f], m), Roster(user_by_id), Roster(users))
      BY <1>19, <1>20, <1>21, <3>1, HearsAppend
    <3>4. ViewAt(f, up[f], down'[f], session[f], users, f \in DOMAIN user_by_fd')
      <4>1. PICK e : e = down'[f]
        OBVIOUS
      <4>2. CASE f \in DOMAIN user_by_fd
        <5>1. ViewAt(f, up[f], e, session[f], users, TRUE)
          BY <1>17, <2>2, <3>2, <3>3, <4>1, <4>2, ViewHears
        <5> QED
          BY <1>18, <4>1, <4>2, <5>1
      <4>3. CASE f \notin DOMAIN user_by_fd
        <5>1. ViewAt(f, up[f], e, session[f], users, FALSE)
          BY <1>17, <2>2, <3>2, <4>1, <4>3, ViewHears
        <5> QED
          BY <1>18, <2>2, <4>1, <4>3, <5>1 DEF ViewAt
      <4> QED
        BY <4>2, <4>3
    <3>5. up'[f] = up[f]
      BY <1>1, <2>2, UpAfterTakes
    <3> QED
      BY <1>1, <1>6, <3>4, <3>5
  <2> QED
    BY <2>1, <2>2
<1> QED
  BY <1>6, <1>11, <1>22, RosterInvNext

(* Every handler of pkt_handler keeps the invariant. *)
LEMMA HandlerRoster ==
  ASSUME LoginInv, RosterInv, NEW fd \in Fds, pkt_handler(fd), UNCHANGED clientVars
  PROVE  RosterInv'
<1>1. UNCHANGED session /\ IndexesAgree
  BY DEF clientVars, LoginInv
<1>2. CASE HandleJoinOk(fd)
  BY <1>2, JoinOkRoster
<1>3. CASE HandleJoinRefused(fd)
  BY <1>1, <1>3, JoinRefusedRoster
<1>4. CASE HandleQuit(fd)
  <2>1. CASE Known(Head(up[fd]).id, Head(up[fd]).key)
    <3>1. PICK u \in DOMAIN user_by_id : quit_user(u)
      BY <1>4, <2>1 DEF HandleQuit, Known
    <3>2. Takes(fd, "QUIT")
      BY <1>4 DEF HandleQuit
    <3> QED
      BY <1>1, <3>1, <3>2, QuitUserRoster
  <2>2. CASE ~ Known(Head(up[fd]).id, Head(up[fd]).key)
    BY <1>1, <1>4, <2>2, SilentRoster
  <2> QED
    BY <2>1, <2>2
<1>5. CASE HandleDisconnect(fd)
  <2>1. fd \in DOMAIN user_by_fd /\ Takes(fd, "EDISCONN")
    BY <1>5 DEF HandleDisconnect
  <2>2. PICK u \in DOMAIN user_by_id : quit_user(u)
    BY <1>1, <1>5, <2>1 DEF HandleDisconnect, IndexesAgree
  <2> QED
    BY <1>1, <2>1, <2>2, QuitUserRoster
<1>6. CASE \/ HandleChallengeIgnored(fd) \/ HandleStartNoId(fd)
           \/ HandleDisconnectUnknown(fd) \/ HandleTurnIgnored(fd)
           \/ HandleTurnFirst(fd)
  BY <1>1, <1>6, SilentRoster
<1>7. CASE HandleChallengeError(fd)
  BY <1>1, <1>7, ChallengeErrorRoster
<1>8. CASE HandleStart(fd)
  BY <1>1, <1>8, StartRoster
<1>9. CASE HandleCancel(fd)
  BY <1>1, <1>9, CancelRoster
<1>10. CASE HandleAccept(fd)
  BY <1>1, <1>10, AcceptRoster
<1>11. CASE HandleReject(fd)
  BY <1>1, <1>11, RejectRoster
<1>12. CASE HandleTurnJudged(fd)
  BY <1>1, <1>12, TurnJudgedRoster
<1>13. CASE HandleSendmsg(fd)
  BY <1>1, <1>13, SendmsgRoster
<1> QED
  BY <1>2, <1>3, <1>4, <1>5, <1>6, <1>7, <1>8, <1>9, <1>10, <1>11, <1>12, <1>13
     DEF pkt_handler
----------------------------------------------------------------------------
(* The clients' steps. *)
LEMMA SessionRoster ==
  ASSUME RosterInv, NEW fd \in Fds, UNCHANGED serverVars,
         \A f \in Fds \ {fd} : /\ up'[f] = up[f] /\ down'[f] = down[f]
                               /\ session'[f] = session[f],
         ViewAt(fd, up'[fd], down'[fd], session'[fd], user_by_id, fd \in DOMAIN user_by_fd)
  PROVE  RosterInv'
<1>1. user_by_id' = user_by_id /\ user_by_fd' = user_by_fd
  BY DEF serverVars, trees
<1>2. Awake(user_by_id')
  BY <1>1 DEF RosterInv
<1>3. ASSUME NEW f \in Fds
      PROVE  ViewAt(f, up'[f], down'[f], session'[f], user_by_id', f \in DOMAIN user_by_fd')
  <2>1. CASE f = fd
    BY <1>1, <2>1
  <2>2. CASE f # fd
    <3>1. ViewAt(f, up[f], down[f], session[f], user_by_id, f \in DOMAIN user_by_fd)
      BY DEF RosterInv
    <3> QED
      BY <1>1, <2>2, <3>1
  <2> QED
    BY <2>1, <2>2
<1> QED
  BY <1>2, <1>3, RosterInvNext

(* A session in ui_main is past its login. *)
LEMMA MainIsLate ==
  ASSUME NEW u, NEW v, NEW d, NEW e, NEW s, NEW t, Begins(u, d, s), s.phase = "MAIN",
         t.phase \in {"MAIN", "DONE"}, Has(v, "JOIN") => Has(u, "JOIN"),
         Refused(e) => Refused(d)
  PROVE  Begins(v, e, t)
<1>1. ~ Early(u, d, s)
  BY DEF Begins
<1>2. ~ Early(v, e, t)
  BY <1>1 DEF Early
<1> QED
  BY <1>2 DEF Begins

(* The keys of the main screen. *)
LEMMA MainKeyRoster ==
  ASSUME LoginInv, RosterInv, NEW fd \in Fds, NEW m, m.kind # "JOIN", up' = Send(up, fd, m),
         UNCHANGED <<down, serverVars>>, session[fd].phase = "MAIN",
         NEW s, session' = [session EXCEPT ![fd] = s],
         s.phase \in {"MAIN", "DONE"}, s.id = session[fd].id,
         s.user_by_id = session[fd].user_by_id
  PROVE  RosterInv'
<1>1. /\ up \in [Fds -> Seq(UpMsgs)] /\ up[fd] \in Seq(UpMsgs) /\ session \in [Fds -> Sessions]
  BY DEF LoginInv, TypeOK, ChannelsTypeOK, ClientTypeOK
<1>2. /\ up'[fd] = Append(up[fd], m) /\ session'[fd] = s /\ down' = down
      /\ \A f \in Fds \ {fd} : up'[f] = up[f] /\ session'[f] = session[f]
  BY <1>1 DEF Send
<1>3. Has(up'[fd], "JOIN") => Has(up[fd], "JOIN")
  BY <1>1, <1>2, AppendHas
<1>4. /\ Begins(up[fd], down[fd], session[fd]) /\ OwnId(fd, down[fd], session[fd])
      /\ fd \in DOMAIN user_by_fd => Sees(fd, down[fd], session[fd], user_by_id)
  BY DEF RosterInv, ViewAt
<1>5. Begins(up'[fd], down[fd], s)
  BY <1>3, <1>4, MainIsLate
<1>6. OwnId(fd, down[fd], s) /\ Enters(down[fd], s)
  BY <1>4 DEF OwnId, Enters
<1>7. fd \in DOMAIN user_by_fd => Sees(fd, down[fd], s, user_by_id)
  BY <1>4 DEF Sees
<1>8. ViewAt(fd, up'[fd], down'[fd], session'[fd], user_by_id, fd \in DOMAIN user_by_fd)
  BY <1>2, <1>5, <1>6, <1>7 DEF ViewAt
<1> QED
  BY <1>2, <1>8, SessionRoster

LEMMA LoginRoster ==
  ASSUME LoginInv, RosterInv, NEW fd \in Fds, NEW nick, Login(fd, nick), UNCHANGED serverVars
  PROVE  RosterInv'
<1>1. /\ up \in [Fds -> Seq(UpMsgs)] /\ up[fd] \in Seq(UpMsgs)
      /\ session \in [Fds -> Sessions] /\ session[fd] \in Sessions
  BY DEF LoginInv, TypeOK, ChannelsTypeOK, ClientTypeOK
<1>2. PICK s : s = [session[fd] EXCEPT !.phase = "WAIT_MSG"]
  OBVIOUS
<1>3. s.phase = "WAIT_MSG" /\ s.id = session[fd].id /\ s.user_by_id = session[fd].user_by_id
  BY <1>1, <1>2 DEF Sessions
<1>4. /\ up'[fd] = Append(up[fd], Join(nick)) /\ down' = down /\ session'[fd] = s
      /\ \A f \in Fds \ {fd} : up'[f] = up[f] /\ session'[f] = session[f]
      /\ session[fd].phase \in {"LOGIN", "RETRY"}
  BY <1>1, <1>2 DEF Login, Send
<1>5. fd \notin DOMAIN user_by_fd
  BY <1>4 DEF LoginInv, JoinOnce
<1>6. Begins(up[fd], down[fd], session[fd]) /\ OwnId(fd, down[fd], session[fd])
  BY DEF RosterInv, ViewAt
<1>7. /\ session[fd].user_by_id = {}
      /\ \A i \in DOMAIN up[fd] : up[fd][i].kind \in {"JOIN", "EDISCONN"}
      /\ \A i \in DOMAIN down[fd] : down[fd][i].kind = "JOIN_R"
  BY <1>4, <1>6 DEF Begins, Early
<1>8. \A i \in DOMAIN up'[fd] : up'[fd][i].kind \in {"JOIN", "EDISCONN"}
  <2>0. PICK j : j = Join(nick)
    OBVIOUS
  <2>1. j = Join(nick) /\ j.kind = "JOIN"
    BY <2>0 DEF Join
  <2>2. \A i \in DOMAIN Append(up[fd], j) :
          Append(up[fd], j)[i] = j \/ (i \in DOMAIN up[fd] /\ Append(up[fd], j)[i] = up[fd][i])
    BY <1>1
  <2> QED
    BY <1>4, <1>7, <2>1, <2>2
<1>9. Begins(up'[fd], down[fd], s) /\ OwnId(fd, down[fd], s)
  BY <1>3, <1>6, <1>7, <1>8 DEF Begins, OwnId
<1>10. ViewAt(fd, up'[fd], down'[fd], session'[fd], user_by_id, fd \in DOMAIN user_by_fd)
  BY <1>4, <1>5, <1>9 DEF ViewAt
<1> QED
  BY <1>4, <1>10, SessionRoster

(* A session that changes other fields, or ends. *)
LEMMA SessionLooks ==
  ASSUME NEW s \in Sessions, NEW t,
         \/ \E w : t = [s EXCEPT !.waiting_for = w]
         \/ \E a : t = [s EXCEPT !.acted = a]
         \/ t = [s EXCEPT !.phase = "DONE"]
         \/ t = s
  PROVE  t.phase \in {s.phase, "DONE"} /\ t.id = s.id /\ t.user_by_id = s.user_by_id
  BY DEF Sessions

LEMMA KeyRoster ==
  ASSUME LoginInv, RosterInv, NEW fd \in Fds, Key(fd), UNCHANGED serverVars
  PROVE  RosterInv'
<1>1. session \in [Fds -> Sessions] /\ session[fd] \in Sessions
  BY DEF LoginInv, TypeOK, ClientTypeOK
<1>2. CASE \E nick \in Nicks : Login(fd, nick)
  BY <1>2, LoginRoster
<1>3. ASSUME NEW m, m.kind # "JOIN", up' = Send(up, fd, m), down' = down,
             session[fd].phase = "MAIN", NEW t, session' = [session EXCEPT ![fd] = t],
             \/ \E w : t = [session[fd] EXCEPT !.waiting_for = w]
             \/ \E a : t = [session[fd] EXCEPT !.acted = a]
             \/ t = [session[fd] EXCEPT !.phase = "DONE"]
             \/ t = session[fd]
      PROVE  RosterInv'
  <2>1. /\ t.phase \in {"MAIN", "DONE"} /\ t.id = session[fd].id
        /\ t.user_by_id = session[fd].user_by_id
    BY <1>1, <1>3, SessionLooks
  <2> QED
    BY <1>3, <2>1, MainKeyRoster
<1>4. ASSUME NEW id \in Ids, Invite(fd, id) PROVE RosterInv'
  <2>1. PICK m : m = Challenge("C_START", session[fd].id, id, NoId, session[fd].key)
    OBVIOUS
  <2>2. m.kind # "JOIN"
    BY <2>1 DEF Challenge
  <2>3. /\ up' = Send(up, fd, m) /\ down' = down /\ session[fd].phase = "MAIN"
        /\ session' = [session EXCEPT ![fd] = [session[fd] EXCEPT !.waiting_for = "W_CANCEL"]]
    BY <1>4, <2>1 DEF Invite, InMain
  <2> QED
    BY <1>3, <2>2, <2>3
<1>5. CASE Cancel(fd)
  <2>1. PICK m : m = Challenge("C_CANCEL", session[fd].id, session[fd].opponent_id, NoId,
                               session[fd].key)
    OBVIOUS
  <2>2. m.kind # "JOIN"
    BY <2>1 DEF Challenge
  <2>3. /\ up' = Send(up, fd, m) /\ down' = down /\ session[fd].phase = "MAIN"
        /\ session' = [session EXCEPT ![fd] = [session[fd] EXCEPT !.waiting_for = "W_NONE"]]
    BY <1>5, <2>1 DEF Cancel, InMain
  <2> QED
    BY <1>3, <2>2, <2>3
<1>6. ASSUME NEW action \in {"C_ACCEPT", "C_REJECT"}, Answer(fd, action) PROVE RosterInv'
  <2>1. PICK m : m = Challenge(action, session[fd].opponent_id, session[fd].id,
                               session[fd].chid, session[fd].key)
    OBVIOUS
  <2>2. m.kind # "JOIN"
    BY <2>1 DEF Challenge
  <2>3. /\ up' = Send(up, fd, m) /\ down' = down /\ session[fd].phase = "MAIN"
        /\ session' = [session EXCEPT ![fd] = [session[fd] EXCEPT !.waiting_for = "W_NONE"]]
    BY <1>6, <2>1 DEF Answer, InMain
  <2> QED
    BY <1>3, <2>2, <2>3
<1>7. ASSUME NEW action \in Acts, Act(fd, action) PROVE RosterInv'
  <2>1. PICK m : m = Turn(session[fd].id, session[fd].chid, session[fd].key,
                          session[fd].turn_no, action)
    OBVIOUS
  <2>2. m.kind # "JOIN"
    BY <2>1 DEF Turn
  <2>3. /\ up' = Send(up, fd, m) /\ down' = down /\ session[fd].phase = "MAIN"
        /\ session' = [session EXCEPT ![fd] = [session[fd] EXCEPT !.acted = TRUE]]
    BY <1>7, <2>1 DEF Act, InMain
  <2> QED
    BY <1>3, <2>2, <2>3
<1>8. CASE Chat(fd)
  <2>1. PICK m : m = SendMsg(session[fd].id, session[fd].key)
    OBVIOUS
  <2>2. m.kind # "JOIN"
    BY <2>1 DEF SendMsg
  <2>3. /\ up' = Send(up, fd, m) /\ down' = down /\ session' = session
        /\ session[fd].phase = "MAIN"
    BY <1>8, <2>1 DEF Chat, InMain, clientVars
  <2>4. session' = [session EXCEPT ![fd] = session[fd]]
    BY <1>1, <2>3
  <2> QED
    BY <1>3, <2>2, <2>3, <2>4
<1>9. CASE Leave(fd)
  <2>1. PICK m : m = Quit(session[fd].id, session[fd].key)
    OBVIOUS
  <2>2. m.kind # "JOIN"
    BY <2>1 DEF Quit
  <2>3. /\ up' = Send(up, fd, m) /\ down' = down /\ session[fd].phase = "MAIN"
        /\ session' = [session EXCEPT ![fd] = [session[fd] EXCEPT !.phase = "DONE"]]
    BY <1>9, <2>1 DEF Leave, InMain
  <2> QED
    BY <1>3, <2>2, <2>3
<1> QED
  BY <1>2, <1>4, <1>5, <1>6, <1>7, <1>8, <1>9 DEF Key

(* A message read leaves fewer. *)
LEMMA TailView ==
  ASSUME NEW q \in Seq(DownMsgs), q # <<>>
  PROVE  /\ Tail(q) \in Seq(DownMsgs) /\ Head(q) \in DownMsgs
         /\ 1 \in DOMAIN q /\ q[1] = Head(q)
         /\ \A i \in DOMAIN Tail(q) : \E j \in DOMAIN q : Tail(q)[i] = q[j]
<1>1. Tail(q) \in Seq(DownMsgs) /\ Head(q) \in DownMsgs
  OBVIOUS
<1>2. 1 \in DOMAIN q /\ q[1] = Head(q)
  OBVIOUS
<1>3. \A i \in DOMAIN Tail(q) : i + 1 \in DOMAIN q /\ Tail(q)[i] = q[i + 1]
  OBVIOUS
<1> QED
  BY <1>1, <1>2, <1>3

LEMMA TailLasts ==
  ASSUME NEW fd, NEW q, NEW t, \A i \in DOMAIN t : \E j \in DOMAIN q : t[i] = q[j]
  PROVE  (Lasts(fd, q) => Lasts(fd, t)) /\ (Admits(fd, q) => Admits(fd, t))
  BY DEF Lasts, Admits

(* ui_login leaves for ui_main. *)
New(id, key, acted, state) ==
  [NewSession EXCEPT !.phase = "MAIN", !.id = id, !.key = key, !.acted = acted,
                     !.state = state]

LEMMA NewIs ==
  \A id, key, acted, state :
    /\ New(id, key, acted, state).phase = "MAIN"
    /\ New(id, key, acted, state).id = id
    /\ New(id, key, acted, state).user_by_id = {}
  BY DEF New, NewSession

LEMMA LoginAnsweredRoster ==
  ASSUME LoginInv, RosterInv, NEW fd \in Fds, LoginAnswered(fd), UNCHANGED serverVars
  PROVE  RosterInv'
<1>1. /\ down \in [Fds -> Seq(DownMsgs)] /\ down[fd] \in Seq(DownMsgs)
      /\ session \in [Fds -> Sessions] /\ session[fd] \in Sessions
  BY DEF LoginInv, TypeOK, ChannelsTypeOK, ClientTypeOK
<1>2. /\ down[fd] # <<>> /\ down' = [down EXCEPT ![fd] = Tail(down[fd])] /\ up' = up
      /\ session[fd].phase = "WAIT_MSG"
  BY DEF LoginAnswered, Receives
<1>3. PICK q \in Seq(DownMsgs) : q = down[fd]
  BY <1>1
<1>4. PICK t : t = Tail(q)
  OBVIOUS
<1>5. PICK r : r = Head(q)
  OBVIOUS
<1>6. /\ t \in Seq(DownMsgs) /\ r \in DownMsgs /\ 1 \in DOMAIN q /\ q[1] = r
      /\ \A i \in DOMAIN t : \E j \in DOMAIN q : t[i] = q[j]
  BY <1>2, <1>3, <1>4, <1>5, TailView
<1>7. /\ JoinOnceAt(up[fd], q, "WAIT_MSG", fd \in DOMAIN user_by_fd)
      /\ Begins(up[fd], q, session[fd]) /\ OwnId(fd, q, session[fd])
      /\ fd \in DOMAIN user_by_fd =>
           Enters(q, session[fd]) /\ Sees(fd, q, session[fd], user_by_id)
  <2>1. JoinOnceAt(up[fd], q, "WAIT_MSG", fd \in DOMAIN user_by_fd)
    BY <1>2, <1>3, JoinOnceIsAt DEF LoginInv
  <2>2. ViewAt(fd, up[fd], q, session[fd], user_by_id, fd \in DOMAIN user_by_fd)
    BY <1>3 DEF RosterInv
  <2> QED
    BY <2>1, <2>2 DEF ViewAt
<1>8. /\ Refused(t) => Refused(q)
      /\ OneAtMost(q, "JOIN_R") /\ r.kind = "JOIN_R" => ~ Has(t, "JOIN_R")
      /\ r.kind = "JOIN_R" => Has(q, "JOIN_R")
  BY <1>2, <1>3, <1>4, <1>5, TailHas
<1>9. Admits(fd, t)
  BY <1>6, <1>7, TailLasts DEF OwnId
<1>10. /\ down'[fd] = t /\ \A f \in Fds \ {fd} : down'[f] = down[f]
       /\ \A f \in Fds \ {fd} : session'[f] = session[f]
  <2>1. down'[fd] = t /\ \A f \in Fds \ {fd} : down'[f] = down[f]
    BY <1>1, <1>2, <1>3, <1>4
  <2>2. \A f \in Fds \ {fd} : session'[f] = session[f]
    BY <1>1 DEF LoginAnswered
  <2> QED
    BY <2>1, <2>2
<1>11. CASE r.kind # "JOIN_R"
  <2>1. session' = session
    BY <1>3, <1>5, <1>11 DEF LoginAnswered
  <2>2. fd \notin DOMAIN user_by_fd
    BY <1>2, <1>5, <1>7, <1>11 DEF Enters
  <2>3. Begins(up[fd], t, session[fd])
    <3>1. Early(up[fd], t, session[fd]) => Early(up[fd], q, session[fd])
      BY <1>8 DEF Early
    <3> QED
      BY <1>6, <1>7, <3>1 DEF Begins
  <2>4. ViewAt(fd, up'[fd], down'[fd], session'[fd], user_by_id, fd \in DOMAIN user_by_fd)
    BY <1>2, <1>7, <1>9, <1>10, <2>1, <2>2, <2>3 DEF ViewAt, OwnId
  <2> QED
    BY <1>2, <1>10, <2>4, SessionRoster
<1>12. CASE r.kind = "JOIN_R" /\ r.error # "ME_OK"
  <2>1. PICK s : s = [session[fd] EXCEPT !.phase = "RETRY"]
    OBVIOUS
  <2>2. s.phase = "RETRY" /\ s.id = session[fd].id /\ s.user_by_id = session[fd].user_by_id
    BY <1>1, <2>1 DEF Sessions
  <2>3. session'[fd] = s
    BY <1>1, <1>3, <1>5, <1>12, <2>1 DEF LoginAnswered
  <2>4. Refused(q)
    BY <1>6, <1>12 DEF Refused
  <2>5. fd \notin DOMAIN user_by_fd
    BY <1>7, <2>4 DEF JoinOnceAt
  <2>6. Begins(up[fd], t, s)
    <3>1. Early(up[fd], q, session[fd])
      BY <2>4 DEF Early
    <3> QED
      BY <1>6, <1>7, <2>2, <3>1 DEF Begins
  <2>7. OwnId(fd, t, s)
    BY <1>7, <1>9, <2>2 DEF OwnId
  <2>8. ViewAt(fd, up'[fd], down'[fd], session'[fd], user_by_id, fd \in DOMAIN user_by_fd)
    BY <1>2, <1>10, <2>3, <2>5, <2>6, <2>7 DEF ViewAt
  <2> QED
    BY <1>2, <1>10, <2>8, SessionRoster
<1>13. CASE r.kind = "JOIN_R" /\ r.error = "ME_OK"
  <2>1. PICK acted \in UnsetActed, state \in UnsetState :
          session' = [session EXCEPT ![fd] = New(r.id, r.key, acted, state)]
    <3>1. Head(down[fd]) = r
      BY <1>3, <1>5
    <3> QED
      BY <1>13, <3>1, Zenon DEF LoginAnswered, New
  <2>2. PICK s : s = New(r.id, r.key, acted, state)
    OBVIOUS
  <2>3. session'[fd] = s
    BY <1>1, <2>1, <2>2
  <2>4. s.phase = "MAIN" /\ s.id = r.id /\ s.user_by_id = {}
    BY <2>2, NewIs
  <2>5. r.id = fd
    BY <1>6, <1>7, <1>13 DEF OwnId, Admits
  <2>6. OwnId(fd, t, s)
    BY <1>9, <2>4, <2>5 DEF OwnId
  <2>7. Begins(up[fd], t, s)
    <3>1. ~ Has(t, "JOIN_R") /\ ~ Has(up[fd], "JOIN")
      BY <1>7, <1>8, <1>13 DEF JoinOnceAt
    <3>2. ~ Refused(t)
      BY <3>1 DEF Refused, Has
    <3> QED
      BY <2>4, <3>1, <3>2 DEF Begins, Early
  <2>8. fd \in DOMAIN user_by_fd => Enters(t, s) /\ Sees(fd, t, s, user_by_id)
    <3>1. SUFFICES ASSUME fd \in DOMAIN user_by_fd
                   PROVE  Enters(t, s) /\ Sees(fd, t, s, user_by_id)
      OBVIOUS
    <3>2. /\ session[fd].user_by_id = {} /\ Lasts(fd, q)
          /\ ListAfter({}, q) = Roster(user_by_id)
      BY <1>2, <1>7, <3>1 DEF Enters, Sees
    <3>3. Take({}, r) = {}
      BY <1>13, PlainTake
    <3>4. ListAfter({}, q) = ListAfter(Take({}, r), t)
      BY <1>2, <1>3, <1>4, <1>5, ListHead
    <3>5. Lasts(fd, t)
      BY <1>6, <3>2, TailLasts
    <3> QED
      BY <2>4, <3>2, <3>3, <3>4, <3>5 DEF Enters, Sees
  <2>9. ViewAt(fd, up'[fd], down'[fd], session'[fd], user_by_id, fd \in DOMAIN user_by_fd)
    BY <1>2, <1>10, <2>3, <2>6, <2>7, <2>8 DEF ViewAt
  <2> QED
    BY <1>2, <1>10, <2>9, SessionRoster
<1> QED
  BY <1>11, <1>12, <1>13

(* A case of ui_main changes the list as Take says, or ends the session. *)
LEMMA HandledId ==
  ASSUME NEW s \in Sessions, NEW m \in DownMsgs
  PROVE  Handled(s, m).id = s.id
<1>1. CASE ~ Ends(s.id, m)
  BY <1>1, HandledList
<1>2. CASE Ends(s.id, m)
  <2>1. m.kind = "UCHANGE" /\ \E i \in m.users : i.id = s.id /\ i.state = "UOFFLINE"
    BY <1>2 DEF Ends
  <2>2. OnUchange(s, m) = [s EXCEPT !.phase = "DONE"]
    BY <2>1 DEF OnUchange
  <2>3. Handled(s, m) = OnUchange(s, m)
    BY <2>1 DEF Handled
  <2> QED
    BY <2>2, <2>3 DEF Sessions
<1> QED
  BY <1>1, <1>2

LEMMA MainReceivesRoster ==
  ASSUME LoginInv, RosterInv, NEW fd \in Fds, MainReceives(fd), UNCHANGED serverVars
  PROVE  RosterInv'
<1>1. /\ down \in [Fds -> Seq(DownMsgs)] /\ down[fd] \in Seq(DownMsgs)
      /\ up \in [Fds -> Seq(UpMsgs)] /\ up[fd] \in Seq(UpMsgs)
      /\ session \in [Fds -> Sessions] /\ session[fd] \in Sessions
  BY DEF LoginInv, TypeOK, ChannelsTypeOK, ClientTypeOK
<1>2. PICK s \in Sessions : s = session[fd]
  BY <1>1
<1>3. PICK q \in Seq(DownMsgs) : q = down[fd]
  BY <1>1
<1>4. PICK m : m = Head(q)
  OBVIOUS
<1>5. PICK t : t = Tail(q)
  OBVIOUS
<1>6. /\ q # <<>> /\ down' = [down EXCEPT ![fd] = t] /\ s.phase = "MAIN"
      /\ up' = [up EXCEPT ![fd] = up[fd] \o Answers(s, m)]
      /\ session' = [session EXCEPT ![fd] = Handled(s, m)]
  BY <1>2, <1>3, <1>4, <1>5 DEF MainReceives, Receives
<1>7. /\ t \in Seq(DownMsgs) /\ m \in DownMsgs /\ 1 \in DOMAIN q /\ q[1] = m
      /\ \A i \in DOMAIN t : \E j \in DOMAIN q : t[i] = q[j]
  BY <1>4, <1>5, <1>6, TailView
<1>8. PICK h : h = Handled(s, m)
  OBVIOUS
<1>9. PICK u : u = up[fd] \o Answers(s, m)
  OBVIOUS
<1>10. /\ up'[fd] = u /\ down'[fd] = t /\ session'[fd] = h
       /\ \A f \in Fds \ {fd} : /\ up'[f] = up[f] /\ down'[f] = down[f]
                                /\ session'[f] = session[f]
  BY <1>1, <1>6, <1>8, <1>9
<1>11. /\ Begins(up[fd], q, s) /\ OwnId(fd, q, s)
       /\ fd \in DOMAIN user_by_fd => Sees(fd, q, s, user_by_id)
  BY <1>2, <1>3 DEF RosterInv, ViewAt
<1>12. h.phase \in {"MAIN", "DONE"} /\ h.id = s.id
  BY <1>6, <1>7, <1>8, HandledType, HandledId
<1>13. Begins(u, t, h)
  <2>1. Has(u, "JOIN") => Has(up[fd], "JOIN")
    BY <1>1, <1>7, <1>9, AnswersNoJoin
  <2>2. Refused(t) => Refused(q)
    BY <1>5, <1>6, TailHas
  <2> QED
    BY <1>6, <1>11, <1>12, <2>1, <2>2, MainIsLate
<1>14. OwnId(fd, t, h)
  BY <1>7, <1>11, <1>12, TailLasts DEF OwnId
<1>15. Enters(t, h)
  BY <1>12 DEF Enters
<1>16. ASSUME fd \in DOMAIN user_by_fd PROVE Sees(fd, t, h, user_by_id)
  <2>1. Lasts(fd, q) /\ ListAfter(s.user_by_id, q) = Roster(user_by_id)
    BY <1>6, <1>11, <1>16 DEF Sees
  <2>2. ~ Ends(fd, m)
    BY <1>7, <2>1 DEF Lasts
  <2>3. ~ Ends(s.id, m)
    BY <1>7, <1>11, <2>2, NobodyEnds DEF OwnId
  <2>4. h.user_by_id = Take(s.user_by_id, m)
    BY <1>7, <1>8, <2>3, HandledList
  <2>5. s.user_by_id \in SUBSET Infos
    BY DEF Sessions
  <2>6. ListAfter(s.user_by_id, q) = ListAfter(Take(s.user_by_id, m), t)
    BY <1>4, <1>5, <1>6, <2>5, ListHead
  <2>7. Lasts(fd, t)
    BY <1>7, <2>1, TailLasts
  <2> QED
    BY <2>1, <2>4, <2>6, <2>7 DEF Sees
<1>17. ViewAt(fd, up'[fd], down'[fd], session'[fd], user_by_id, fd \in DOMAIN user_by_fd)
  BY <1>10, <1>13, <1>14, <1>15, <1>16 DEF ViewAt
<1> QED
  BY <1>10, <1>17, SessionRoster

LEMMA DiscardsRoster ==
  ASSUME LoginInv, RosterInv, NEW fd \in Fds, Discards(fd), UNCHANGED serverVars
  PROVE  RosterInv'
<1>1. down \in [Fds -> Seq(DownMsgs)]
  BY DEF LoginInv, TypeOK, ChannelsTypeOK
<1>2. /\ up' = up /\ session' = session /\ down'[fd] = <<>>
      /\ \A f \in Fds \ {fd} : down'[f] = down[f]
      /\ session[fd].phase \in {"DONE", "GONE"}
  BY <1>1 DEF Discards, clientVars
<1>3. Begins(up[fd], down[fd], session[fd]) /\ OwnId(fd, down[fd], session[fd])
  BY DEF RosterInv, ViewAt
<1>4. Begins(up[fd], <<>>, session[fd])
  <2>1. Early(up[fd], <<>>, session[fd]) => Early(up[fd], down[fd], session[fd])
    BY DEF Early, Refused
  <2> QED
    BY <1>3, <2>1 DEF Begins
<1>5. OwnId(fd, <<>>, session[fd])
  BY <1>3 DEF OwnId, Admits
<1>6. Enters(<<>>, session[fd]) /\ Sees(fd, <<>>, session[fd], user_by_id)
  BY <1>2 DEF Enters, Sees
<1>7. ViewAt(fd, up'[fd], down'[fd], session'[fd], user_by_id, fd \in DOMAIN user_by_fd)
  BY <1>2, <1>4, <1>5, <1>6 DEF ViewAt
<1> QED
  BY <1>2, <1>7, SessionRoster

LEMMA LoseRoster ==
  ASSUME LoginInv, RosterInv, NEW fd \in Fds, Lose(fd), UNCHANGED serverVars
  PROVE  RosterInv'
<1>1. /\ up \in [Fds -> Seq(UpMsgs)] /\ up[fd] \in Seq(UpMsgs)
      /\ session \in [Fds -> Sessions] /\ session[fd] \in Sessions
  BY DEF LoginInv, TypeOK, ChannelsTypeOK, ClientTypeOK
<1>2. PICK n \in 0 .. Len(up[fd]) :
        up' = [up EXCEPT ![fd] = Append(SubSeq(up[fd], 1, n), Disconn)]
  BY DEF Lose
<1>3. PICK kept : kept = SubSeq(up[fd], 1, n)
  OBVIOUS
<1>4. /\ kept \in Seq(UpMsgs) /\ DOMAIN kept \subseteq DOMAIN up[fd]
      /\ \A i \in DOMAIN kept : kept[i] = up[fd][i]
  BY <1>1, <1>3
<1>5. PICK s : s = [session[fd] EXCEPT !.phase = "GONE"]
  OBVIOUS
<1>6. s.phase = "GONE" /\ s.id = session[fd].id /\ s.user_by_id = session[fd].user_by_id
  BY <1>1, <1>5 DEF Sessions
<1>7. PICK e : e = Disconn
  OBVIOUS
<1>8. PICK u : u = Append(kept, e)
  OBVIOUS
<1>9. /\ up'[fd] = u /\ down' = down /\ session'[fd] = s
      /\ \A f \in Fds \ {fd} : up'[f] = up[f] /\ session'[f] = session[f]
  BY <1>1, <1>2, <1>3, <1>5, <1>7, <1>8 DEF Lose
<1>10. e.kind = "EDISCONN"
  BY <1>7 DEF Disconn
<1>11. \A i \in DOMAIN u : u[i] = e \/ \E j \in DOMAIN up[fd] : u[i] = up[fd][j]
  <2>1. \A i \in DOMAIN u : u[i] = e \/ (i \in DOMAIN kept /\ u[i] = kept[i])
    BY <1>4, <1>8
  <2> QED
    BY <1>4, <2>1
<1>12. Begins(up[fd], down[fd], session[fd]) /\ OwnId(fd, down[fd], session[fd])
  BY DEF RosterInv, ViewAt
<1>13. Begins(u, down[fd], s)
  <2>1. Has(u, "JOIN") => Has(up[fd], "JOIN")
    BY <1>10, <1>11 DEF Has
  <2>2. Early(u, down[fd], s) => Early(up[fd], down[fd], session[fd])
    BY <1>6, <2>1 DEF Early
  <2> QED
    BY <1>6, <1>10, <1>11, <1>12, <2>2 DEF Begins
<1>14. OwnId(fd, down[fd], s)
  BY <1>6, <1>12 DEF OwnId
<1>15. Enters(down[fd], s) /\ Sees(fd, down[fd], s, user_by_id)
  BY <1>6 DEF Enters, Sees
<1>16. ViewAt(fd, up'[fd], down'[fd], session'[fd], user_by_id, fd \in DOMAIN user_by_fd)
  BY <1>9, <1>13, <1>14, <1>15 DEF ViewAt
<1> QED
  BY <1>9, <1>16, SessionRoster
----------------------------------------------------------------------------
LEMMA InitRoster == Init => RosterInv
<1> SUFFICES ASSUME Init PROVE RosterInv
  OBVIOUS
<1>1. DOMAIN user_by_id = {} /\ DOMAIN user_by_fd = {}
  BY DEF Init, model_init, Empty
<1>2. Awake(user_by_id)
  BY <1>1 DEF Awake
<1>3. ASSUME NEW fd \in Fds
      PROVE  ViewAt(fd, up[fd], down[fd], session[fd], user_by_id, fd \in DOMAIN user_by_fd)
  <2>1. up[fd] = <<>> /\ down[fd] = <<>> /\ session[fd] = NewSession
    BY DEF Init, ChannelsInit, ClientInit
  <2>2. PICK s : s = session[fd]
    OBVIOUS
  <2>3. s.phase = "LOGIN" /\ s.id = NoId /\ s.user_by_id = {}
    BY <2>1, <2>2 DEF NewSession
  <2>4. Begins(<<>>, <<>>, s) /\ OwnId(fd, <<>>, s)
    BY <2>3 DEF Begins, OwnId, Admits
  <2> QED
    BY <1>1, <2>1, <2>2, <2>4 DEF ViewAt
<1> QED
  BY <1>2, <1>3 DEF RosterInv

LEMMA NextRoster == LoginInv /\ RosterInv /\ [Next]_vars => RosterInv'
<1> SUFFICES ASSUME LoginInv, RosterInv, [Next]_vars PROVE RosterInv'
  OBVIOUS
<1>1. ASSUME NEW fd \in Fds, pkt_handler(fd), UNCHANGED clientVars PROVE RosterInv'
  BY <1>1, HandlerRoster
<1>2. ASSUME NEW fd \in Fds, Key(fd) \/ Receive(fd) \/ Lose(fd), UNCHANGED serverVars
      PROVE  RosterInv'
  BY <1>2, KeyRoster, LoginAnsweredRoster, MainReceivesRoster, DiscardsRoster, LoseRoster
     DEF Receive
<1>3. ASSUME UNCHANGED vars PROVE RosterInv'
  <2>1. UNCHANGED <<user_by_id, user_by_fd, up, down, session>>
    BY <1>3 DEF vars, channels, serverVars, trees, clientVars
  <2> QED
    BY <2>1, RosterInvNext DEF RosterInv
<1> QED
  BY <1>1, <1>2, <1>3 DEF Next

(* The invariant of the user lists holds of the whole game: what is on its *)
(* way to a session turns the list it has into the server's.               *)
THEOREM RosterInvariant == Spec => []RosterInv
<1>1. Init => RosterInv
  BY InitRoster
<1>2. LoginInv /\ RosterInv /\ [Next]_vars => RosterInv'
  BY NextRoster
<1> QED
  BY <1>1, <1>2, JankenInvariant, PTL DEF Spec

(* A client's list of users, once it has read what was sent to it, is the  *)
(* server's, for any set of connections and any order of joins (the        *)
(* ALL_TO_ONE chunks of handle_join among them), quits, lost connections,  *)
(* challenges, battles and their broadcasts.                               *)
THEOREM JankenRosterConverges == Spec => []RosterConverges
<1>1. LoginInv /\ RosterInv => RosterConverges
  BY RosterInvIs DEF LoginInv
<1> QED
  BY <1>1, JankenInvariant, RosterInvariant, PTL
----------------------------------------------------------------------------
(* The names.  Resolves: whoever reads the messages q, the list l in hand, *)
(* finds there every user that one of them names.                          *)
Named(m) ==
  IF m.kind = "SENDMSG" THEN {m.id}
  ELSE IF m.kind = "CHALLENGE" THEN {m.id1}
  ELSE IF m.kind = "CHALLENGE_R" /\ m.error = "ME_OK" THEN {m.id1, m.id2}
  ELSE {}

IdsIn(l) == {i.id : i \in l}

Resolves(l, q) ==
  \A i \in DOMAIN q : Named(q[i]) \subseteq IdsIn(ListAfter(l, SubSeq(q, 1, i - 1)))

LEMMA RosterIds == \A users : IdsIn(Roster(users)) = DOMAIN users
<1> SUFFICES ASSUME NEW users PROVE IdsIn(Roster(users)) = DOMAIN users
  OBVIOUS
<1>1. \A id \in DOMAIN users : Info(id, users[id]).id = id
  BY InfoIs
<1> QED
  BY <1>1 DEF IdsIn, Roster, Part

LEMMA ResolvesAppend ==
  ASSUME NEW l, NEW q \in Seq(DownMsgs), NEW m \in DownMsgs, Resolves(l, q),
         Named(m) \subseteq IdsIn(ListAfter(l, q))
  PROVE  Resolves(l, Append(q, m))
<1>1. PICK r : r = Append(q, m)
  OBVIOUS
<1>2. r \in Seq(DownMsgs) /\ DOMAIN r = DOMAIN q \cup {Len(q) + 1} /\ r[Len(q) + 1] = m
  BY <1>1
<1>3. ASSUME NEW i \in DOMAIN q PROVE r[i] = q[i] /\ SubSeq(r, 1, i - 1) = SubSeq(q, 1, i - 1)
  <2>1. i \in 1 .. Len(q) /\ Len(r) = Len(q) + 1 /\ \A j \in 1 .. Len(q) : r[j] = q[j]
    BY <1>1
  <2> QED
    BY <1>2, <2>1
<1>4. SubSeq(r, 1, (Len(q) + 1) - 1) = q
  <2>1. (Len(q) + 1) - 1 = Len(q) /\ SubSeq(r, 1, Len(q)) = q
    BY <1>1
  <2> QED
    BY <2>1
<1>5. \A i \in DOMAIN r : Named(r[i]) \subseteq IdsIn(ListAfter(l, SubSeq(r, 1, i - 1)))
  BY <1>2, <1>3, <1>4 DEF Resolves
<1> QED
  BY <1>1, <1>5 DEF Resolves

LEMMA ResolvesHead ==
  ASSUME NEW l \in SUBSET Infos, NEW q \in Seq(DownMsgs), q # <<>>, Resolves(l, q)
  PROVE  Named(Head(q)) \subseteq IdsIn(l) /\ Resolves(Take(l, Head(q)), Tail(q))
<1>1. PICK m, t : m = Head(q) /\ t = Tail(q)
  OBVIOUS
<1>2. /\ t \in Seq(DownMsgs) /\ 1 \in DOMAIN q /\ q[1] = m /\ SubSeq(q, 1, 1 - 1) = <<>>
      /\ \A i \in DOMAIN t : i + 1 \in DOMAIN q /\ t[i] = q[i + 1]
  BY <1>1
<1>3. Named(m) \subseteq IdsIn(l)
  <2>1. Named(q[1]) \subseteq IdsIn(ListAfter(l, SubSeq(q, 1, 1 - 1)))
    BY <1>2 DEF Resolves
  <2> QED
    BY <1>2, <2>1, ListEmpty
<1>4. ASSUME NEW i \in DOMAIN t
      PROVE  Named(t[i]) \subseteq IdsIn(ListAfter(Take(l, m), SubSeq(t, 1, i - 1)))
  <2>1. PICK p : p = SubSeq(q, 1, i)
    OBVIOUS
  <2>2. i \in 1 .. Len(q) /\ i + 1 \in DOMAIN q /\ t[i] = q[i + 1] /\ (i + 1) - 1 = i
    BY <1>1, <1>2
  <2>3. p \in Seq(DownMsgs) /\ p # <<>> /\ Head(p) = m
    BY <1>1, <2>1, <2>2
  <2>4. Tail(p) = SubSeq(t, 1, i - 1)
    BY <1>1, <2>1, <2>2
  <2>5. ListAfter(l, p) = ListAfter(Take(l, m), SubSeq(t, 1, i - 1))
    BY <2>3, <2>4, ListHead
  <2>6. Named(q[i + 1]) \subseteq IdsIn(ListAfter(l, SubSeq(q, 1, (i + 1) - 1)))
    BY <2>2 DEF Resolves
  <2> QED
    BY <2>1, <2>2, <2>5, <2>6
<1>5. Resolves(Take(l, m), t)
  BY <1>4 DEF Resolves
<1> QED
  BY <1>1, <1>3, <1>5

LEMMA ResolvesPlain ==
  ASSUME NEW q, \A i \in DOMAIN q : q[i].kind \in {"JOIN_R", "UCHANGE"}
  PROVE  \A l : Resolves(l, q)
<1>1. \A i \in DOMAIN q : Named(q[i]) = {}
  BY DEF Named
<1> QED
  BY <1>1 DEF Resolves

(* Waits: a session whose JOIN the server has taken has the answer at the  *)
(* head of what it reads.  NamesInv is inductive on top of RosterInv.      *)
Waits(u, d, s) ==
  (s.phase = "WAIT_MSG" /\ ~ Has(u, "JOIN")) => d # <<>> /\ Head(d).kind = "JOIN_R"

NamesAt(u, d, s) ==
  /\ Waits(u, d, s)
  /\ s.phase \in {"LOGIN", "RETRY", "WAIT_MSG"} => s.user_by_id = {}
  /\ s.phase \in {"WAIT_MSG", "MAIN"} => Resolves(s.user_by_id, d)

NamesInv == \A fd \in Fds : NamesAt(up[fd], down[fd], session[fd])

LEMMA NamesInvNext ==
  NamesInv' <=> \A fd \in Fds : NamesAt(up'[fd], down'[fd], session'[fd])
  BY DEF NamesInv

LEMMA NamesInvIs == TypeOK /\ NamesInv => NamesResolve
<1> SUFFICES ASSUME TypeOK, NamesInv, NEW fd \in Fds, session[fd].phase = "MAIN",
                    down[fd] # <<>>, NEW m, m = Head(down[fd]), NEW list,
                    list = ListedIds(session[fd])
             PROVE  /\ m.kind = "SENDMSG" => m.id \in list
                    /\ m.kind = "CHALLENGE" => m.id1 \in list
                    /\ (m.kind = "CHALLENGE_R" /\ m.error = "ME_OK") =>
                         (IF m.is_id1 THEN m.id2 ELSE m.id1) \in list
  BY DEF NamesResolve
<1>1. /\ session[fd].user_by_id \in SUBSET Infos /\ down[fd] \in Seq(DownMsgs)
  BY DEF TypeOK, ClientTypeOK, ChannelsTypeOK, Sessions
<1>2. Resolves(session[fd].user_by_id, down[fd])
  BY DEF NamesInv, NamesAt
<1>3. Named(m) \subseteq IdsIn(session[fd].user_by_id)
  BY <1>1, <1>2, ResolvesHead
<1>4. Named(m) \subseteq list
  BY <1>3 DEF IdsIn, ListedIds
<1>5. /\ m.kind = "SENDMSG" => m.id \in list
      /\ m.kind = "CHALLENGE" => m.id1 \in list
  BY <1>4 DEF Named
<1>6. ASSUME m.kind = "CHALLENGE_R", m.error = "ME_OK" PROVE m.id1 \in list /\ m.id2 \in list
  BY <1>4, <1>6 DEF Named
<1> QED
  BY <1>5, <1>6

(* What a handler has sent so far: d. *)
Begun(q, r) == q # <<>> => r # <<>> /\ Head(r) = Head(q)

Follows(d) ==
  /\ d \in [Fds -> Seq(DownMsgs)]
  /\ \A f \in Fds :
       /\ Begun(down[f], d[f])
       /\ session[f].phase \in {"WAIT_MSG", "MAIN"} => Resolves(session[f].user_by_id, d[f])

LEMMA FollowsNothing ==
  ASSUME LoginInv, NamesInv PROVE Follows(down)
<1>1. down \in [Fds -> Seq(DownMsgs)]
  BY KnownFds
<1> QED
  BY <1>1 DEF Follows, Begun, NamesInv, NamesAt

LEMMA FollowsAll ==
  ASSUME NEW d, Follows(d), NEW fds, NEW m \in DownMsgs,
         \A f \in Fds : (f \in fds /\ session[f].phase \in {"WAIT_MSG", "MAIN"}) =>
           Named(m) \subseteq IdsIn(ListAfter(session[f].user_by_id, d[f]))
  PROVE  Follows(SendAll(d, fds, m))
<1>1. PICK e : e = SendAll(d, fds, m)
  OBVIOUS
<1>2. d \in [Fds -> Seq(DownMsgs)]
  BY DEF Follows
<1>3. e \in [Fds -> Seq(DownMsgs)]
  BY <1>1, <1>2, SendAllType
<1>4. ASSUME NEW f \in Fds
      PROVE  /\ Begun(down[f], e[f])
             /\ session[f].phase \in {"WAIT_MSG", "MAIN"} =>
                  Resolves(session[f].user_by_id, e[f])
  <2>1. /\ Begun(down[f], d[f])
        /\ session[f].phase \in {"WAIT_MSG", "MAIN"} => Resolves(session[f].user_by_id, d[f])
    BY DEF Follows
  <2>2. CASE f \notin fds
    <3>1. e[f] = d[f]
      BY <1>1, <2>2 DEF SendAll
    <3> QED
      BY <2>1, <3>1
  <2>3. CASE f \in fds
    <3>1. e[f] = Append(d[f], m)
      BY <1>1, <2>3 DEF SendAll
    <3>2. PICK q \in Seq(DownMsgs) : q = d[f]
      BY <1>2
    <3>3. q # <<>> => Append(q, m) # <<>> /\ Head(Append(q, m)) = Head(q)
      OBVIOUS
    <3>4. Begun(down[f], e[f])
      BY <2>1, <3>1, <3>2, <3>3 DEF Begun
    <3>5. ASSUME session[f].phase \in {"WAIT_MSG", "MAIN"}
          PROVE  Resolves(session[f].user_by_id, Append(q, m))
      BY <2>1, <2>3, <3>2, <3>5, ResolvesAppend
    <3> QED
      BY <3>1, <3>2, <3>4, <3>5
  <2> QED
    BY <2>2, <2>3
<1> QED
  BY <1>1, <1>3, <1>4 DEF Follows

(* A message without a name, to anybody. *)
LEMMA FollowsPlain ==
  ASSUME NEW d, Follows(d), NEW fd \in Fds, NEW fds, NEW m \in DownMsgs, Named(m) = {}
  PROVE  Follows(Send(d, fd, m)) /\ Follows(SendAll(d, fds, m))
<1>1. \A S : Follows(SendAll(d, S, m))
  BY FollowsAll
<1>2. d \in [Fds -> Seq(DownMsgs)]
  BY DEF Follows
<1> QED
  BY <1>1, <1>2, SendIsAll

LEMMA FollowsBroadcast ==
  ASSUME NEW d, Follows(d), NEW users, IsTree(users, Ids, UserInfos),
         NEW ids \in SUBSET DOMAIN users
  PROVE  Follows(broadcast_user_changes(d, users, ids))
<1>1. PICK m : m = Uchange(Part(users, ids))
  OBVIOUS
<1>2. Part(users, ids) \in SUBSET Infos
  BY InfoType DEF Part
<1>3. m \in DownMsgs /\ m.kind = "UCHANGE"
  BY <1>1, <1>2, UchangeType DEF Uchange
<1>4. Named(m) = {}
  BY <1>3 DEF Named
<1>5. Follows(SendAll(d, FdsOf(users), m))
  BY <1>3, <1>4, FollowsAll
<1> QED
  BY <1>1, <1>5 DEF broadcast_user_changes, Part

(* A message that names users, to those who have been told of them. *)
LEMMA FollowsTold ==
  ASSUME LoginInv, RosterInv, NEW fd \in Fds, NEW users, NEW d,
         Told(fd, DOMAIN user_by_fd, users, d), Follows(d),
         NEW fds, fds \subseteq DOMAIN user_by_fd, NEW m \in DownMsgs,
         Named(m) \subseteq DOMAIN users
  PROVE  Follows(SendAll(d, fds, m))
<1>1. ASSUME NEW f \in Fds, f \in fds, session[f].phase \in {"WAIT_MSG", "MAIN"}
      PROVE  Named(m) \subseteq IdsIn(ListAfter(session[f].user_by_id, d[f]))
  <2>1. f \in DOMAIN user_by_fd
    BY <1>1
  <2>2. ListAfter(session[f].user_by_id, down[f]) = Roster(user_by_id)
    BY <1>1, <2>1 DEF RosterInv, ViewAt, Sees
  <2>3. session[f].user_by_id \in SUBSET Infos
    BY DEF LoginInv, TypeOK, ClientTypeOK, Sessions
  <2>4. Hears(f, down[f], d[f], Roster(user_by_id), Roster(users))
    BY <2>1 DEF Told, Informs
  <2>5. ListAfter(session[f].user_by_id, d[f]) = Roster(users)
    BY <2>2, <2>3, <2>4 DEF Hears
  <2> QED
    BY <2>5, RosterIds
<1> QED
  BY <1>1, FollowsAll

LEMMA FollowsSend ==
  ASSUME LoginInv, RosterInv, NEW fd \in Fds, NEW users, NEW d,
         Told(fd, DOMAIN user_by_fd, users, d), Follows(d),
         NEW to \in DOMAIN user_by_fd, NEW m \in DownMsgs, Named(m) \subseteq DOMAIN users
  PROVE  Follows(Send(d, to, m))
<1>1. Follows(SendAll(d, {to}, m))
  BY FollowsTold
<1>2. to \in Fds /\ d \in [Fds -> Seq(DownMsgs)]
  BY KnownFds DEF Follows
<1> QED
  BY <1>1, <1>2, SendIsAll

(* A handler that takes anything but a JOIN. *)
LEMMA FollowsNames ==
  ASSUME LoginInv, NamesInv, NEW fd \in Fds, NEW kind, Takes(fd, kind), kind # "JOIN",
         UNCHANGED session, Follows(down')
  PROVE  NamesInv'
<1>1. /\ up \in [Fds -> Seq(UpMsgs)] /\ up[fd] \in Seq(UpMsgs) /\ up[fd] # <<>>
      /\ Head(up[fd]).kind = kind /\ up' = [up EXCEPT ![fd] = Tail(up[fd])]
  BY DEF Takes, LoginInv, TypeOK, ChannelsTypeOK
<1>2. \A f \in Fds : Has(up[f], "JOIN") => Has(up'[f], "JOIN")
  <2>1. \A i \in DOMAIN up[fd] : i = 1 \/ (i - 1 \in DOMAIN Tail(up[fd])
                                           /\ Tail(up[fd])[i - 1] = up[fd][i])
    BY <1>1
  <2>2. Head(up[fd]) = up[fd][1]
    BY <1>1
  <2>3. Has(up[fd], "JOIN") => Has(Tail(up[fd]), "JOIN")
    BY <1>1, <2>1, <2>2 DEF Has
  <2> QED
    BY <1>1, <2>3
<1>3. ASSUME NEW f \in Fds PROVE NamesAt(up'[f], down'[f], session'[f])
  <2>1. /\ Waits(up[f], down[f], session[f])
        /\ session[f].phase \in {"LOGIN", "RETRY", "WAIT_MSG"} => session[f].user_by_id = {}
    BY DEF NamesInv, NamesAt
  <2>2. /\ Begun(down[f], down'[f])
        /\ session[f].phase \in {"WAIT_MSG", "MAIN"} =>
             Resolves(session[f].user_by_id, down'[f])
    BY DEF Follows
  <2>3. Waits(up'[f], down'[f], session[f])
    BY <1>2, <2>1, <2>2 DEF Waits, Begun
  <2> QED
    BY <2>1, <2>2, <2>3 DEF NamesAt
<1> QED
  BY <1>3, NamesInvNext
----------------------------------------------------------------------------
(* The handlers. *)
LEMMA SilentNames ==
  ASSUME LoginInv, NamesInv, NEW fd \in Fds, UNCHANGED session,
         \/ HandleChallengeIgnored(fd) \/ HandleStartNoId(fd)
         \/ HandleDisconnectUnknown(fd) \/ HandleTurnIgnored(fd) \/ HandleTurnFirst(fd)
         \/ HandleQuit(fd) /\ ~ Known(Head(up[fd]).id, Head(up[fd]).key)
  PROVE  NamesInv'
<1>1. /\ UNCHANGED down
      /\ \/ Takes(fd, "CHALLENGE") \/ Takes(fd, "EDISCONN") \/ Takes(fd, "TURN")
         \/ Takes(fd, "QUIT")
  BY DEF HandleChallengeIgnored, HandleStartNoId, HandleDisconnectUnknown,
         HandleTurnIgnored, HandleTurnFirst, HandleQuit
<1>2. Follows(down')
  BY <1>1, FollowsNothing
<1> QED
  BY <1>1, <1>2, FollowsNames

(* A CHALLENGE_R that refuses names nobody. *)
LEMMA RefusalPlain ==
  ASSUME NEW m \in Challenges, NEW error, NEW r, r = ChallengeR(error, m, FALSE),
         error \in {"NXID", "ICKEY", "ENGAGED", "CHLSELF", "NXCHID", "CANCELLED", "REJECTED"}
  PROVE  r \in DownMsgs /\ Named(r) = {}
<1>1. r \in DownMsgs
  BY ChallengeRType
<1>2. r.kind = "CHALLENGE_R" /\ r.error = error
  BY DEF ChallengeR
<1> QED
  BY <1>1, <1>2 DEF Named

LEMMA ChallengeErrorNames ==
  ASSUME LoginInv, NamesInv, NEW fd \in Fds, HandleChallengeError(fd), UNCHANGED session
  PROVE  NamesInv'
<1>1. PICK m \in Challenges : m = Head(up[fd])
  BY ChallengeFacts DEF HandleChallengeError, LoginInv
<1>2. ChallengeError(m) \in {"NXID", "ICKEY", "ENGAGED", "CHLSELF", "NXCHID",
                             "CANCELLED", "REJECTED"}
  <2>1. ChallengeError(m) # "ME_OK"
    BY <1>1 DEF HandleChallengeError
  <2>2. ChallengeError(m) \in {"ME_OK", "NXID", "ICKEY", "ENGAGED", "CHLSELF", "NXCHID",
                               "CANCELLED", "REJECTED"}
    BY <1>1 DEF ChallengeError, Challenges
  <2> QED
    BY <2>1, <2>2
<1>3. PICK r : r = ChallengeR(ChallengeError(m), m, FALSE)
  OBVIOUS
<1>4. r \in DownMsgs /\ Named(r) = {}
  BY <1>2, <1>3, RefusalPlain
<1>5. down' = Send(down, fd, r) /\ Takes(fd, "CHALLENGE")
  BY <1>1, <1>3 DEF HandleChallengeError
<1>6. Follows(down')
  BY <1>4, <1>5, FollowsNothing, FollowsPlain
<1> QED
  BY <1>5, <1>6, FollowsNames

LEMMA StartNames ==
  ASSUME LoginInv, RosterInv, NamesInv, NEW fd \in Fds, HandleStart(fd), UNCHANGED session
  PROVE  NamesInv'
<1>1. TypeOK
  BY DEF LoginInv
<1>2. PICK m \in Challenges : m = Head(up[fd]) /\ m.id1 \in DOMAIN user_by_id
                              /\ m.id2 \in DOMAIN user_by_id
  BY <1>1, ChallengeFacts DEF HandleStart, Valid
<1>3. PICK c \in FreeChIds :
        down' = Send(down, user_by_id[m.id2].fd, [m EXCEPT !.chid = c])
  BY <1>2 DEF HandleStart
<1>4. PICK r : r = [m EXCEPT !.chid = c]
  OBVIOUS
<1>5. r \in DownMsgs /\ r.kind = "CHALLENGE" /\ r.id1 = m.id1
  BY <1>4 DEF Challenges, DownMsgs, FreeChIds, AnyChId
<1>6. Named(r) = {m.id1}
  BY <1>5 DEF Named
<1>7. PICK to : to = user_by_id[m.id2].fd
  OBVIOUS
<1>8. to \in DOMAIN user_by_fd
  BY <1>2, <1>7, KnownFds
<1>9. Follows(Send(down, to, r))
  BY <1>2, <1>5, <1>6, <1>8, ToldNothing, FollowsNothing, FollowsSend
<1>10. Takes(fd, "CHALLENGE")
  BY DEF HandleStart
<1> QED
  BY <1>3, <1>4, <1>7, <1>9, <1>10, FollowsNames

LEMMA CancelNames ==
  ASSUME LoginInv, NamesInv, NEW fd \in Fds, HandleCancel(fd), UNCHANGED session
  PROVE  NamesInv'
<1>1. PICK m \in Challenges : m = Head(up[fd])
  BY ChallengeFacts DEF HandleCancel, LoginInv
<1>2. PICK user2 : user2 = ch_by_id[user_by_id[m.id1].chid].user2
  OBVIOUS
<1>3. PICK r : r = ChallengeR("CANCELLED", m, FALSE)
  OBVIOUS
<1>4. /\ down' = IF user2 \in DOMAIN user_by_id
                   THEN Send(down, user_by_id[user2].fd, r) ELSE down
      /\ Takes(fd, "CHALLENGE")
  BY <1>1, <1>2, <1>3 DEF HandleCancel
<1>5. r \in DownMsgs /\ Named(r) = {}
  BY <1>3, RefusalPlain
<1>6. user2 \in DOMAIN user_by_id => user_by_id[user2].fd \in Fds
  BY KnownFds
<1>7. Follows(down')
  BY <1>4, <1>5, <1>6, FollowsNothing, FollowsPlain
<1> QED
  BY <1>4, <1>7, FollowsNames

LEMMA RejectNames ==
  ASSUME LoginInv, NamesInv, NEW fd \in Fds, HandleReject(fd), UNCHANGED session
  PROVE  NamesInv'
<1>1. TypeOK
  BY DEF LoginInv
<1>2. PICK m \in Challenges : m = Head(up[fd]) /\ m.id1 \in DOMAIN user_by_id
  BY <1>1, ChallengeFacts DEF HandleReject, Rejects, Valid
<1>3. PICK r : r = ChallengeR("REJECTED", m, FALSE)
  OBVIOUS
<1>4. r \in DownMsgs /\ Named(r) = {}
  BY <1>3, RefusalPlain
<1>5. PICK to : to = user_by_id[m.id1].fd
  OBVIOUS
<1>6. to \in Fds
  BY <1>2, <1>5, KnownFds
<1>7. down' = Send(down, to, r) /\ Takes(fd, "CHALLENGE")
  BY <1>2, <1>3, <1>5 DEF HandleReject
<1>8. Follows(down')
  BY <1>4, <1>6, <1>7, FollowsNothing, FollowsPlain
<1> QED
  BY <1>7, <1>8, FollowsNames

LEMMA SendmsgNames ==
  ASSUME LoginInv, RosterInv, NamesInv, NEW fd \in Fds, HandleSendmsg(fd), UNCHANGED session
  PROVE  NamesInv'
<1>1. TypeOK
  BY DEF LoginInv
<1>2. PICK h \in SendMsgs : h = Head(up[fd])
  BY <1>1, TakesType, UpKinds DEF HandleSendmsg, TypeOK
<1>3. PICK m : m = [h EXCEPT !.key = 0]
  OBVIOUS
<1>4. m \in DownMsgs /\ m.kind = "SENDMSG" /\ m.id = h.id
  BY <1>3 DEF SendMsgs, DownMsgs, AnyKey
<1>5. /\ \/ down' = SendAll(down, FdsOf(user_by_id), m) /\ Known(h.id, h.key)
         \/ down' = down
      /\ Takes(fd, "SENDMSG")
  BY <1>2, <1>3 DEF HandleSendmsg
<1>6. Named(m) = {h.id}
  BY <1>4 DEF Named
<1>7. CASE down' = down
  BY <1>5, <1>7, FollowsNothing, FollowsNames
<1>8. CASE down' = SendAll(down, FdsOf(user_by_id), m) /\ Known(h.id, h.key)
  <2>1. h.id \in DOMAIN user_by_id
    BY <1>8 DEF Known
  <2>2. PICK fds : fds = FdsOf(user_by_id)
    OBVIOUS
  <2>3. fds \subseteq DOMAIN user_by_fd
    BY <2>2, KnownFds
  <2>4. Follows(SendAll(down, fds, m))
    BY <1>4, <1>6, <2>1, <2>3, ToldNothing, FollowsNothing, FollowsTold
  <2> QED
    BY <1>5, <1>8, <2>2, <2>4, FollowsNames
<1> QED
  BY <1>5, <1>7, <1>8

LEMMA AcceptNames ==
  ASSUME LoginInv, RosterInv, NamesInv, NEW fd \in Fds, HandleAccept(fd), UNCHANGED session
  PROVE  NamesInv'
<1>1. TypeOK /\ IsTree(user_by_id, Ids, UserInfos) /\ Awake(user_by_id)
  BY DEF LoginInv, TypeOK, ServerTypeOK, RosterInv
<1> DEFINE m == Head(up[fd])
           c == m.chid
           ch == [ch_by_id[c] EXCEPT !.state = "STARTED", !.turn_no = 0]
           users == Battling(user_by_id, m.id1, m.id2, c)
           after == AfterTurn(ch, 0)
           r == TurnR(ch, after, Winner(after, NoId))
           ok1 == ChallengeR("ME_OK", m, TRUE)
           ok2 == ChallengeR("ME_OK", m, FALSE)
           told == broadcast_user_changes(down, users, {m.id1, m.id2})
           replied1 == Send(told, users[m.id1].fd, ok1)
           replied == Send(replied1, users[m.id2].fd, ok2)
           turned1 == Send(replied, users[ch.user1].fd, r)
           turned == Send(turned1, users[ch.user2].fd, r)
<1>2. /\ m \in Challenges /\ m.id1 \in DOMAIN user_by_id /\ m.id2 \in DOMAIN user_by_id
      /\ m.chid \in ChIds /\ ch_by_id[m.chid] \in ChallengeRecs
  BY <1>1, ChallengeFacts DEF HandleAccept, Valid
<1>3. /\ Takes(fd, "CHALLENGE")
      /\ IF {ch.user1, ch.user2} \subseteq DOMAIN users
           THEN down' = turned ELSE down' = replied
  BY DEF HandleAccept, Battling
<1> HIDE DEF m
<1>4. ch \in ChallengeRecs
  BY <1>2 DEF ChallengeRecs
<1> HIDE DEF c, ch, after, r, ok1, ok2
<1>5. IsTree(users, Ids, UserInfos) /\ SameUsers(users)
  <2>1. /\ IsTree(users, Ids, UserInfos) /\ DOMAIN users = DOMAIN user_by_id
        /\ \A id \in DOMAIN user_by_id : /\ users[id].fd = user_by_id[id].fd
                                         /\ users[id].nick = user_by_id[id].nick
    BY <1>1, <1>2, BattlingType DEF c
  <2> QED
    BY <2>1 DEF SameUsers
<1>6. /\ ok1 \in DownMsgs /\ ok1.kind = "CHALLENGE_R" /\ ok1.id1 = m.id1 /\ ok1.id2 = m.id2
      /\ ok2 \in DownMsgs /\ ok2.kind = "CHALLENGE_R" /\ ok2.id1 = m.id1 /\ ok2.id2 = m.id2
  BY <1>2, ChallengeRType DEF ChallengeR, ok1, ok2
<1>7. r \in DownMsgs /\ r.kind = "TURN_R"
  <2>1. after \in ChallengeRecs
    BY <1>4, AfterTurnType DEF after
  <2>2. Winner(after, NoId) \in AnyId
    BY <2>1, WinnerType DEF ChallengeRecs, AnyId
  <2> QED
    BY <1>4, <2>1, <2>2, TurnRType DEF TurnR, r
<1>8. /\ \A id \in DOMAIN user_by_id \ {m.id1, m.id2} : users[id] = user_by_id[id]
      /\ Awake(users)
  <2>1. /\ DOMAIN users = DOMAIN user_by_id
        /\ \A id \in {m.id1, m.id2} : users[id].state = "UBATTLING"
        /\ \A id \in DOMAIN user_by_id \ {m.id1, m.id2} : users[id] = user_by_id[id]
    BY <1>1, <1>2, BattlingStates
  <2> QED
    BY <1>1, <2>1 DEF Awake
<1> HIDE DEF users
<1>9. /\ \A id \in DOMAIN users : users[id].fd \in DOMAIN user_by_fd /\ users[id].fd \in Fds
      /\ m.id1 \in DOMAIN users /\ m.id2 \in DOMAIN users
  BY <1>2, <1>5, KnownFds DEF SameUsers
<1>10. Named(ok1) \subseteq DOMAIN users /\ Named(ok2) \subseteq DOMAIN users /\ Named(r) = {}
  BY <1>6, <1>7, <1>9 DEF Named
<1>11. Told(fd, DOMAIN user_by_fd, users, told) /\ Follows(told)
  <2>1. PICK ids \in SUBSET DOMAIN user_by_id : ids = {m.id1, m.id2}
    BY <1>2
  <2>2. Told(fd, DOMAIN user_by_fd, users, broadcast_user_changes(down, users, ids))
    BY <1>5, <1>8, <2>1, ToldNothing, ChangesTold
  <2>3. ids \in SUBSET DOMAIN users
    BY <1>9, <2>1
  <2>4. Follows(broadcast_user_changes(down, users, ids))
    BY <1>5, <2>3, FollowsNothing, FollowsBroadcast
  <2> QED
    BY <2>1, <2>2, <2>4
<1> HIDE DEF told
<1>12. Told(fd, DOMAIN user_by_fd, users, replied1) /\ Follows(replied1)
  BY <1>6, <1>9, <1>10, <1>11, SendMore, FollowsSend
<1> HIDE DEF replied1
<1>13. Follows(replied)
  BY <1>6, <1>9, <1>10, <1>12, FollowsSend
<1> HIDE DEF replied
<1>14. ASSUME {ch.user1, ch.user2} \subseteq DOMAIN users PROVE Follows(turned)
  <2>1. Follows(turned1)
    BY <1>7, <1>9, <1>10, <1>13, <1>14, FollowsPlain
  <2> HIDE DEF turned1
  <2> QED
    BY <1>7, <1>9, <1>10, <1>14, <2>1, FollowsPlain
<1>15. Follows(down')
  BY <1>3, <1>13, <1>14
<1> QED
  BY <1>3, <1>15, FollowsNames

LEMMA JudgeFollows ==
  ASSUME LoginInv, NamesInv, NEW c \in ChIds, NEW ch \in ChallengeRecs, NEW force_lose_id,
         NEW damage \in Damages \cup {0}, NEW bonus \in Bonuses, NEW penalty \in Penalties,
         NEW left, left = judge_turn(c, ch, force_lose_id, damage, bonus, penalty)
  PROVE  Follows(left.down)
<1>1. TypeOK /\ Follows(down) /\ IsTree(user_by_id, Ids, UserInfos)
  BY FollowsNothing DEF LoginInv, TypeOK, ServerTypeOK
<1>2. PICK after, winner, r, sent1, sent, users :
        /\ after = AfterTurn(ch, damage)
        /\ winner = Winner(after, force_lose_id)
        /\ r = TurnR(ch, after, winner)
        /\ sent1 = Send(down, user_by_id[ch.user1].fd, r)
        /\ sent = Send(sent1, user_by_id[ch.user2].fd, r)
        /\ users = EndBattle(user_by_id, after, winner, bonus, penalty)
  OBVIOUS
<1>3. CASE ~ ({ch.user1, ch.user2} \subseteq DOMAIN user_by_id)
  <2>1. left.down = down
    BY <1>3 DEF judge_turn
  <2> QED
    BY <1>1, <2>1
<1>4. CASE {ch.user1, ch.user2} \subseteq DOMAIN user_by_id
  <2>1. damage \in Nat /\ bonus \in Nat /\ penalty \in Nat
    BY RuleAssumption
  <2>2. after \in ChallengeRecs /\ after.user1 = ch.user1 /\ after.user2 = ch.user2
    BY <1>2, <2>1, AfterTurnType
  <2>3. winner \in {ch.user1, ch.user2, NoId} /\ winner \in AnyId
    BY <1>2, <2>2, WinnerType DEF ChallengeRecs, AnyId
  <2>4. r \in DownMsgs /\ r.kind = "TURN_R"
    BY <1>2, <2>2, <2>3, TurnRType DEF TurnR
  <2>5. Named(r) = {}
    BY <2>4 DEF Named
  <2>6. user_by_id[ch.user1].fd \in Fds /\ user_by_id[ch.user2].fd \in Fds
    BY <1>4, KnownFds
  <2>7. Follows(sent1)
    BY <1>1, <1>2, <2>4, <2>5, <2>6, FollowsPlain
  <2>8. Follows(sent)
    BY <1>2, <2>4, <2>5, <2>6, <2>7, FollowsPlain
  <2>9. CASE winner = NoId
    <3>1. left.down = sent
      BY <1>2, <1>4, <2>9 DEF judge_turn
    <3> QED
      BY <2>8, <3>1
  <2>10. CASE winner # NoId
    <3>1. left.down = broadcast_user_changes(sent, users, {ch.user1, ch.user2})
      BY <1>2, <1>4, <2>10 DEF judge_turn
    <3>2. /\ after.user1 \in DOMAIN user_by_id /\ after.user2 \in DOMAIN user_by_id
          /\ winner = after.user1 \/ winner = after.user2
      BY <1>4, <2>2, <2>3, <2>10
    <3>3. IsTree(users, Ids, UserInfos) /\ SameUsers(users)
      BY <1>1, <1>2, <2>1, <2>2, <3>2, EndBattleType, EndBattleSame
    <3>4. PICK ids \in SUBSET DOMAIN users : ids = {ch.user1, ch.user2}
      BY <1>4, <3>3 DEF SameUsers
    <3>5. Follows(broadcast_user_changes(sent, users, ids))
      BY <2>8, <3>3, FollowsBroadcast
    <3> QED
      BY <3>1, <3>4, <3>5
  <2> QED
    BY <2>9, <2>10
<1> QED
  BY <1>3, <1>4

LEMMA TurnJudgedNames ==
  ASSUME LoginInv, NamesInv, NEW fd \in Fds, HandleTurnJudged(fd), UNCHANGED session
  PROVE  NamesInv'
<1>1. TypeOK
  BY DEF LoginInv
<1>2. PICK m : m = Head(up[fd])
  OBVIOUS
<1>3. m.chid \in ChIds /\ NotedBy(m) \in ChallengeRecs /\ Takes(fd, "TURN")
  BY <1>1, <1>2, TurnFacts DEF HandleTurnJudged
<1>4. PICK damage \in Damages, bonus \in Bonuses, penalty \in Penalties :
        down' = judge_turn(m.chid, NotedBy(m), NoId, damage, bonus, penalty).down
  BY <1>2 DEF HandleTurnJudged
<1>5. PICK left : left = judge_turn(m.chid, NotedBy(m), NoId, damage, bonus, penalty)
  OBVIOUS
<1>6. Follows(left.down)
  BY <1>3, <1>5, JudgeFollows
<1> QED
  BY <1>3, <1>4, <1>5, <1>6, FollowsNames

LEMMA QuitUserNames ==
  ASSUME LoginInv, NamesInv, NEW fd \in Fds, NEW kind, Takes(fd, kind), kind # "JOIN",
         NEW u \in DOMAIN user_by_id, quit_user(u), UNCHANGED session
  PROVE  NamesInv'
<1>1. TypeOK
  BY DEF LoginInv
<1>2. PICK user : user = user_by_id[u]
  OBVIOUS
<1> DEFINE Left(bonus, penalty) ==
             IF Fights(u)
               THEN judge_turn(user.chid, ch_by_id[user.chid], u, 0, bonus, penalty)
               ELSE [users |-> user_by_id, chs |-> ch_by_id, down |-> down,
                     server |-> server]
<1>3. PICK bonus \in Bonuses, penalty \in Penalties :
        LET left == Left(bonus, penalty)
            users == [left.users EXCEPT ![u].state = "UOFFLINE"]
        IN  down' = broadcast_user_changes(left.down, users, {u})
  BY <1>2 DEF quit_user
<1>4. PICK left : left = Left(bonus, penalty)
  OBVIOUS
<1>5. PICK users : users = [left.users EXCEPT ![u].state = "UOFFLINE"]
  OBVIOUS
<1>6. down' = broadcast_user_changes(left.down, users, {u})
  BY <1>3, <1>4, <1>5
<1>7. /\ Follows(left.down)
      /\ IsTree(left.users, Ids, UserInfos) /\ DOMAIN left.users = DOMAIN user_by_id
  <2>1. CASE Fights(u)
    <3>1. PICK c \in ChIds, ch \in ChallengeRecs : c = user.chid /\ ch = ch_by_id[user.chid]
      BY <1>1, <1>2, <2>1 DEF Fights, TypeOK, ServerTypeOK, IsTree
    <3>2. left = judge_turn(c, ch, u, 0, bonus, penalty)
      BY <1>4, <2>1, <3>1
    <3>3. JudgedOK(left) /\ JudgedSame(left)
      BY <1>1, <3>2, JudgeType, JudgeSame
    <3>4. Follows(left.down)
      BY <3>2, JudgeFollows
    <3> QED
      BY <3>3, <3>4 DEF JudgedOK, JudgedSame, SameUsers
  <2>2. CASE ~ Fights(u)
    <3>1. left.users = user_by_id /\ left.down = down
      BY <1>4, <2>2
    <3>2. IsTree(user_by_id, Ids, UserInfos)
      BY <1>1 DEF TypeOK, ServerTypeOK
    <3> QED
      BY <3>1, <3>2, FollowsNothing
  <2> QED
    BY <2>1, <2>2
<1>8. IsTree(users, Ids, UserInfos) /\ {u} \in SUBSET DOMAIN users
  <2>1. PICK v : v = [left.users[u] EXCEPT !.state = "UOFFLINE"]
    OBVIOUS
  <2>2. u \in DOMAIN left.users /\ left.users[u] \in UserInfos
    BY <1>7 DEF IsTree
  <2>3. users = [left.users EXCEPT ![u] = v]
    BY <1>5, <2>1
  <2>4. v \in UserInfos
    BY <2>1, <2>2 DEF UserInfos, UserStates
  <2> QED
    BY <1>7, <2>2, <2>3, <2>4, UpdateTree
<1>9. Follows(down')
  BY <1>6, <1>7, <1>8, FollowsBroadcast
<1> QED
  BY <1>9, FollowsNames
----------------------------------------------------------------------------
(* The joins. *)
LEMMA JoinRefusedNames ==
  ASSUME LoginInv, RosterInv, NamesInv, NEW fd \in Fds, HandleJoinRefused(fd),
         UNCHANGED session
  PROVE  NamesInv'
<1>1. down \in [Fds -> Seq(DownMsgs)] /\ Takes(fd, "JOIN") /\ TypeOK
  BY DEF LoginInv, TypeOK, ChannelsTypeOK, HandleJoinRefused
<1>2. PICK r : r.kind = "JOIN_R" /\ down' = Send(down, fd, r)
  <2>1. PICK err : down' = Send(down, fd, JoinR(err, NoId, 0))
    BY DEF HandleJoinRefused
  <2> QED
    BY <2>1 DEF JoinR
<1>3. down[fd] = <<>> /\ session[fd].user_by_id = {}
  BY <1>1, JoinWaits
<1>4. down'[fd] = <<r>> /\ \A f \in Fds : f # fd => down'[f] = down[f]
  BY <1>1, <1>2, <1>3 DEF Send
<1>5. ASSUME NEW f \in Fds PROVE NamesAt(up'[f], down'[f], session'[f])
  <2>1. CASE f = fd
    <3>1. <<r>> # <<>> /\ Head(<<r>>) = r /\ \A i \in DOMAIN <<r>> : <<r>>[i] = r
      OBVIOUS
    <3>2. Resolves(session[fd].user_by_id, <<r>>)
      BY <1>2, <3>1, ResolvesPlain
    <3> QED
      BY <1>2, <1>3, <1>4, <2>1, <3>1, <3>2 DEF NamesAt, Waits
  <2>2. CASE f # fd
    <3>1. up'[f] = up[f] /\ down'[f] = down[f]
      BY <1>1, <1>4, <2>2, UpAfterTakes
    <3> QED
      BY <3>1 DEF NamesInv
  <2> QED
    BY <2>1, <2>2
<1> QED
  BY <1>5, NamesInvNext

LEMMA JoinOkNames ==
  ASSUME LoginInv, RosterInv, NamesInv, NEW fd \in Fds, HandleJoinOk(fd), UNCHANGED session
  PROVE  NamesInv'
<1>1. /\ down \in [Fds -> Seq(DownMsgs)] /\ Takes(fd, "JOIN") /\ TypeOK
      /\ IsTree(user_by_id, Ids, UserInfos) /\ Awake(user_by_id)
  BY DEF LoginInv, TypeOK, ChannelsTypeOK, ServerTypeOK, HandleJoinOk, RosterInv
<1>2. PICK nick \in Nicks : nick = Head(up[fd]).nick
  BY <1>1, TakesType, UpKinds DEF TypeOK
<1>3. PICK new \in UserInfos : new = user_create(fd, nick)
  BY NewUserType
<1>4. PICK users : users = Put(user_by_id, fd, new)
  OBVIOUS
<1>5. PICK j, m, told : /\ j = JoinR("ME_OK", fd, fd)
                        /\ m = Uchange({Info(fd, users[fd])})
                        /\ told = [down EXCEPT ![fd] = (@ \o <<j>>) \o AllUsers(users)]
  OBVIOUS
<1>6. down' = SendAll(told, FdsOf(users) \ {fd}, m)
  BY <1>2, <1>3, <1>4, <1>5, IdFacts DEF HandleJoinOk
<1>7. /\ fd \notin DOMAIN user_by_fd /\ down[fd] = <<>>
      /\ session[fd].user_by_id = {} /\ session[fd].phase \in {"WAIT_MSG", "GONE"}
  BY <1>1, JoinWaits
<1>8. fd \notin DOMAIN user_by_id /\ fd \in Ids
  BY <1>7, KnownFds, IdFacts
<1>9. /\ DOMAIN users = DOMAIN user_by_id \cup {fd} /\ users[fd] = new
      /\ \A id \in DOMAIN user_by_id : users[id] = user_by_id[id]
      /\ IsTree(users, Ids, UserInfos)
  <2>1. IsTree(users, Ids, UserInfos)
    BY <1>1, <1>4, <1>8, PutTree
  <2> QED
    BY <1>4, <1>8, <2>1 DEF Put
<1>10. Awake(users)
  <2>1. new.state = "UONLINE"
    BY <1>3 DEF user_create
  <2> QED
    BY <1>1, <1>9, <2>1 DEF Awake
<1>11. j \in DownMsgs /\ j.kind = "JOIN_R"
  BY <1>5, <1>8 DEF JoinR, DownMsgs, AnyId, AnyKey
<1>12. PICK q : q = <<j>> \o AllUsers(users)
  OBVIOUS
<1>13. q # <<>> /\ Head(q) = j /\ \A i \in DOMAIN q : q[i] = j \/ q[i].kind = "UCHANGE"
  <2>1. Welcomes(fd, j, q, users)
    BY <1>9, <1>10, <1>11, <1>12, FirstList
  <2> QED
    BY <2>1 DEF Welcomes
<1>14. told[fd] = q /\ \A f \in Fds : f # fd => told[f] = down[f]
  <2>1. down[fd] \o <<j>> = <<j>>
    BY <1>7, <1>11
  <2> QED
    BY <1>1, <1>5, <1>12, <2>1
<1>15. /\ down'[fd] = q
       /\ \A f \in Fds : f # fd => down'[f] \in {down[f], Append(down[f], m)}
  BY <1>6, <1>14 DEF SendAll
<1>16. m \in DownMsgs /\ Named(m) = {}
  <2>1. {Info(fd, users[fd])} \in SUBSET Infos
    BY <1>9, InfoType
  <2>2. m \in DownMsgs /\ m.kind = "UCHANGE"
    BY <1>5, <2>1, UchangeType DEF Uchange
  <2> QED
    BY <2>2 DEF Named
<1>17. ASSUME NEW f \in Fds PROVE NamesAt(up'[f], down'[f], session'[f])
  <2>1. CASE f = fd
    <3>1. Resolves(session[fd].user_by_id, q)
      BY <1>11, <1>13, ResolvesPlain
    <3> QED
      BY <1>7, <1>11, <1>13, <1>15, <2>1, <3>1 DEF NamesAt, Waits
  <2>2. CASE f # fd
    <3>1. PICK d \in Seq(DownMsgs) : d = down[f]
      BY <1>1
    <3>2. PICK e : e = Append(d, m)
      OBVIOUS
    <3>3. /\ up'[f] = up[f] /\ (down'[f] = d \/ down'[f] = e) /\ session'[f] = session[f]
      BY <1>1, <1>15, <2>2, <3>1, <3>2, UpAfterTakes
    <3>4. NamesAt(up[f], d, session[f])
      BY <3>1 DEF NamesInv
    <3>5. d # <<>> => e # <<>> /\ Head(e) = Head(d)
      BY <3>2
    <3>6. \A l : Resolves(l, d) => Resolves(l, e)
      BY <1>16, <3>2, ResolvesAppend
    <3>7. NamesAt(up[f], e, session[f])
      BY <3>4, <3>5, <3>6 DEF NamesAt, Waits
    <3> QED
      BY <3>3, <3>4, <3>7
  <2> QED
    BY <2>1, <2>2
<1> QED
  BY <1>17, NamesInvNext

(* Every handler of pkt_handler keeps the invariant. *)
LEMMA HandlerNames ==
  ASSUME LoginInv, RosterInv, NamesInv, NEW fd \in Fds, pkt_handler(fd),
         UNCHANGED clientVars
  PROVE  NamesInv'
<1>1. UNCHANGED session /\ IndexesAgree
  BY DEF clientVars, LoginInv
<1>2. CASE HandleJoinOk(fd)
  BY <1>1, <1>2, JoinOkNames
<1>3. CASE HandleJoinRefused(fd)
  BY <1>1, <1>3, JoinRefusedNames
<1>4. CASE HandleQuit(fd)
  <2>1. CASE Known(Head(up[fd]).id, Head(up[fd]).key)
    <3>1. PICK u \in DOMAIN user_by_id : quit_user(u)
      BY <1>4, <2>1 DEF HandleQuit, Known
    <3>2. Takes(fd, "QUIT")
      BY <1>4 DEF HandleQuit
    <3> QED
      BY <1>1, <3>1, <3>2, QuitUserNames
  <2>2. CASE ~ Known(Head(up[fd]).id, Head(up[fd]).key)
    BY <1>1, <1>4, <2>2, SilentNames
  <2> QED
    BY <2>1, <2>2
<1>5. CASE HandleDisconnect(fd)
  <2>1. fd \in DOMAIN user_by_fd /\ Takes(fd, "EDISCONN")
    BY <1>5 DEF HandleDisconnect
  <2>2. PICK u \in DOMAIN user_by_id : quit_user(u)
    BY <1>1, <1>5, <2>1 DEF HandleDisconnect, IndexesAgree
  <2> QED
    BY <1>1, <2>1, <2>2, QuitUserNames
<1>6. CASE \/ HandleChallengeIgnored(fd) \/ HandleStartNoId(fd)
           \/ HandleDisconnectUnknown(fd) \/ HandleTurnIgnored(fd)
           \/ HandleTurnFirst(fd)
  BY <1>1, <1>6, SilentNames
<1>7. CASE HandleChallengeError(fd)
  BY <1>1, <1>7, ChallengeErrorNames
<1>8. CASE HandleStart(fd)
  BY <1>1, <1>8, StartNames
<1>9. CASE HandleCancel(fd)
  BY <1>1, <1>9, CancelNames
<1>10. CASE HandleAccept(fd)
  BY <1>1, <1>10, AcceptNames
<1>11. CASE HandleReject(fd)
  BY <1>1, <1>11, RejectNames
<1>12. CASE HandleTurnJudged(fd)
  BY <1>1, <1>12, TurnJudgedNames
<1>13. CASE HandleSendmsg(fd)
  BY <1>1, <1>13, SendmsgNames
<1> QED
  BY <1>2, <1>3, <1>4, <1>5, <1>6, <1>7, <1>8, <1>9, <1>10, <1>11, <1>12, <1>13
     DEF pkt_handler
----------------------------------------------------------------------------
(* The clients' steps. *)
LEMMA SessionNames ==
  ASSUME NamesInv, NEW fd \in Fds,
         \A f \in Fds \ {fd} : /\ up'[f] = up[f] /\ down'[f] = down[f]
                               /\ session'[f] = session[f],
         NamesAt(up'[fd], down'[fd], session'[fd])
  PROVE  NamesInv'
<1>1. ASSUME NEW f \in Fds PROVE NamesAt(up'[f], down'[f], session'[f])
  <2>1. NamesAt(up[f], down[f], session[f])
    BY DEF NamesInv
  <2> QED
    BY <2>1
<1> QED
  BY <1>1, NamesInvNext

(* The keys of the main screen leave the list alone. *)
LEMMA MainKeyNames ==
  ASSUME LoginInv, NamesInv, NEW fd \in Fds, session[fd].phase = "MAIN",
         \/ \E id \in Ids : Invite(fd, id)
         \/ Cancel(fd)
         \/ \E action \in {"C_ACCEPT", "C_REJECT"} : Answer(fd, action)
         \/ \E action \in Acts : Act(fd, action)
         \/ Chat(fd)
         \/ Leave(fd)
  PROVE  NamesInv'
<1>1. /\ up \in [Fds -> Seq(UpMsgs)]
      /\ session \in [Fds -> Sessions] /\ session[fd] \in Sessions
  BY DEF LoginInv, TypeOK, ChannelsTypeOK, ClientTypeOK
<1>2. PICK t : /\ session' = [session EXCEPT ![fd] = t]
               /\ \/ \E w : t = [session[fd] EXCEPT !.waiting_for = w]
                  \/ \E a : t = [session[fd] EXCEPT !.acted = a]
                  \/ t = [session[fd] EXCEPT !.phase = "DONE"]
                  \/ t = session[fd]
  <2>1. session = [session EXCEPT ![fd] = session[fd]]
    BY <1>1
  <2> QED
    BY <2>1, Zenon DEF Invite, Cancel, Answer, Act, Chat, Leave, clientVars
<1>3. t.phase \in {"MAIN", "DONE"} /\ t.user_by_id = session[fd].user_by_id
  BY <1>1, <1>2, SessionLooks
<1>4. down' = down /\ \E m : up' = Send(up, fd, m)
  BY DEF Invite, Cancel, Answer, Act, Chat, Leave
<1>5. /\ session'[fd] = t
      /\ \A f \in Fds \ {fd} : up'[f] = up[f] /\ session'[f] = session[f]
  BY <1>1, <1>2, <1>4 DEF Send
<1>6. NamesAt(up'[fd], down[fd], t)
  BY <1>3 DEF NamesInv, NamesAt, Waits
<1> QED
  BY <1>4, <1>5, <1>6, SessionNames

LEMMA LoginNames ==
  ASSUME LoginInv, RosterInv, NamesInv, NEW fd \in Fds, NEW nick, Login(fd, nick)
  PROVE  NamesInv'
<1>1. /\ up \in [Fds -> Seq(UpMsgs)] /\ up[fd] \in Seq(UpMsgs)
      /\ session \in [Fds -> Sessions] /\ session[fd] \in Sessions
  BY DEF LoginInv, TypeOK, ChannelsTypeOK, ClientTypeOK
<1>2. PICK s : s = [session[fd] EXCEPT !.phase = "WAIT_MSG"]
  OBVIOUS
<1>3. s.phase = "WAIT_MSG" /\ s.user_by_id = session[fd].user_by_id
  BY <1>1, <1>2 DEF Sessions
<1>4. PICK j : j = Join(nick)
  OBVIOUS
<1>5. /\ up'[fd] = Append(up[fd], j) /\ down' = down /\ session'[fd] = s
      /\ \A f \in Fds \ {fd} : up'[f] = up[f] /\ session'[f] = session[f]
      /\ session[fd].phase \in {"LOGIN", "RETRY"}
  BY <1>1, <1>2, <1>4 DEF Login, Send
<1>6. /\ session[fd].user_by_id = {}
      /\ \A i \in DOMAIN down[fd] : down[fd][i].kind = "JOIN_R"
  BY <1>5 DEF RosterInv, ViewAt, Begins, Early
<1>7. Has(up'[fd], "JOIN")
  <2>1. j.kind = "JOIN"
    BY <1>4 DEF Join
  <2>2. PICK u \in Seq(UpMsgs) : u = up[fd]
    BY <1>1
  <2>3. Len(u) + 1 \in DOMAIN Append(u, j) /\ Append(u, j)[Len(u) + 1] = j
    OBVIOUS
  <2> QED
    BY <1>5, <2>1, <2>2, <2>3 DEF Has
<1>8. Resolves(s.user_by_id, down[fd])
  BY <1>6, ResolvesPlain
<1>9. NamesAt(up'[fd], down'[fd], session'[fd])
  BY <1>3, <1>5, <1>6, <1>7, <1>8 DEF NamesAt, Waits
<1> QED
  BY <1>5, <1>9, SessionNames

(* ui_login never finds another message before its JOIN_R. *)
LEMMA AnswerFirst ==
  ASSUME LoginInv, RosterInv, NamesInv, NEW fd \in Fds, session[fd].phase = "WAIT_MSG",
         down[fd] # <<>>
  PROVE  Head(down[fd]).kind = "JOIN_R" /\ ~ Has(up[fd], "JOIN")
<1>1. PICK q \in Seq(DownMsgs) : q = down[fd]
  BY DEF LoginInv, TypeOK, ChannelsTypeOK
<1>2. q # <<>> /\ 1 \in DOMAIN q
  BY <1>1
<1>3. ~ Has(up[fd], "JOIN")
  <2> SUFFICES ASSUME Has(up[fd], "JOIN") PROVE FALSE
    OBVIOUS
  <2>1. \A i \in DOMAIN q : q[i].kind = "JOIN_R"
    BY <1>1 DEF RosterInv, ViewAt, Begins, Early
  <2>2. JoinOnceAt(up[fd], q, session[fd].phase, fd \in DOMAIN user_by_fd)
    BY <1>1, JoinOnceIsAt DEF LoginInv
  <2>3. ~ Has(q, "JOIN_R")
    BY <2>2 DEF JoinOnceAt
  <2> QED
    BY <1>2, <2>1, <2>3 DEF Has
<1> QED
  BY <1>3 DEF NamesInv, NamesAt, Waits

LEMMA LoginAnsweredNames ==
  ASSUME LoginInv, RosterInv, NamesInv, NEW fd \in Fds, LoginAnswered(fd)
  PROVE  NamesInv'
<1>1. /\ down \in [Fds -> Seq(DownMsgs)] /\ down[fd] \in Seq(DownMsgs)
      /\ session \in [Fds -> Sessions] /\ session[fd] \in Sessions
  BY DEF LoginInv, TypeOK, ChannelsTypeOK, ClientTypeOK
<1>2. /\ down[fd] # <<>> /\ down' = [down EXCEPT ![fd] = Tail(down[fd])] /\ up' = up
      /\ session[fd].phase = "WAIT_MSG"
  BY DEF LoginAnswered, Receives
<1>3. PICK q \in Seq(DownMsgs) : q = down[fd]
  BY <1>1
<1>4. PICK r, t : r = Head(q) /\ t = Tail(q)
  OBVIOUS
<1>5. r.kind = "JOIN_R"
  BY <1>2, <1>3, <1>4, AnswerFirst
<1>6. session[fd].user_by_id = {} /\ Resolves({}, q)
  BY <1>2, <1>3 DEF NamesInv, NamesAt
<1>7. Resolves({}, t)
  <2>1. Take({}, r) = {}
    BY <1>5, PlainTake
  <2> QED
    BY <1>2, <1>3, <1>4, <1>6, <2>1, ResolvesHead
<1>8. down'[fd] = t /\ \A f \in Fds \ {fd} : down'[f] = down[f]
  BY <1>1, <1>2, <1>3, <1>4
<1>9. \A f \in Fds \ {fd} : session'[f] = session[f]
  BY <1>1 DEF LoginAnswered
<1>10. CASE r.error # "ME_OK"
  <2>1. PICK s : s = [session[fd] EXCEPT !.phase = "RETRY"]
    OBVIOUS
  <2>2. s.phase = "RETRY" /\ s.user_by_id = {}
    BY <1>1, <1>6, <2>1 DEF Sessions
  <2>3. session'[fd] = s
    BY <1>1, <1>3, <1>4, <1>5, <1>10, <2>1 DEF LoginAnswered
  <2>4. NamesAt(up'[fd], down'[fd], session'[fd])
    BY <2>2, <2>3 DEF NamesAt, Waits
  <2> QED
    BY <1>2, <1>8, <1>9, <2>4, SessionNames
<1>11. CASE r.error = "ME_OK"
  <2>1. PICK acted \in UnsetActed, state \in UnsetState :
          session' = [session EXCEPT ![fd] = New(r.id, r.key, acted, state)]
    <3>1. Head(down[fd]) = r
      BY <1>3, <1>4
    <3> QED
      BY <1>5, <1>11, <3>1, Zenon DEF LoginAnswered, New
  <2>2. PICK s : s = New(r.id, r.key, acted, state)
    OBVIOUS
  <2>3. session'[fd] = s
    BY <1>1, <2>1, <2>2
  <2>4. s.phase = "MAIN" /\ s.user_by_id = {}
    BY <2>2, NewIs
  <2>5. NamesAt(up'[fd], down'[fd], session'[fd])
    BY <1>7, <1>8, <2>3, <2>4 DEF NamesAt, Waits
  <2> QED
    BY <1>2, <1>8, <1>9, <2>5, SessionNames
<1> QED
  BY <1>10, <1>11

LEMMA MainReceivesNames ==
  ASSUME LoginInv, NamesInv, NEW fd \in Fds, MainReceives(fd)
  PROVE  NamesInv'
<1>1. /\ down \in [Fds -> Seq(DownMsgs)] /\ down[fd] \in Seq(DownMsgs)
      /\ up \in [Fds -> Seq(UpMsgs)]
      /\ session \in [Fds -> Sessions] /\ session[fd] \in Sessions
  BY DEF LoginInv, TypeOK, ChannelsTypeOK, ClientTypeOK
<1>2. PICK s \in Sessions : s = session[fd]
  BY <1>1
<1>3. PICK q \in Seq(DownMsgs) : q = down[fd]
  BY <1>1
<1>4. PICK m, t : m = Head(q) /\ t = Tail(q)
  OBVIOUS
<1>5. /\ q # <<>> /\ down' = [down EXCEPT ![fd] = t] /\ s.phase = "MAIN"
      /\ up' = [up EXCEPT ![fd] = up[fd] \o Answers(s, m)]
      /\ session' = [session EXCEPT ![fd] = Handled(s, m)]
  BY <1>2, <1>3, <1>4 DEF MainReceives, Receives
<1>6. m \in DownMsgs
  BY <1>4, <1>5, TailView
<1>7. PICK h : h = Handled(s, m)
  OBVIOUS
<1>8. /\ down'[fd] = t /\ session'[fd] = h
      /\ \A f \in Fds \ {fd} : /\ up'[f] = up[f] /\ down'[f] = down[f]
                               /\ session'[f] = session[f]
  BY <1>1, <1>5, <1>7
<1>9. CASE ~ Ends(s.id, m)
  <2>1. h.user_by_id = Take(s.user_by_id, m) /\ h.phase = "MAIN"
    BY <1>5, <1>6, <1>7, <1>9, HandledList
  <2>2. s.user_by_id \in SUBSET Infos
    BY DEF Sessions
  <2>3. Resolves(s.user_by_id, q)
    BY <1>2, <1>3, <1>5 DEF NamesInv, NamesAt
  <2>4. Resolves(Take(s.user_by_id, m), t)
    BY <1>4, <1>5, <2>2, <2>3, ResolvesHead
  <2>5. NamesAt(up'[fd], down'[fd], session'[fd])
    BY <1>8, <2>1, <2>4 DEF NamesAt, Waits
  <2> QED
    BY <1>8, <2>5, SessionNames
<1>10. CASE Ends(s.id, m)
  <2>1. m.kind = "UCHANGE" /\ \E i \in m.users : i.id = s.id /\ i.state = "UOFFLINE"
    BY <1>10 DEF Ends
  <2>2. h = [s EXCEPT !.phase = "DONE"]
    BY <1>7, <2>1 DEF OnUchange, Handled
  <2>3. h.phase = "DONE"
    BY <2>2 DEF Sessions
  <2>4. NamesAt(up'[fd], down'[fd], session'[fd])
    BY <1>8, <2>3 DEF NamesAt, Waits
  <2> QED
    BY <1>8, <2>4, SessionNames
<1> QED
  BY <1>9, <1>10

(* Nothing is asked of a session that has ended. *)
LEMMA EndedNames ==
  ASSUME LoginInv, NamesInv, NEW fd \in Fds, Discards(fd) \/ Lose(fd)
  PROVE  NamesInv'
<1>1. /\ down \in [Fds -> Seq(DownMsgs)] /\ up \in [Fds -> Seq(UpMsgs)]
      /\ session \in [Fds -> Sessions] /\ session[fd] \in Sessions
  BY DEF LoginInv, TypeOK, ChannelsTypeOK, ClientTypeOK
<1>2. CASE Discards(fd)
  <2>1. /\ session' = session /\ up' = up /\ session[fd].phase \in {"DONE", "GONE"}
        /\ \A f \in Fds \ {fd} : down'[f] = down[f]
    BY <1>1, <1>2 DEF Discards, clientVars
  <2>2. NamesAt(up'[fd], down'[fd], session'[fd])
    BY <2>1 DEF NamesAt, Waits
  <2> QED
    BY <2>1, <2>2, SessionNames
<1>3. CASE Lose(fd)
  <2>1. PICK s : s = [session[fd] EXCEPT !.phase = "GONE"]
    OBVIOUS
  <2>2. s.phase = "GONE"
    BY <1>1, <2>1 DEF Sessions
  <2>3. /\ down' = down /\ session'[fd] = s
        /\ \A f \in Fds \ {fd} : up'[f] = up[f] /\ session'[f] = session[f]
    BY <1>1, <1>3, <2>1 DEF Lose
  <2>4. NamesAt(up'[fd], down'[fd], session'[fd])
    BY <2>2, <2>3 DEF NamesAt, Waits
  <2> QED
    BY <2>3, <2>4, SessionNames
<1> QED
  BY <1>2, <1>3
----------------------------------------------------------------------------
LEMMA InitNames == Init => NamesInv
<1> SUFFICES ASSUME Init, NEW fd \in Fds PROVE NamesAt(up[fd], down[fd], session[fd])
  BY DEF NamesInv
<1>1. PICK s : s = session[fd]
  OBVIOUS
<1>2. s.phase = "LOGIN" /\ s.user_by_id = {}
  BY <1>1 DEF Init, ClientInit, NewSession
<1> QED
  BY <1>1, <1>2 DEF NamesAt, Waits

LEMMA NextNames == LoginInv /\ RosterInv /\ NamesInv /\ [Next]_vars => NamesInv'
<1> SUFFICES ASSUME LoginInv, RosterInv, NamesInv, [Next]_vars PROVE NamesInv'
  OBVIOUS
<1>1. ASSUME NEW fd \in Fds, pkt_handler(fd), UNCHANGED clientVars PROVE NamesInv'
  BY <1>1, HandlerNames
<1>2. ASSUME NEW fd \in Fds, Key(fd) PROVE NamesInv'
  <2>1. CASE \E nick \in Nicks : Login(fd, nick)
    BY <2>1, LoginNames
  <2>2. CASE ~ \E nick \in Nicks : Login(fd, nick)
    <3>1. session[fd].phase = "MAIN"
      BY <1>2, <2>2 DEF Key, Invite, Cancel, Answer, Act, Chat, Leave, InMain
    <3> QED
      BY <1>2, <2>2, <3>1, MainKeyNames DEF Key
  <2> QED
    BY <2>1, <2>2
<1>3. ASSUME NEW fd \in Fds, Receive(fd) \/ Lose(fd) PROVE NamesInv'
  BY <1>3, LoginAnsweredNames, MainReceivesNames, EndedNames DEF Receive
<1>4. ASSUME UNCHANGED vars PROVE NamesInv'
  <2>1. UNCHANGED <<up, down, session>>
    BY <1>4 DEF vars, channels, clientVars
  <2> QED
    BY <2>1, NamesInvNext DEF NamesInv
<1> QED
  BY <1>1, <1>2, <1>3, <1>4 DEF Next

(* The invariant of the names holds of the whole game: whatever is on its  *)
(* way to a session, each message finds the users that it names in the     *)
(* list as the messages before it leave that list.                         *)
THEOREM NamesInvariant == Spec => []NamesInv
<1>1. Init => NamesInv
  BY InitNames
<1>2. LoginInv /\ RosterInv /\ NamesInv /\ [Next]_vars => NamesInv'
  BY NextNames
<1> QED
  BY <1>1, <1>2, JankenInvariant, RosterInvariant, PTL DEF Spec

(* Every user whom the next message names (the author of a chat line, the  *)
(* challenger, the opponent of an accepted challenge) is in the client's   *)
(* list, so that ui_main never falls back to "<unknown>" nor to "-": the   *)
(* server names only users whose arrival it has broadcast and whose        *)
(* departure it has not, and messages are read in the order of sending.    *)
THEOREM JankenNamesResolve == Spec => []NamesResolve
<1>1. LoginInv /\ NamesInv => NamesResolve
  BY NamesInvIs DEF LoginInv
<1> QED
  BY <1>1, JankenInvariant, NamesInvariant, PTL
=============================================================================
