----------------------------- MODULE DuelProofs -----------------------------
(***************************************************************************)
(* What the players see of their battle, for every set of connections and  *)
(* every value of the rules' constants: with the messages on their way     *)
(* taken, a client is in a battle if the server has it in one, and then in *)
(* that one, on its side, at its turn and with its hit points; what it     *)
(* prints of a turn is what the turn has done to the hit points; and of a  *)
(* player the server waits for, the action is on its way, or the player    *)
(* will be able to act; and the turn that the server notes of a player who *)
(* has not acted before it was told one is the turn the battle is at.      *)
(***************************************************************************)
EXTENDS ViewProofs, JankenTurns

(* Seals: m says which battle a session is in.  Firm: whatever popup is    *)
(* up, the messages q leave a session that knows its battle knowing it: no *)
(* CHALLENGE, which a session without a popup would take, is among them    *)
(* but before such a message.                                              *)
Seals(m) == m.kind = "CHALLENGE_R" /\ m.error = "ME_OK"

FirmFrom(q, k) ==
  /\ k # 0 => Seals(q[k])
  /\ \A i \in DOMAIN q : i > k => q[i].kind # "CHALLENGE"

Firm(q) == \E k \in 0 .. Len(q) : FirmFrom(q, k)

LEMMA FirmAppend ==
  ASSUME NEW q \in Seq(DownMsgs), NEW m \in DownMsgs
  PROVE  /\ Firm(q) /\ m.kind # "CHALLENGE" => Firm(Append(q, m))
         /\ Seals(m) => Firm(Append(q, m))
<1>1. PICK r : r = Append(q, m)
  OBVIOUS
<1>2. /\ r \in Seq(DownMsgs) /\ Len(r) = Len(q) + 1 /\ Len(q) \in Nat /\ r[Len(q) + 1] = m
      /\ \A i \in DOMAIN r : i = Len(q) + 1 \/ (i \in DOMAIN q /\ i <= Len(q))
      /\ \A i \in 1 .. Len(q) : r[i] = q[i]
      /\ DOMAIN q = 1 .. Len(q)
  BY <1>1
<1>3. ASSUME Firm(q), m.kind # "CHALLENGE" PROVE Firm(r)
  <2>1. PICK k \in 0 .. Len(q) : FirmFrom(q, k)
    BY <1>3 DEF Firm
  <2>2. k # 0 => Seals(r[k])
    BY <1>2, <2>1 DEF FirmFrom
  <2>3. \A i \in DOMAIN r : i > k => r[i].kind # "CHALLENGE"
    BY <1>2, <1>3, <2>1 DEF FirmFrom
  <2>4. k \in 0 .. Len(r)
    BY <1>2
  <2> QED
    BY <2>2, <2>3, <2>4 DEF Firm, FirmFrom
<1>4. ASSUME Seals(m) PROVE Firm(r)
  <2>1. PICK k : k = Len(q) + 1
    OBVIOUS
  <2>2. k \in 0 .. Len(r) /\ Seals(r[k]) /\ \A i \in DOMAIN r : ~ (i > k)
    BY <1>2, <1>4, <2>1
  <2> QED
    BY <2>2 DEF Firm, FirmFrom
<1> QED
  BY <1>1, <1>3, <1>4

LEMMA FirmTail ==
  ASSUME NEW q \in Seq(DownMsgs), q # <<>>, Firm(q) PROVE Firm(Tail(q))
<1>1. PICK t : t = Tail(q)
  OBVIOUS
<1>2. /\ Len(q) \in Nat /\ Len(t) = Len(q) - 1 /\ Len(q) > 0
      /\ \A i \in DOMAIN t : i \in Nat /\ i + 1 \in DOMAIN q /\ t[i] = q[i + 1]
      /\ DOMAIN t = 1 .. Len(t)
  BY <1>1
<1>3. PICK k \in 0 .. Len(q) : FirmFrom(q, k)
  BY DEF Firm
<1>4. CASE k \in {0, 1}
  <2>1. \A i \in DOMAIN t : i > 0 => t[i].kind # "CHALLENGE"
    BY <1>2, <1>3, <1>4 DEF FirmFrom
  <2>2. 0 \in 0 .. Len(t)
    BY <1>2
  <2> QED
    BY <1>1, <2>1, <2>2 DEF Firm, FirmFrom
<1>5. CASE k \notin {0, 1}
  <2>1. PICK j : j = k - 1
    OBVIOUS
  <2>2. j \in 0 .. Len(t) /\ j \in DOMAIN t /\ j + 1 = k
    BY <1>2, <1>5, <2>1
  <2>3. Seals(t[j])
    BY <1>2, <1>3, <1>5, <2>2 DEF FirmFrom
  <2>4. \A i \in DOMAIN t : i > j => t[i].kind # "CHALLENGE"
    BY <1>2, <1>3, <2>2 DEF FirmFrom
  <2> QED
    BY <1>1, <2>2, <2>3, <2>4 DEF Firm, FirmFrom
<1> QED
  BY <1>4, <1>5
----------------------------------------------------------------------------
(* What a message does to the fields of a battle. *)
SameDuel(s, t) ==
  /\ t.chid = s.chid /\ t.opponent_id = s.opponent_id /\ t.is_user1 = s.is_user1
  /\ t.turn_no = s.turn_no /\ t.hp = s.hp /\ t.opponent_hp = s.opponent_hp

(* A message that says nothing of battles: a chat line, or a refusal. *)
Neutral(m) ==
  \/ m.kind \in {"SENDMSG", "JOIN_R"}
  \/ m.kind = "CHALLENGE_R" /\ m.error # "ME_OK"

LEMMA NeutralDuel ==
  ASSUME NEW s \in Sessions, NEW m, Neutral(m)
  PROVE  SameDuel(s, Handled(s, m)) /\ Handled(s, m).state = s.state
<1>1. CASE m.kind \in {"SENDMSG", "JOIN_R"}
  <2>1. Handled(s, m) = s
    BY <1>1 DEF Handled
  <2> QED
    BY <2>1 DEF SameDuel
<1>2. CASE m.kind = "CHALLENGE_R" /\ m.error # "ME_OK"
  <2>1. Handled(s, m) = [s EXCEPT !.waiting_for = "W_NONE"]
    BY <1>2 DEF Handled, OnChallengeR
  <2> QED
    BY <2>1 DEF SameDuel, Sessions
<1> QED
  BY <1>1, <1>2 DEF Neutral

LEMMA ChangeDuel ==
  ASSUME NEW s \in Sessions, NEW users, NEW ids, NEW m, m = Uchange(Part(users, ids)),
         s.id \in ids => users[s.id].state # "UOFFLINE"
  PROVE  /\ SameDuel(s, Handled(s, m))
         /\ s.id \in ids => Handled(s, m).state = users[s.id].state
         /\ s.id \notin ids => Handled(s, m).state = s.state
<1>1. m.kind = "UCHANGE" /\ m.users = Part(users, ids)
  BY DEF Uchange
<1>2. Handled(s, m) = OnUchange(s, m)
  BY <1>1 DEF Handled
<1> DEFINE mine == {i \in m.users : i.id = s.id}
           listed == [s EXCEPT !.user_by_id = Updated(@, m.users)]
<1>3. SameDuel(s, listed) /\ listed.state = s.state
  BY DEF SameDuel, Sessions
<1>4. mine = IF s.id \in ids THEN {Info(s.id, users[s.id])} ELSE {}
  BY <1>1, InfoIs DEF Part
<1>5. CASE s.id \notin ids
  <2>1. OnUchange(s, m) = listed
    BY <1>4, <1>5 DEF OnUchange
  <2> QED
    BY <1>2, <1>3, <1>5, <2>1
<1>6. CASE s.id \in ids
  <2>1. PICK st : st = users[s.id].state
    OBVIOUS
  <2>2. mine = {Info(s.id, users[s.id])} /\ Info(s.id, users[s.id]).state = st
    BY <1>4, <1>6, <2>1, InfoIs
  <2>3. OnUchange(s, m) = [listed EXCEPT !.state = st]
    BY <1>6, <2>1, <2>2 DEF OnUchange
  <2>4. SameDuel(listed, [listed EXCEPT !.state = st]) /\ [listed EXCEPT !.state = st].state = st
    BY DEF SameDuel, Sessions
  <2> HIDE DEF listed
  <2> QED
    BY <1>2, <1>3, <1>6, <2>1, <2>3, <2>4 DEF SameDuel
<1> QED
  BY <1>5, <1>6

LEMMA TurnDuel ==
  ASSUME NEW s \in Sessions, NEW m, m.kind = "TURN_R"
  PROVE  LET t == Handled(s, m) IN
         /\ t.state = s.state /\ t.chid = s.chid /\ t.opponent_id = s.opponent_id
         /\ t.is_user1 = s.is_user1
         /\ s.is_user1 => t.hp = m.hp1 /\ t.opponent_hp = m.hp2
         /\ ~ s.is_user1 => t.hp = m.hp2 /\ t.opponent_hp = m.hp1
         /\ ~ m.fin => t.turn_no = m.turn_no
<1>1. Handled(s, m) = OnTurnR(s, m)
  BY DEF Handled
<1> QED
  BY <1>1 DEF OnTurnR, Sessions

LEMMA SealsDuel ==
  ASSUME NEW s \in Sessions, NEW m, Seals(m)
  PROVE  LET t == Handled(s, m) IN
         /\ t.state = "UBATTLING" /\ t.chid = m.chid
         /\ t.opponent_id = IF m.is_id1 THEN m.id2 ELSE m.id1
         /\ t.is_user1 = m.is_id1
         /\ t.turn_no = s.turn_no /\ t.hp = s.hp /\ t.opponent_hp = s.opponent_hp
<1>1. Handled(s, m) = OnChallengeR(s, m)
  BY DEF Handled, Seals
<1> QED
  BY <1>1 DEF OnChallengeR, Sessions, Seals

LEMMA ChallengeDuel ==
  ASSUME NEW s \in Sessions, NEW m, m.kind = "CHALLENGE"
  PROVE  LET t == Handled(s, m) IN
         /\ t.state = s.state /\ t.is_user1 = s.is_user1
         /\ t.turn_no = s.turn_no /\ t.hp = s.hp /\ t.opponent_hp = s.opponent_hp
<1>1. Handled(s, m) = OnChallenge(s, m)
  BY DEF Handled
<1> QED
  BY <1>1 DEF OnChallenge, Sessions
----------------------------------------------------------------------------
(* Two sessions of one user that differ in their popup, or in whether the  *)
(* player has acted: what they have of the battle after the same messages  *)
(* is the same, but for who is fought if the messages are not Firm.        *)
Alike(s, t) ==
  /\ s \in Sessions /\ t \in Sessions /\ t.id = s.id
  /\ t.state = s.state /\ t.is_user1 = s.is_user1 /\ t.turn_no = s.turn_no
  /\ t.hp = s.hp /\ t.opponent_hp = s.opponent_hp

AlikePair(s, t) == t.chid = s.chid /\ t.opponent_id = s.opponent_id

LEMMA ChangeFields ==
  ASSUME NEW s \in Sessions, NEW m, m.kind = "UCHANGE", ~ Ends(s.id, m)
  PROVE  /\ SameDuel(s, Handled(s, m))
         /\ LET mine == {i \in m.users : i.id = s.id} IN
            Handled(s, m).state = IF mine = {} THEN s.state ELSE (CHOOSE i \in mine : TRUE).state
<1> DEFINE mine == {i \in m.users : i.id = s.id}
           listed == [s EXCEPT !.user_by_id = Updated(@, m.users)]
           st == (CHOOSE i \in mine : TRUE).state
<1>1. Handled(s, m) = OnUchange(s, m)
  BY DEF Handled
<1>2. SameDuel(s, listed) /\ listed.state = s.state
  BY DEF SameDuel, Sessions
<1>3. ~ \E i \in mine : i.state = "UOFFLINE"
  BY DEF Ends
<1>4. OnUchange(s, m) = IF mine = {} THEN listed ELSE [listed EXCEPT !.state = st]
  BY <1>3 DEF OnUchange
<1> HIDE DEF st
<1>5. SameDuel(listed, [listed EXCEPT !.state = st]) /\ [listed EXCEPT !.state = st].state = st
  BY DEF SameDuel, Sessions
<1> HIDE DEF listed, mine
<1>6. /\ SameDuel(s, OnUchange(s, m))
      /\ OnUchange(s, m).state = IF mine = {} THEN s.state ELSE st
  BY <1>2, <1>4, <1>5 DEF SameDuel
<1> QED
  BY <1>1, <1>6 DEF mine, st

LEMMA AlikeStep ==
  ASSUME NEW s, NEW t, Alike(s, t), NEW m \in DownMsgs, ~ Ends(s.id, m)
  PROVE  /\ Alike(Handled(s, m), Handled(t, m))
         /\ Seals(m) => AlikePair(Handled(s, m), Handled(t, m))
         /\ AlikePair(s, t) /\ m.kind # "CHALLENGE" => AlikePair(Handled(s, m), Handled(t, m))
<1>1. /\ s \in Sessions /\ t \in Sessions /\ t.id = s.id
      /\ Handled(s, m) \in Sessions /\ Handled(t, m) \in Sessions
      /\ Handled(s, m).id = s.id /\ Handled(t, m).id = t.id
  BY HandledType, HandledId DEF Alike
<1>2. PICK a, b : a = Handled(s, m) /\ b = Handled(t, m)
  OBVIOUS
<1>3. CASE Neutral(m)
  <2>1. SameDuel(s, a) /\ a.state = s.state /\ SameDuel(t, b) /\ b.state = t.state
    BY <1>1, <1>2, <1>3, NeutralDuel
  <2>2. ~ Seals(m)
    BY <1>3 DEF Neutral, Seals
  <2> QED
    BY <1>1, <1>2, <2>1, <2>2 DEF Alike, AlikePair, SameDuel
<1>4. CASE m.kind = "UCHANGE"
  <2>1. PICK mine : mine = {i \in m.users : i.id = s.id}
    OBVIOUS
  <2>2. PICK st : st = (CHOOSE i \in mine : TRUE).state
    OBVIOUS
  <2>3. SameDuel(s, a) /\ a.state = IF mine = {} THEN s.state ELSE st
    BY <1>1, <1>2, <1>4, <2>1, <2>2, ChangeFields
  <2>4. SameDuel(t, b) /\ b.state = IF mine = {} THEN t.state ELSE st
    BY <1>1, <1>2, <1>4, <2>1, <2>2, ChangeFields
  <2>5. ~ Seals(m)
    BY <1>4 DEF Seals
  <2> QED
    BY <1>1, <1>2, <2>3, <2>4, <2>5 DEF Alike, AlikePair, SameDuel
<1>5. CASE m.kind = "TURN_R"
  <2>1. a = OnTurnR(s, m) /\ b = OnTurnR(t, m)
    BY <1>2, <1>5 DEF Handled
  <2>2. a.turn_no = b.turn_no
    BY <1>1, <2>1 DEF OnTurnR, Sessions, Alike
  <2>3. a.hp = b.hp /\ a.opponent_hp = b.opponent_hp
    BY <1>1, <2>1 DEF OnTurnR, Sessions, Alike
  <2>4. /\ a.state = s.state /\ a.chid = s.chid /\ a.opponent_id = s.opponent_id
        /\ a.is_user1 = s.is_user1
        /\ b.state = t.state /\ b.chid = t.chid /\ b.opponent_id = t.opponent_id
        /\ b.is_user1 = t.is_user1
    BY <1>1, <1>2, <1>5, TurnDuel
  <2>5. ~ Seals(m)
    BY <1>5 DEF Seals
  <2> QED
    BY <1>1, <1>2, <2>2, <2>3, <2>4, <2>5 DEF Alike, AlikePair
<1>6. CASE Seals(m)
  <2>1. PICK o : o = IF m.is_id1 THEN m.id2 ELSE m.id1
    OBVIOUS
  <2>2. /\ a.state = "UBATTLING" /\ a.chid = m.chid /\ a.opponent_id = o
        /\ a.is_user1 = m.is_id1 /\ a.turn_no = s.turn_no /\ a.hp = s.hp
        /\ a.opponent_hp = s.opponent_hp
    BY <1>1, <1>2, <1>6, <2>1, SealsDuel
  <2>3. /\ b.state = "UBATTLING" /\ b.chid = m.chid /\ b.opponent_id = o
        /\ b.is_user1 = m.is_id1 /\ b.turn_no = t.turn_no /\ b.hp = t.hp
        /\ b.opponent_hp = t.opponent_hp
    BY <1>1, <1>2, <1>6, <2>1, SealsDuel
  <2> QED
    BY <1>1, <1>2, <2>2, <2>3 DEF Alike, AlikePair
<1>7. CASE m.kind = "CHALLENGE"
  <2>1. /\ a.state = s.state /\ a.is_user1 = s.is_user1
        /\ a.turn_no = s.turn_no /\ a.hp = s.hp /\ a.opponent_hp = s.opponent_hp
        /\ b.state = t.state /\ b.is_user1 = t.is_user1
        /\ b.turn_no = t.turn_no /\ b.hp = t.hp /\ b.opponent_hp = t.opponent_hp
    BY <1>1, <1>2, <1>7, ChallengeDuel
  <2>2. ~ Seals(m)
    BY <1>7 DEF Seals
  <2> QED
    BY <1>1, <1>2, <1>7, <2>1, <2>2 DEF Alike
<1>8. m.kind \in {"JOIN_R", "UCHANGE", "CHALLENGE", "SENDMSG", "CHALLENGE_R", "TURN_R"}
  BY DEF DownMsgs, Challenges, SendMsgs
<1> QED
  BY <1>3, <1>4, <1>5, <1>6, <1>7, <1>8 DEF Neutral, Seals

LEMMA AfterAlike ==
  ASSUME NEW s, NEW t, Alike(s, t), AlikePair(s, t), NEW q \in Seq(DownMsgs), Lasts(s.id, q)
  PROVE  /\ Alike(After(s, q), After(t, q))
         /\ Firm(q) => AlikePair(After(s, q), After(t, q))
<1>1. /\ Len(q) \in Nat /\ DOMAIN q = 1 .. Len(q)
      /\ \A i \in 1 .. Len(q) : q[i] \in DownMsgs /\ ~ Ends(s.id, q[i])
  BY DEF Lasts
<1>2. PICK F : Stepping(F, Len(q), s, q) /\ After(s, q) = F[Len(q)]
  BY <1>1, AfterSteps, Zenon
<1>3. PICK G : Stepping(G, Len(q), t, q) /\ After(t, q) = G[Len(q)]
  BY <1>1, AfterSteps, Zenon
<1>4. F[0] = s /\ \A i \in 1 .. Len(q) : F[i] = Handled(F[i - 1], q[i])
  BY <1>2, Zenon DEF Stepping
<1>5. G[0] = t /\ \A i \in 1 .. Len(q) : G[i] = Handled(G[i - 1], q[i])
  BY <1>3, Zenon DEF Stepping
<1> DEFINE Sealed(i) == \E k \in 0 .. i : /\ k # 0 => Seals(q[k])
                                          /\ \A j \in k + 1 .. i : q[j].kind # "CHALLENGE"
           Both(i) == /\ Alike(F[i], G[i]) /\ F[i].id = s.id
                      /\ Sealed(i) => AlikePair(F[i], G[i])
           S == {i \in Nat : i <= Len(q) => Both(i)}
<1>6. 0 \in S
  BY <1>4, <1>5
<1>7. ASSUME NEW i \in S PROVE i + 1 \in S
  <2>1. SUFFICES ASSUME i + 1 <= Len(q) PROVE Both(i + 1)
    OBVIOUS
  <2>2. i \in Nat /\ i + 1 \in 1 .. Len(q) /\ (i + 1) - 1 = i /\ Both(i)
    BY <1>1, <2>1
  <2>3. PICK m \in DownMsgs : m = q[i + 1] /\ ~ Ends(s.id, m)
    BY <1>1, <2>2
  <2>4. F[i + 1] = Handled(F[i], m) /\ G[i + 1] = Handled(G[i], m)
    BY <1>4, <1>5, <2>2, <2>3
  <2>5. PICK a, b : a = F[i] /\ b = G[i]
    OBVIOUS
  <2>6. Alike(a, b) /\ a.id = s.id /\ (Sealed(i) => AlikePair(a, b))
    BY <2>2, <2>5
  <2> HIDE DEF Sealed
  <2>7. /\ Alike(Handled(a, m), Handled(b, m))
        /\ Seals(m) => AlikePair(Handled(a, m), Handled(b, m))
        /\ AlikePair(a, b) /\ m.kind # "CHALLENGE" => AlikePair(Handled(a, m), Handled(b, m))
    BY <2>3, <2>6, AlikeStep
  <2>8. Handled(a, m).id = s.id
    BY <2>6, HandledId DEF Alike
  <2>9. Sealed(i + 1) => Seals(m) \/ (Sealed(i) /\ m.kind # "CHALLENGE")
    <3>1. SUFFICES ASSUME Sealed(i + 1), ~ Seals(m) PROVE Sealed(i) /\ m.kind # "CHALLENGE"
      OBVIOUS
    <3>2. PICK k \in 0 .. i + 1 : /\ k # 0 => Seals(q[k])
                                  /\ \A j \in k + 1 .. i + 1 : q[j].kind # "CHALLENGE"
      BY <3>1 DEF Sealed
    <3>3. k \in 0 .. i
      BY <2>2, <2>3, <3>1, <3>2
    <3>4. i + 1 \in k + 1 .. i + 1 /\ \A j \in k + 1 .. i : j \in k + 1 .. i + 1
      BY <2>2, <3>3
    <3> QED
      BY <2>3, <3>2, <3>3, <3>4 DEF Sealed
  <2> QED
    BY <2>4, <2>5, <2>6, <2>7, <2>8, <2>9
<1>8. S \in SUBSET Nat
  OBVIOUS
<1> HIDE DEF S
<1>9. Len(q) \in S
  BY <1>1, <1>6, <1>7, <1>8, NatInduct
<1>10. Both(Len(q))
  BY <1>1, <1>9 DEF S
<1>11. Firm(q) => Sealed(Len(q))
  <2>1. SUFFICES ASSUME Firm(q) PROVE Sealed(Len(q))
    OBVIOUS
  <2>2. PICK k \in 0 .. Len(q) : FirmFrom(q, k)
    BY <2>1 DEF Firm
  <2>3. \A j \in k + 1 .. Len(q) : j \in DOMAIN q /\ j > k
    BY <1>1
  <2> QED
    BY <2>2, <2>3 DEF FirmFrom
<1> HIDE DEF Sealed
<1> QED
  BY <1>2, <1>3, <1>10, <1>11
----------------------------------------------------------------------------
(* What a session z of user fd has of battle c, in the form ch, once it    *)
(* has read q: "idle", it is in no battle; "busy", it is in one; "pair",   *)
(* and knows which, its side and its opponent; "all", and the turn and the *)
(* hit points.                                                             *)
Knows(fd, z, c, ch) ==
  /\ z.chid = c
  /\ ch.user1 = fd => z.is_user1
  /\ ch.user1 # fd => ~ z.is_user1
  /\ z.opponent_id \in {ch.user1, ch.user2} \ {fd}

Counts(fd, z, ch) ==
  /\ z.turn_no = ch.turn_no
  /\ ch.user1 = fd => z.hp = ch.hp1 /\ z.opponent_hp = ch.hp2
  /\ ch.user1 # fd => z.hp = ch.hp2 /\ z.opponent_hp = ch.hp1

Claim(fd, q, z, mode, c, ch) ==
  /\ z \in Sessions /\ z.id = fd /\ z.phase = "MAIN"
  /\ mode = "idle" => z.state # "UBATTLING"
  /\ mode \in {"busy", "pair", "all"} => z.state = "UBATTLING"
  /\ mode \in {"pair", "all"} => Firm(q) /\ Knows(fd, z, c, ch)
  /\ mode = "all" => Counts(fd, z, ch)

(* Turns: message m takes a session of fd from one claim to another. *)
Turns(fd, m, mode, c, ch, mode2, c2, ch2) ==
  \A z, p : p \in Seq(DownMsgs) /\ Claim(fd, p, z, mode, c, ch) =>
              Claim(fd, Append(p, m), Handled(z, m), mode2, c2, ch2)


LEMMA ClaimBase ==
  ASSUME NEW fd, NEW p, NEW z, NEW mode, NEW c, NEW ch, Claim(fd, p, z, mode, c, ch),
         NEW m \in DownMsgs, ~ Ends(fd, m)
  PROVE  /\ z \in Sessions /\ z.id = fd
         /\ Handled(z, m) \in Sessions /\ Handled(z, m).id = fd
         /\ Handled(z, m).phase = "MAIN"
<1>1. z \in Sessions /\ z.id = fd /\ z.phase = "MAIN"
  BY DEF Claim
<1>2. Handled(z, m) \in Sessions
  BY <1>1, HandledType
<1>3. Handled(z, m).id = z.id /\ Handled(z, m).phase = z.phase
  BY <1>1, HandledList
<1> QED
  BY <1>1, <1>2, <1>3

LEMMA SameClaim ==
  ASSUME NEW fd, NEW p \in Seq(DownMsgs), NEW z, NEW mode, NEW c, NEW ch,
         Claim(fd, p, z, mode, c, ch), NEW m \in DownMsgs, m.kind # "CHALLENGE",
         NEW t, t \in Sessions, t.id = fd, t.phase = "MAIN", SameDuel(z, t),
         t.state = z.state
  PROVE  Claim(fd, Append(p, m), t, mode, c, ch)
<1>1. Firm(p) => Firm(Append(p, m))
  BY FirmAppend
<1>2. Knows(fd, z, c, ch) => Knows(fd, t, c, ch)
  BY DEF Knows, SameDuel
<1>3. Counts(fd, z, ch) => Counts(fd, t, ch)
  BY DEF Counts, SameDuel
<1> QED
  BY <1>1, <1>2, <1>3 DEF Claim

LEMMA TurnsNeutral ==
  ASSUME NEW fd, NEW m \in DownMsgs, Neutral(m), NEW mode, NEW c, NEW ch
  PROVE  Turns(fd, m, mode, c, ch, mode, c, ch)
<1>1. SUFFICES ASSUME NEW z, NEW p \in Seq(DownMsgs), Claim(fd, p, z, mode, c, ch)
               PROVE  Claim(fd, Append(p, m), Handled(z, m), mode, c, ch)
  BY DEF Turns
<1>2. m.kind # "UCHANGE" /\ m.kind # "CHALLENGE"
  BY DEF Neutral
<1>3. ~ Ends(fd, m)
  BY <1>2, PlainTake
<1>4. /\ z \in Sessions /\ z.id = fd /\ Handled(z, m) \in Sessions
      /\ Handled(z, m).id = fd /\ Handled(z, m).phase = "MAIN"
  BY <1>1, <1>3, ClaimBase
<1>5. SameDuel(z, Handled(z, m)) /\ Handled(z, m).state = z.state
  BY <1>4, NeutralDuel
<1> QED
  BY <1>1, <1>2, <1>4, <1>5, SameClaim

(* A change of users: it says whether fd is in a battle if it is of fd. *)
LEMMA TurnsChange ==
  ASSUME NEW fd, NEW users, NEW ids, NEW m \in DownMsgs, m = Uchange(Part(users, ids)),
         NEW mode, NEW c, NEW ch
  PROVE  /\ fd \notin ids => Turns(fd, m, mode, c, ch, mode, c, ch)
         /\ fd \in ids /\ users[fd].state = "UBATTLING" =>
              \A c2, ch2 : Turns(fd, m, mode, c, ch, "busy", c2, ch2)
         /\ fd \in ids /\ users[fd].state = "UONLINE" =>
              \A c2, ch2 : Turns(fd, m, mode, c, ch, "idle", c2, ch2)
<1>1. m.kind = "UCHANGE" /\ m.users = Part(users, ids)
  BY DEF Uchange
<1>2. ASSUME NEW z, NEW p \in Seq(DownMsgs), Claim(fd, p, z, mode, c, ch),
             fd \in ids => users[fd].state \in {"UBATTLING", "UONLINE"}
      PROVE  /\ fd \notin ids => Claim(fd, Append(p, m), Handled(z, m), mode, c, ch)
             /\ fd \in ids /\ users[fd].state = "UBATTLING" =>
                  \A c2, ch2 : Claim(fd, Append(p, m), Handled(z, m), "busy", c2, ch2)
             /\ fd \in ids /\ users[fd].state = "UONLINE" =>
                  \A c2, ch2 : Claim(fd, Append(p, m), Handled(z, m), "idle", c2, ch2)
  <2>1. ~ Ends(fd, m)
    <3>1. SUFFICES ASSUME NEW i \in Part(users, ids), i.id = fd, i.state = "UOFFLINE"
                   PROVE  FALSE
      BY <1>1 DEF Ends
    <3>2. PICK id \in ids : i = Info(id, users[id])
      BY DEF Part
    <3>3. id = fd /\ users[fd].state = "UOFFLINE"
      BY <3>1, <3>2, InfoIs
    <3> QED
      BY <1>2, <3>3
  <2>2. /\ z \in Sessions /\ z.id = fd /\ Handled(z, m) \in Sessions
        /\ Handled(z, m).id = fd /\ Handled(z, m).phase = "MAIN"
    BY <1>2, <2>1, ClaimBase
  <2>3. z.id \in ids => users[z.id].state # "UOFFLINE"
    BY <1>2, <2>2
  <2>4. /\ SameDuel(z, Handled(z, m))
        /\ z.id \in ids => Handled(z, m).state = users[z.id].state
        /\ z.id \notin ids => Handled(z, m).state = z.state
    BY <2>2, <2>3, ChangeDuel
  <2>5. fd \notin ids => Claim(fd, Append(p, m), Handled(z, m), mode, c, ch)
    BY <1>1, <1>2, <2>2, <2>4, SameClaim
  <2>6. PICK t : t = Handled(z, m)
    OBVIOUS
  <2>7. fd \in ids => t.state = users[fd].state
    BY <2>2, <2>4, <2>6
  <2>8. /\ fd \in ids /\ users[fd].state = "UBATTLING" =>
             \A c2, ch2 : Claim(fd, Append(p, m), t, "busy", c2, ch2)
        /\ fd \in ids /\ users[fd].state = "UONLINE" =>
             \A c2, ch2 : Claim(fd, Append(p, m), t, "idle", c2, ch2)
    BY <2>2, <2>6, <2>7 DEF Claim
  <2> QED
    BY <2>5, <2>6, <2>8
<1>3. fd \notin ids => Turns(fd, m, mode, c, ch, mode, c, ch)
  BY <1>2 DEF Turns
<1>4. fd \in ids /\ users[fd].state = "UBATTLING" =>
        \A c2, ch2 : Turns(fd, m, mode, c, ch, "busy", c2, ch2)
  BY <1>2 DEF Turns
<1>5. fd \in ids /\ users[fd].state = "UONLINE" =>
        \A c2, ch2 : Turns(fd, m, mode, c, ch, "idle", c2, ch2)
  BY <1>2 DEF Turns
<1> QED
  BY <1>3, <1>4, <1>5

(* An invitation does not tell a session of a battle. *)
LEMMA TurnsChallenge ==
  ASSUME NEW fd, NEW m \in DownMsgs, m.kind = "CHALLENGE", NEW c, NEW ch
  PROVE  Turns(fd, m, "idle", c, ch, "idle", c, ch)
<1>1. SUFFICES ASSUME NEW z, NEW p \in Seq(DownMsgs), Claim(fd, p, z, "idle", c, ch)
               PROVE  Claim(fd, Append(p, m), Handled(z, m), "idle", c, ch)
  BY DEF Turns
<1>2. ~ Ends(fd, m)
  BY PlainTake
<1>3. /\ z \in Sessions /\ z.id = fd /\ Handled(z, m) \in Sessions
      /\ Handled(z, m).id = fd /\ Handled(z, m).phase = "MAIN"
  BY <1>1, <1>2, ClaimBase
<1>4. Handled(z, m).state = z.state /\ z.state # "UBATTLING"
  BY <1>1, <1>3, ChallengeDuel DEF Claim
<1> QED
  BY <1>3, <1>4 DEF Claim

(* The answer that opens the battle says which it is, to each side. *)
LEMMA TurnsOpens ==
  ASSUME NEW fd, NEW m \in Challenges, NEW r \in DownMsgs, NEW ch,
         m.id1 = ch.user1, m.id2 = ch.user2, ch.user1 # ch.user2,
         \/ fd = ch.user1 /\ r = ChallengeR("ME_OK", m, TRUE)
         \/ fd = ch.user2 /\ r = ChallengeR("ME_OK", m, FALSE),
         NEW mode, NEW c0, NEW ch0
  PROVE  Turns(fd, r, mode, c0, ch0, "pair", m.chid, ch)
<1>1. SUFFICES ASSUME NEW z, NEW p \in Seq(DownMsgs), Claim(fd, p, z, mode, c0, ch0)
               PROVE  Claim(fd, Append(p, r), Handled(z, r), "pair", m.chid, ch)
  BY DEF Turns
<1>2. r.kind = "CHALLENGE_R" /\ Seals(r) /\ r.chid = m.chid /\ r.id1 = m.id1 /\ r.id2 = m.id2
  BY DEF ChallengeR, Seals
<1>3. ~ Ends(fd, r)
  BY <1>2, PlainTake
<1>4. /\ z \in Sessions /\ z.id = fd /\ Handled(z, r) \in Sessions
      /\ Handled(z, r).id = fd /\ Handled(z, r).phase = "MAIN"
  BY <1>1, <1>3, ClaimBase
<1>5. PICK t : t = Handled(z, r)
  OBVIOUS
<1>6. /\ t.state = "UBATTLING" /\ t.chid = r.chid
      /\ t.opponent_id = IF r.is_id1 THEN r.id2 ELSE r.id1
      /\ t.is_user1 = r.is_id1
  BY <1>2, <1>4, <1>5, SealsDuel
<1>7. Firm(Append(p, r))
  BY <1>2, FirmAppend
<1>8. CASE fd = ch.user1 /\ r = ChallengeR("ME_OK", m, TRUE)
  <2>1. r.is_id1
    BY <1>8 DEF ChallengeR
  <2>2. t.is_user1 /\ t.opponent_id = ch.user2
    BY <1>2, <1>6, <2>1
  <2>3. Knows(fd, t, m.chid, ch)
    BY <1>2, <1>6, <1>8, <2>2 DEF Knows
  <2> QED
    BY <1>4, <1>5, <1>6, <1>7, <2>3 DEF Claim
<1>9. CASE fd = ch.user2 /\ r = ChallengeR("ME_OK", m, FALSE)
  <2>1. ~ r.is_id1
    BY <1>9 DEF ChallengeR
  <2>2. ~ t.is_user1 /\ t.opponent_id = ch.user1
    BY <1>2, <1>6, <2>1
  <2>3. Knows(fd, t, m.chid, ch)
    BY <1>2, <1>6, <1>9, <2>2 DEF Knows
  <2> QED
    BY <1>4, <1>5, <1>6, <1>7, <2>3 DEF Claim
<1> QED
  BY <1>8, <1>9

LEMMA TurnRIs ==
  \A played, after, winner :
    LET r == TurnR(played, after, winner) IN
    /\ r.kind = "TURN_R" /\ r.turn_no = after.turn_no
    /\ r.hp1 = after.hp1 /\ r.hp2 = after.hp2
    /\ winner = NoId => ~ r.fin
BY DEF TurnR

(* The result of a turn: the turn and the hit points of a battle that goes *)
(* on.                                                                     *)
LEMMA TurnsResult ==
  ASSUME NEW fd, NEW played, NEW after, NEW winner, NEW r \in DownMsgs,
         r = TurnR(played, after, winner), NEW mode \in {"busy", "pair", "all"},
         NEW c, NEW ch
  PROVE  /\ mode # "busy" /\ winner = NoId
              /\ after.user1 = ch.user1 /\ after.user2 = ch.user2 =>
              Turns(fd, r, mode, c, ch, "all", c, after)
         /\ \A c2, ch2 : Turns(fd, r, mode, c, ch, "busy", c2, ch2)
<1>1. r.kind = "TURN_R" /\ ~ Ends(fd, r)
  BY TurnRIs, PlainTake
<1>2. ASSUME NEW z, NEW p \in Seq(DownMsgs), Claim(fd, p, z, mode, c, ch)
      PROVE  /\ mode # "busy" /\ winner = NoId
                  /\ after.user1 = ch.user1 /\ after.user2 = ch.user2 =>
                  Claim(fd, Append(p, r), Handled(z, r), "all", c, after)
             /\ \A c2, ch2 : Claim(fd, Append(p, r), Handled(z, r), "busy", c2, ch2)
  <2>1. /\ z \in Sessions /\ z.id = fd /\ Handled(z, r) \in Sessions
        /\ Handled(z, r).id = fd /\ Handled(z, r).phase = "MAIN"
    BY <1>1, <1>2, ClaimBase
  <2>2. PICK t : t = Handled(z, r)
    OBVIOUS
  <2>3. /\ t.state = z.state /\ t.chid = z.chid /\ t.opponent_id = z.opponent_id
        /\ t.is_user1 = z.is_user1
        /\ z.is_user1 => t.hp = r.hp1 /\ t.opponent_hp = r.hp2
        /\ ~ z.is_user1 => t.hp = r.hp2 /\ t.opponent_hp = r.hp1
        /\ ~ r.fin => t.turn_no = r.turn_no
    BY <1>1, <2>1, <2>2, TurnDuel
  <2>4. t.state = "UBATTLING"
    BY <1>2, <2>3 DEF Claim
  <2>5. \A c2, ch2 : Claim(fd, Append(p, r), t, "busy", c2, ch2)
    BY <2>1, <2>2, <2>4 DEF Claim
  <2>6. ASSUME mode # "busy", winner = NoId, after.user1 = ch.user1, after.user2 = ch.user2
        PROVE  Claim(fd, Append(p, r), t, "all", c, after)
    <3>1. Firm(p) /\ Knows(fd, z, c, ch)
      BY <1>2, <2>6 DEF Claim
    <3>2. Firm(Append(p, r))
      BY <1>1, <3>1, FirmAppend
    <3>3. Knows(fd, t, c, after)
      BY <2>3, <2>6, <3>1 DEF Knows
    <3>4. t.turn_no = after.turn_no
      BY <2>3, <2>6, TurnRIs
    <3>5. Counts(fd, t, after)
      BY <2>3, <2>6, <3>1, <3>4, TurnRIs DEF Counts, Knows
    <3> QED
      BY <2>1, <2>2, <2>4, <3>2, <3>3, <3>5 DEF Claim
  <2> QED
    BY <2>2, <2>5, <2>6
<1> QED
  BY <1>2 DEF Turns
----------------------------------------------------------------------------
(* Ready: session s of fd, with the messages d on their way, is at the     *)
(* main screen, or will be once it has read the answer to its JOIN, as t,  *)
(* with the messages q to read there.  Tracks: what it has then.           *)
Ready(fd, s, d, t, q) ==
  \/ s.phase = "MAIN" /\ t = s /\ q = d
  \/ /\ s.phase = "WAIT_MSG" /\ q = Tail(d)
     /\ \E key \in AnyKey, acted \in BOOLEAN, state \in UserStates :
          t = New(fd, key, acted, state)

Tracks(fd, s, d, mode, c, ch) ==
  /\ s.phase = "WAIT_MSG" => d # <<>>
  /\ \A t, q : Ready(fd, s, d, t, q) => Claim(fd, q, After(t, q), mode, c, ch)

LEMMA TracksMessage ==
  ASSUME NEW fd, NEW s, NEW d \in Seq(DownMsgs), NEW m \in DownMsgs,
         NEW mode, NEW c, NEW ch, NEW mode2, NEW c2, NEW ch2,
         Tracks(fd, s, d, mode, c, ch), Turns(fd, m, mode, c, ch, mode2, c2, ch2)
  PROVE  Tracks(fd, s, Append(d, m), mode2, c2, ch2)
<1>1. s.phase = "WAIT_MSG" => Append(d, m) # <<>>
  OBVIOUS
<1>2. ASSUME NEW t, NEW q, Ready(fd, s, Append(d, m), t, q)
      PROVE  Claim(fd, q, After(t, q), mode2, c2, ch2)
  <2>1. PICK p \in Seq(DownMsgs) : Ready(fd, s, d, t, p) /\ q = Append(p, m)
    <3>1. CASE s.phase = "MAIN" /\ t = s /\ q = Append(d, m)
      BY <3>1 DEF Ready
    <3>2. CASE /\ s.phase = "WAIT_MSG" /\ q = Tail(Append(d, m))
               /\ \E key \in AnyKey, acted \in BOOLEAN, state \in UserStates :
                    t = New(fd, key, acted, state)
      <4>1. d # <<>>
        BY <3>2 DEF Tracks
      <4>2. Tail(d) \in Seq(DownMsgs) /\ Tail(Append(d, m)) = Append(Tail(d), m)
        BY <4>1
      <4> QED
        BY <3>2, <4>2, Zenon DEF Ready
    <3> QED
      BY <1>2, <3>1, <3>2 DEF Ready
  <2>2. Claim(fd, p, After(t, p), mode, c, ch)
    BY <2>1 DEF Tracks
  <2>3. Claim(fd, Append(p, m), Handled(After(t, p), m), mode2, c2, ch2)
    BY <2>1, <2>2 DEF Turns
  <2> QED
    BY <2>1, <2>3, AfterAppend
<1> QED
  BY <1>1, <1>2 DEF Tracks

LEMMA TracksSame ==
  ASSUME NEW fd, NEW s, NEW d, NEW mode, NEW c, NEW ch, Tracks(fd, s, d, mode, c, ch),
         NEW c2, NEW ch2,
         \/ mode \in {"idle", "busy"}
         \/ /\ c2 = c /\ ch2.user1 = ch.user1 /\ ch2.user2 = ch.user2
            /\ ch2.turn_no = ch.turn_no /\ ch2.hp1 = ch.hp1 /\ ch2.hp2 = ch.hp2
  PROVE  Tracks(fd, s, d, mode, c2, ch2)
<1>1. SUFFICES ASSUME NEW t, NEW q, Ready(fd, s, d, t, q)
               PROVE  Claim(fd, q, After(t, q), mode, c2, ch2)
  BY DEF Tracks
<1>2. PICK z : z = After(t, q)
  OBVIOUS
<1>3. Claim(fd, q, z, mode, c, ch)
  BY <1>1, <1>2 DEF Tracks
<1>4. CASE mode \in {"idle", "busy"}
  BY <1>2, <1>3, <1>4 DEF Claim
<1>5. CASE /\ c2 = c /\ ch2.user1 = ch.user1 /\ ch2.user2 = ch.user2
           /\ ch2.turn_no = ch.turn_no /\ ch2.hp1 = ch.hp1 /\ ch2.hp2 = ch.hp2
  <2>1. Knows(fd, z, c, ch) => Knows(fd, z, c2, ch2)
    BY <1>5 DEF Knows
  <2>2. Counts(fd, z, ch) => Counts(fd, z, ch2)
    BY <1>5 DEF Counts
  <2> QED
    BY <1>2, <1>3, <2>1, <2>2 DEF Claim
<1> QED
  BY <1>4, <1>5

(* The inductive invariant of the players' view of their battles. *)
Mode(user) == IF user.state = "UBATTLING" THEN "all" ELSE "idle"

DuelAt(f, s, d, users, chs) ==
  Tracks(f, s, d, Mode(users[f]), users[f].chid, chs[users[f].chid])

DuelInv ==
  \A f \in DOMAIN user_by_fd : DuelAt(f, session[f], down[f], user_by_id, ch_by_id)

LEMMA DuelInvNext ==
  DuelInv' <=> \A f \in DOMAIN user_by_fd' :
                 DuelAt(f, session'[f], down'[f], user_by_id', ch_by_id')
BY DEF DuelInv

LEMMA DuelInvIs == LoginInv /\ DuelInv => BattleConverges
<1>1. SUFFICES ASSUME LoginInv, DuelInv, NEW fd \in Fds, Joined(fd)
               PROVE  LET s == Settled(fd)
                          u == user_by_id[user_by_fd[fd]]
                          ch == ch_by_id[u.chid]
                      IN  /\ s.phase = "MAIN"
                          /\ (s.state = "UBATTLING") <=> (u.state = "UBATTLING")
                          /\ u.state = "UBATTLING" =>
                               /\ s.chid = u.chid
                               /\ s.turn_no = ch.turn_no
                               /\ s.is_user1 <=> (ch.user1 = s.id)
                               /\ s.opponent_id \in Players(u.chid) \ {s.id}
                               /\ <<s.hp, s.opponent_hp>> =
                                    IF s.is_user1 THEN <<ch.hp1, ch.hp2>>
                                    ELSE <<ch.hp2, ch.hp1>>
  BY DEF BattleConverges
<1>2. fd \in DOMAIN user_by_fd /\ session[fd].phase = "MAIN"
  BY <1>1 DEF Joined, Present
<1>3. user_by_fd[fd] = fd
  BY <1>1, <1>2, IdFacts DEF LoginInv, OwnIds, IndexesAgree
<1>4. PICK u, z, ch : u = user_by_id[fd] /\ z = Settled(fd) /\ ch = ch_by_id[u.chid]
  OBVIOUS
<1>5. Tracks(fd, session[fd], down[fd], Mode(u), u.chid, ch)
  BY <1>1, <1>2, <1>4 DEF DuelInv, DuelAt
<1>6. Claim(fd, down[fd], z, Mode(u), u.chid, ch)
  BY <1>2, <1>4, <1>5 DEF Tracks, Ready, Settled
<1>7. z.id = fd /\ z.phase = "MAIN"
  BY <1>6 DEF Claim
<1>8. CASE u.state # "UBATTLING"
  <2>1. z.state # "UBATTLING"
    BY <1>6, <1>8 DEF Claim, Mode
  <2> QED
    BY <1>3, <1>4, <1>7, <1>8, <2>1
<1>9. CASE u.state = "UBATTLING"
  <2>1. z.state = "UBATTLING" /\ Knows(fd, z, u.chid, ch) /\ Counts(fd, z, ch)
    BY <1>6, <1>9 DEF Claim, Mode
  <2>2. /\ z.chid = u.chid /\ z.turn_no = ch.turn_no
        /\ z.opponent_id \in {ch.user1, ch.user2} \ {fd}
    BY <2>1 DEF Knows, Counts
  <2>3. z.is_user1 <=> (ch.user1 = fd)
    BY <2>1 DEF Knows
  <2>4. <<z.hp, z.opponent_hp>> = IF z.is_user1 THEN <<ch.hp1, ch.hp2>> ELSE <<ch.hp2, ch.hp1>>
    BY <2>1, <2>3 DEF Counts
  <2>5. Players(u.chid) = {ch.user1, ch.user2}
    BY <1>4 DEF Players
  <2> QED
    BY <1>3, <1>4, <1>7, <1>9, <2>1, <2>2, <2>3, <2>4, <2>5
<1> QED
  BY <1>8, <1>9
----------------------------------------------------------------------------
(* What a handler has sent so far, d, when users and challenges are as     *)
(* given: Watched says that each of F has its battle from it.              *)
Watched(F, d, users, chs) ==
  /\ d \in [Fds -> Seq(DownMsgs)]
  /\ \A f \in F : DuelAt(f, session[f], d[f], users, chs)

LEMMA SentTo ==
  ASSUME NEW d \in [Fds -> Seq(DownMsgs)], NEW m \in DownMsgs, NEW f \in Fds
  PROVE  /\ \A to \in Fds : /\ Send(d, to, m) \in [Fds -> Seq(DownMsgs)]
                            /\ Send(d, to, m)[f] = IF f = to THEN Append(d[f], m) ELSE d[f]
         /\ \A fds : /\ SendAll(d, fds, m) \in [Fds -> Seq(DownMsgs)]
                     /\ SendAll(d, fds, m)[f] = IF f \in fds THEN Append(d[f], m) ELSE d[f]
<1>1. \A to \in Fds : Send(d, to, m) \in [Fds -> Seq(DownMsgs)]
  BY SendType
<1>2. \A fds : SendAll(d, fds, m) \in [Fds -> Seq(DownMsgs)]
  BY SendAllType
<1>3. \A to \in Fds : Send(d, to, m)[f] = IF f = to THEN Append(d[f], m) ELSE d[f]
  BY DEF Send
<1>4. \A fds : SendAll(d, fds, m)[f] = IF f \in fds THEN Append(d[f], m) ELSE d[f]
  BY DEF SendAll
<1> QED
  BY <1>1, <1>2, <1>3, <1>4

(* Messages that say nothing of battles, to anybody. *)
LEMMA WatchedNeutral ==
  ASSUME NEW F \in SUBSET Fds, NEW d, NEW users, NEW chs, Watched(F, d, users, chs),
         NEW m \in DownMsgs, Neutral(m), NEW to \in Fds, NEW fds
  PROVE  /\ Watched(F, Send(d, to, m), users, chs)
         /\ Watched(F, SendAll(d, fds, m), users, chs)
<1>1. d \in [Fds -> Seq(DownMsgs)]
  BY DEF Watched
<1>2. ASSUME NEW f \in F
      PROVE  /\ DuelAt(f, session[f], Append(d[f], m), users, chs)
             /\ DuelAt(f, session[f], d[f], users, chs)
  <2>1. PICK u, ch, mode : u = users[f] /\ ch = chs[u.chid] /\ mode = Mode(u)
    OBVIOUS
  <2>2. Tracks(f, session[f], d[f], mode, u.chid, ch) /\ d[f] \in Seq(DownMsgs)
    BY <1>1, <2>1 DEF Watched, DuelAt
  <2>3. Turns(f, m, mode, u.chid, ch, mode, u.chid, ch)
    BY TurnsNeutral
  <2>4. Tracks(f, session[f], Append(d[f], m), mode, u.chid, ch)
    BY <2>2, <2>3, TracksMessage
  <2> QED
    BY <2>1, <2>2, <2>4 DEF DuelAt
<1>3. Send(d, to, m) \in [Fds -> Seq(DownMsgs)] /\ SendAll(d, fds, m) \in [Fds -> Seq(DownMsgs)]
  BY <1>1, SendType, SendAllType
<1>4. ASSUME NEW f \in F
      PROVE  /\ DuelAt(f, session[f], Send(d, to, m)[f], users, chs)
             /\ DuelAt(f, session[f], SendAll(d, fds, m)[f], users, chs)
  <2>1. /\ Send(d, to, m)[f] = IF f = to THEN Append(d[f], m) ELSE d[f]
        /\ SendAll(d, fds, m)[f] = IF f \in fds THEN Append(d[f], m) ELSE d[f]
    BY <1>1, SentTo
  <2> QED
    BY <1>2, <2>1
<1> QED
  BY <1>3, <1>4 DEF Watched

(* Nobody is sent anything, and nobody's battle changes. *)
SameBattles(F, users, chs, users2, chs2) ==
  \A f \in F :
    /\ Mode(users2[f]) = Mode(users[f])
    /\ users[f].state = "UBATTLING" =>
         LET ch == chs[users[f].chid]
             ch2 == chs2[users[f].chid]
         IN  /\ users2[f].chid = users[f].chid
             /\ ch2.user1 = ch.user1 /\ ch2.user2 = ch.user2
             /\ ch2.turn_no = ch.turn_no /\ ch2.hp1 = ch.hp1 /\ ch2.hp2 = ch.hp2

LEMMA WatchedSame ==
  ASSUME NEW F, NEW d, NEW users, NEW chs, Watched(F, d, users, chs), NEW users2, NEW chs2,
         SameBattles(F, users, chs, users2, chs2)
  PROVE  Watched(F, d, users2, chs2)
<1>1. ASSUME NEW f \in F PROVE DuelAt(f, session[f], d[f], users2, chs2)
  <2>1. PICK u, ch, mode : u = users[f] /\ ch = chs[u.chid] /\ mode = Mode(u)
    OBVIOUS
  <2>2. PICK u2, ch2 : u2 = users2[f] /\ ch2 = chs2[u2.chid]
    OBVIOUS
  <2>3. Tracks(f, session[f], d[f], mode, u.chid, ch)
    BY <2>1 DEF Watched, DuelAt
  <2>4. /\ Mode(u2) = mode
        /\ u.state = "UBATTLING" =>
             /\ u2.chid = u.chid
             /\ ch2.user1 = ch.user1 /\ ch2.user2 = ch.user2
             /\ ch2.turn_no = ch.turn_no /\ ch2.hp1 = ch.hp1 /\ ch2.hp2 = ch.hp2
    BY <2>1, <2>2 DEF SameBattles
  <2>5. u.state # "UBATTLING" => mode = "idle"
    BY <2>1 DEF Mode
  <2>6. Tracks(f, session[f], d[f], mode, u2.chid, ch2)
    BY <2>3, <2>4, <2>5, TracksSame
  <2> QED
    BY <2>2, <2>4, <2>6 DEF DuelAt
<1> QED
  BY <1>1 DEF Watched

LEMMA WatchedBegins ==
  ASSUME LoginInv, DuelInv PROVE Watched(DOMAIN user_by_fd, down, user_by_id, ch_by_id)
BY KnownFds DEF Watched, DuelInv

LEMMA WatchedDuel ==
  ASSUME UNCHANGED session, Watched(DOMAIN user_by_fd', down', user_by_id', ch_by_id')
  PROVE  DuelInv'
BY DuelInvNext DEF Watched
----------------------------------------------------------------------------
(* The handlers.  Those that send nothing. *)
LEMMA SilentDuel ==
  ASSUME LoginInv, DuelInv, NEW fd \in Fds, UNCHANGED session,
         \/ HandleChallengeIgnored(fd) \/ HandleStartNoId(fd)
         \/ HandleDisconnectUnknown(fd) \/ HandleTurnIgnored(fd)
         \/ HandleQuit(fd) /\ ~ Known(Head(up[fd]).id, Head(up[fd]).key)
  PROVE  DuelInv'
<1>1. UNCHANGED <<down, user_by_fd, user_by_id, ch_by_id>>
  BY DEF HandleChallengeIgnored, HandleStartNoId, HandleDisconnectUnknown, HandleTurnIgnored,
         HandleQuit, serverVars, trees
<1> QED
  BY <1>1, DuelInvNext DEF DuelInv

LEMMA NotedStats ==
  ASSUME NEW ch \in ChallengeRecs, NEW user, NEW action
  PROVE  LET n == Noted(ch, user, action) IN
         /\ n.user1 = ch.user1 /\ n.user2 = ch.user2 /\ n.turn_no = ch.turn_no
         /\ n.hp1 = ch.hp1 /\ n.hp2 = ch.hp2
BY DEF Noted, ChallengeRecs

LEMMA Fighter ==
  ASSUME LoginInv, BattleInv, NEW f \in DOMAIN user_by_fd, user_by_id[f].state = "UBATTLING"
  PROVE  LET c == user_by_id[f].chid IN
         /\ c \in DOMAIN ch_by_id /\ ch_by_id[c].state = "STARTED"
         /\ f \in {ch_by_id[c].user1, ch_by_id[c].user2}
<1>1. f \in DOMAIN user_by_id
  BY KnownFds
<1> QED
  BY <1>1 DEF BattleInv, Arena, Paired

LEMMA TurnFirstDuel ==
  ASSUME LoginInv, BattleInv, DuelInv, NEW fd \in Fds, HandleTurnFirst(fd), UNCHANGED session
  PROVE  DuelInv'
<1>1. PICK m : m = Head(up[fd])
  OBVIOUS
<1>2. /\ m.chid \in DOMAIN ch_by_id /\ ch_by_id' = Put(ch_by_id, m.chid, NotedBy(m))
      /\ UNCHANGED <<down, user_by_fd, user_by_id>>
  BY <1>1 DEF HandleTurnFirst, TurnTaken, trees
<1>3. PICK n : n = NotedBy(m)
  OBVIOUS
<1>4. ch_by_id[m.chid] \in ChallengeRecs
  BY <1>2 DEF LoginInv, TypeOK, ServerTypeOK, IsTree
<1>5. LET ch == ch_by_id[m.chid] IN
      /\ n.user1 = ch.user1 /\ n.user2 = ch.user2 /\ n.turn_no = ch.turn_no
      /\ n.hp1 = ch.hp1 /\ n.hp2 = ch.hp2
  BY <1>3, <1>4, NotedStats DEF NotedBy
<1>6. \A c \in DOMAIN ch_by_id : ch_by_id'[c] = IF c = m.chid THEN n ELSE ch_by_id[c]
  BY <1>2, <1>3 DEF Put
<1>7. ASSUME NEW f \in DOMAIN user_by_fd, user_by_id[f].state = "UBATTLING"
      PROVE  user_by_id[f].chid \in DOMAIN ch_by_id
  BY <1>7, Fighter
<1>8. SameBattles(DOMAIN user_by_fd, user_by_id, ch_by_id, user_by_id, ch_by_id')
  BY <1>5, <1>6, <1>7 DEF SameBattles
<1>9. Watched(DOMAIN user_by_fd, down, user_by_id, ch_by_id')
  BY <1>8, WatchedBegins, WatchedSame
<1> QED
  BY <1>2, <1>9, WatchedDuel

LEMMA ChallengeErrorDuel ==
  ASSUME LoginInv, DuelInv, NEW fd \in Fds, HandleChallengeError(fd), UNCHANGED session
  PROVE  DuelInv'
<1>1. PICK m, r : m = Head(up[fd]) /\ r = ChallengeR(ChallengeError(m), m, FALSE)
  OBVIOUS
<1>2. /\ Takes(fd, "CHALLENGE") /\ ChallengeError(m) # "ME_OK" /\ down' = Send(down, fd, r)
      /\ UNCHANGED <<user_by_fd, user_by_id, ch_by_id>>
  BY <1>1 DEF HandleChallengeError, serverVars, trees
<1>3. m \in Challenges
  BY <1>1, <1>2, ChallengeFacts DEF LoginInv
<1>4. ChallengeError(m) \in {"NXID", "ICKEY", "ENGAGED", "CHLSELF", "NXCHID"}
  BY <1>2, <1>3 DEF ChallengeError, Challenges
<1>5. r \in DownMsgs /\ Neutral(r)
  <2>1. r \in DownMsgs
    BY <1>1, <1>3, <1>4, ChallengeRType
  <2>2. r.kind = "CHALLENGE_R" /\ r.error # "ME_OK"
    BY <1>1, <1>2 DEF ChallengeR
  <2> QED
    BY <2>1, <2>2 DEF Neutral
<1>6. Watched(DOMAIN user_by_fd, Send(down, fd, r), user_by_id, ch_by_id)
  BY <1>5, KnownFds, WatchedBegins, WatchedNeutral
<1> QED
  BY <1>2, <1>6, WatchedDuel

LEMMA SendmsgDuel ==
  ASSUME LoginInv, DuelInv, NEW fd \in Fds, HandleSendmsg(fd), UNCHANGED session
  PROVE  DuelInv'
<1>1. PICK m, r : m = Head(up[fd]) /\ r = [m EXCEPT !.key = 0]
  OBVIOUS
<1>2. /\ Takes(fd, "SENDMSG")
      /\ down' = IF Known(m.id, m.key) THEN SendAll(down, FdsOf(user_by_id), r) ELSE down
      /\ UNCHANGED <<user_by_fd, user_by_id, ch_by_id>>
  BY <1>1 DEF HandleSendmsg, serverVars, trees
<1>3. m \in SendMsgs
  BY <1>1, <1>2, TakesType, UpKinds DEF LoginInv, TypeOK
<1>4. r \in SendMsgs /\ r.kind = "SENDMSG"
  BY <1>1, <1>3 DEF SendMsgs, AnyKey
<1>5. r \in DownMsgs /\ Neutral(r)
  BY <1>4 DEF DownMsgs, Neutral
<1>6. /\ Watched(DOMAIN user_by_fd, SendAll(down, FdsOf(user_by_id), r), user_by_id, ch_by_id)
      /\ Watched(DOMAIN user_by_fd, down, user_by_id, ch_by_id)
  BY <1>5, KnownFds, WatchedBegins, WatchedNeutral
<1> QED
  BY <1>2, <1>6, WatchedDuel

(* A challenge that nobody fights goes, or a new one comes, or a free user *)
(* has another challenge.                                                  *)
LEMMA OthersFight ==
  ASSUME LoginInv, BattleInv, NEW users, NEW chs, NEW c,
         c \in DOMAIN ch_by_id => ch_by_id[c].state = "ASKING",
         \A x \in DOMAIN ch_by_id : x # c => chs[x] = ch_by_id[x],
         \A f \in DOMAIN user_by_id :
           \/ users[f] = user_by_id[f]
           \/ user_by_id[f].state = "UONLINE" /\ users[f].state = "UONLINE"
  PROVE  SameBattles(DOMAIN user_by_fd, user_by_id, ch_by_id, users, chs)
<1>1. ASSUME NEW f \in DOMAIN user_by_fd, user_by_id[f].state = "UBATTLING"
      PROVE  /\ users[f] = user_by_id[f]
             /\ chs[user_by_id[f].chid] = ch_by_id[user_by_id[f].chid]
  <2>1. f \in DOMAIN user_by_id
    BY KnownFds
  <2>2. PICK x : x = user_by_id[f].chid
    OBVIOUS
  <2>3. x \in DOMAIN ch_by_id /\ ch_by_id[x].state = "STARTED"
    BY <1>1, <2>2, Fighter
  <2>4. x # c
    BY <2>3
  <2> QED
    BY <1>1, <2>1, <2>2, <2>3, <2>4
<1>2. ASSUME NEW f \in DOMAIN user_by_fd PROVE Mode(users[f]) = Mode(user_by_id[f])
  BY KnownFds DEF Mode
<1> QED
  BY <1>1, <1>2 DEF SameBattles

LEMMA RefusalNeutral ==
  ASSUME NEW m \in Challenges, NEW error \in {"CANCELLED", "REJECTED"}, NEW r,
         r = ChallengeR(error, m, FALSE)
  PROVE  r \in DownMsgs /\ Neutral(r)
<1>1. r \in DownMsgs
  BY ChallengeRType
<1>2. r.kind = "CHALLENGE_R" /\ r.error # "ME_OK"
  BY DEF ChallengeR
<1> QED
  BY <1>1, <1>2 DEF Neutral

LEMMA SetChidUsers ==
  ASSUME TypeOK, NEW id \in DOMAIN user_by_id, user_by_id[id].state = "UONLINE", NEW c, NEW users,
         users = [user_by_id EXCEPT ![id].chid = c]
  PROVE  \A f \in DOMAIN user_by_id :
           \/ users[f] = user_by_id[f]
           \/ user_by_id[f].state = "UONLINE" /\ users[f].state = "UONLINE"
<1>1. user_by_id \in [DOMAIN user_by_id -> UserInfos]
  BY DEF TypeOK, ServerTypeOK, IsTree
<1>2. \A f \in DOMAIN user_by_id : users[f].state = user_by_id[f].state
  BY SetChidLooks
<1>3. \A f \in DOMAIN user_by_id : f # id => users[f] = user_by_id[f]
  BY <1>1
<1> QED
  BY <1>2, <1>3

LEMMA RejectDuel ==
  ASSUME LoginInv, BattleInv, DuelInv, NEW fd \in Fds, HandleReject(fd), UNCHANGED session
  PROVE  DuelInv'
<1>1. TypeOK
  BY DEF LoginInv
<1>2. PICK m \in Challenges : m = Head(up[fd]) /\ m.id1 \in DOMAIN user_by_id
                              /\ m.chid \in DOMAIN ch_by_id
  BY <1>1, ChallengeFacts DEF HandleReject, Rejects, Valid
<1>3. PICK r, to : r = ChallengeR("REJECTED", m, FALSE) /\ to = user_by_id[m.id1].fd
  OBVIOUS
<1>4. /\ ch_by_id' = tdelete(ch_by_id, m.chid) /\ down' = Send(down, to, r)
      /\ UNCHANGED <<user_by_fd, user_by_id>> /\ ch_by_id[m.chid].state = "ASKING"
  BY <1>2, <1>3 DEF HandleReject, Rejects, trees
<1>5. r \in DownMsgs /\ Neutral(r) /\ to \in Fds
  BY <1>2, <1>3, RefusalNeutral, KnownFds
<1>6. \A x \in DOMAIN ch_by_id : x # m.chid => ch_by_id'[x] = ch_by_id[x]
  BY <1>4 DEF tdelete
<1>7. SameBattles(DOMAIN user_by_fd, user_by_id, ch_by_id, user_by_id, ch_by_id')
  BY <1>4, <1>6, OthersFight
<1>8. Watched(DOMAIN user_by_fd, down, user_by_id, ch_by_id')
  BY <1>7, WatchedBegins, WatchedSame
<1>9. Watched(DOMAIN user_by_fd, Send(down, to, r), user_by_id, ch_by_id')
  BY <1>5, <1>8, KnownFds, WatchedNeutral
<1> QED
  BY <1>4, <1>9, WatchedDuel

LEMMA CancelDuel ==
  ASSUME LoginInv, BattleInv, DuelInv, NEW fd \in Fds, HandleCancel(fd), UNCHANGED session
  PROVE  DuelInv'
<1>1. TypeOK
  BY DEF LoginInv
<1>2. PICK m \in Challenges : m = Head(up[fd]) /\ m.id1 \in DOMAIN user_by_id
  BY <1>1, ChallengeFacts DEF HandleCancel, Valid
<1>3. PICK c : c = user_by_id[m.id1].chid
  OBVIOUS
<1>4. PICK user2, r : user2 = ch_by_id[c].user2 /\ r = ChallengeR("CANCELLED", m, FALSE)
  OBVIOUS
<1>5. /\ user_by_id' = [user_by_id EXCEPT ![m.id1].chid = NoId]
      /\ ch_by_id' = tdelete(ch_by_id, c)
      /\ down' = IF user2 \in DOMAIN user_by_id
                   THEN Send(down, user_by_id[user2].fd, r) ELSE down
      /\ user_by_fd' = user_by_fd
      /\ user_by_id[m.id1].state = "UONLINE" /\ ch_by_id[c].state = "ASKING"
  BY <1>2, <1>3, <1>4 DEF HandleCancel, Cancels
<1>6. PICK users, chs : users = user_by_id' /\ chs = ch_by_id'
  OBVIOUS
<1>7. \A f \in DOMAIN user_by_id :
           \/ users[f] = user_by_id[f]
           \/ user_by_id[f].state = "UONLINE" /\ users[f].state = "UONLINE"
  BY <1>1, <1>2, <1>5, <1>6, SetChidUsers
<1>8. \A x \in DOMAIN ch_by_id : x # c => chs[x] = ch_by_id[x]
  BY <1>5, <1>6 DEF tdelete
<1>9. SameBattles(DOMAIN user_by_fd, user_by_id, ch_by_id, users, chs)
  BY <1>5, <1>7, <1>8, OthersFight
<1>10. Watched(DOMAIN user_by_fd, down, users, chs)
  BY <1>9, WatchedBegins, WatchedSame
<1>11. r \in DownMsgs /\ Neutral(r)
  BY <1>4, RefusalNeutral
<1>12. Watched(DOMAIN user_by_fd, down', users, chs)
  BY <1>5, <1>10, <1>11, KnownFds, WatchedNeutral
<1> QED
  BY <1>5, <1>6, <1>12, WatchedDuel

LEMMA StartDuel ==
  ASSUME LoginInv, BattleInv, DuelInv, NEW fd \in Fds, HandleStart(fd), UNCHANGED session
  PROVE  DuelInv'
<1>1. TypeOK
  BY DEF LoginInv
<1>2. PICK m \in Challenges : m = Head(up[fd]) /\ m.id1 \in DOMAIN user_by_id
                              /\ m.id2 \in DOMAIN user_by_id /\ Valid(m, "C_START")
  BY <1>1, ChallengeFacts DEF HandleStart, Valid
<1>3. user_by_id[m.id1].state = "UONLINE" /\ user_by_id[m.id2].state = "UONLINE"
  BY <1>2 DEF Valid, ChallengeError, BothOnline
<1>4. PICK c \in FreeChIds :
        /\ ch_by_id' = Put(ch_by_id, c, add_challenge(m))
        /\ user_by_id' = [user_by_id EXCEPT ![m.id1].chid = c]
        /\ down' = Send(down, user_by_id[m.id2].fd, [m EXCEPT !.chid = c])
  BY <1>2 DEF HandleStart
<1>5. user_by_fd' = user_by_fd
  BY DEF HandleStart
<1>6. PICK r, to : r = [m EXCEPT !.chid = c] /\ to = user_by_id[m.id2].fd
  OBVIOUS
<1>7. r \in DownMsgs /\ r.kind = "CHALLENGE"
  BY <1>6 DEF Challenges, DownMsgs, FreeChIds, AnyChId
<1>8. to = m.id2 /\ to \in Fds
  BY <1>2, <1>6, KnownFds
<1>9. PICK users, chs : users = user_by_id' /\ chs = ch_by_id'
  OBVIOUS
<1>10. \A f \in DOMAIN user_by_id :
           \/ users[f] = user_by_id[f]
           \/ user_by_id[f].state = "UONLINE" /\ users[f].state = "UONLINE"
  BY <1>1, <1>2, <1>3, <1>4, <1>9, SetChidUsers
<1>11. c \notin DOMAIN ch_by_id
  BY DEF FreeChIds
<1>12. \A x \in DOMAIN ch_by_id : x # c => chs[x] = ch_by_id[x]
  BY <1>4, <1>9 DEF Put
<1>13. SameBattles(DOMAIN user_by_fd, user_by_id, ch_by_id, users, chs)
  BY <1>10, <1>11, <1>12, OthersFight
<1>14. Watched(DOMAIN user_by_fd, down, users, chs)
  BY <1>13, WatchedBegins, WatchedSame
<1>15. ASSUME NEW f \in DOMAIN user_by_fd
       PROVE  DuelAt(f, session[f], Send(down, to, r)[f], users, chs)
  <2>1. f \in Fds /\ down[f] \in Seq(DownMsgs) /\ down \in [Fds -> Seq(DownMsgs)]
    BY KnownFds
  <2>2. Send(down, to, r)[f] = IF f = to THEN Append(down[f], r) ELSE down[f]
    BY <1>7, <1>8, <2>1, SentTo
  <2>3. DuelAt(f, session[f], down[f], users, chs)
    BY <1>14 DEF Watched
  <2>4. CASE f = to
    <3>1. PICK u, ch : u = users[f] /\ ch = chs[u.chid]
      OBVIOUS
    <3>2. Mode(u) = "idle"
      BY <1>2, <1>3, <1>8, <1>10, <2>4, <3>1 DEF Mode
    <3>3. Tracks(f, session[f], down[f], "idle", u.chid, ch)
      BY <2>3, <3>1, <3>2 DEF DuelAt
    <3>4. Turns(f, r, "idle", u.chid, ch, "idle", u.chid, ch)
      BY <1>7, TurnsChallenge
    <3>5. Tracks(f, session[f], Append(down[f], r), "idle", u.chid, ch)
      BY <1>7, <2>1, <3>3, <3>4, TracksMessage
    <3> QED
      BY <2>2, <2>4, <3>1, <3>2, <3>5 DEF DuelAt
  <2> QED
    BY <2>2, <2>3, <2>4
<1>16. Send(down, to, r) \in [Fds -> Seq(DownMsgs)]
  BY <1>7, <1>8, KnownFds, SendType
<1> QED
  BY <1>4, <1>5, <1>6, <1>9, <1>15, <1>16, WatchedDuel DEF Watched
----------------------------------------------------------------------------
(* Battles.  Whom a broadcast is about and whom it only reaches. *)
LEMMA BroadcastAt ==
  ASSUME LoginInv, NEW d \in [Fds -> Seq(DownMsgs)], NEW users, IsTree(users, Ids, UserInfos),
         SameUsers(users), NEW ids \in SUBSET DOMAIN user_by_id, NEW f \in DOMAIN user_by_fd,
         NEW uc, uc = Uchange(Part(users, ids))
  PROVE  /\ uc \in DownMsgs /\ f \in Fds /\ d[f] \in Seq(DownMsgs)
         /\ broadcast_user_changes(d, users, ids) \in [Fds -> Seq(DownMsgs)]
         /\ broadcast_user_changes(d, users, ids)[f] = Append(d[f], uc)
<1>1. ids \in SUBSET DOMAIN users /\ FdsOf(users) = DOMAIN user_by_fd
  <2>1. /\ DOMAIN users = DOMAIN user_by_id
        /\ \A id \in DOMAIN user_by_id : users[id].fd = user_by_id[id].fd
    BY DEF SameUsers
  <2>2. FdsOf(users) = FdsOf(user_by_id)
    BY <2>1 DEF FdsOf
  <2> QED
    BY <2>1, <2>2, KnownFds
<1>2. Part(users, ids) \in SUBSET Infos
  BY <1>1, InfoType DEF Part
<1>3. uc \in DownMsgs
  BY <1>2, UchangeType
<1>4. f \in Fds /\ d[f] \in Seq(DownMsgs)
  BY KnownFds
<1>5. broadcast_user_changes(d, users, ids) = SendAll(d, DOMAIN user_by_fd, uc)
  BY <1>1 DEF broadcast_user_changes, Part
<1>6. PICK K : K = DOMAIN user_by_fd
  OBVIOUS
<1>7. SendAll(d, K, uc) \in [Fds -> Seq(DownMsgs)]
  BY <1>3, SendAllType
<1>8. SendAll(d, K, uc)[f] = Append(d[f], uc)
  BY <1>4, <1>6 DEF SendAll
<1> QED
  BY <1>3, <1>4, <1>5, <1>6, <1>7, <1>8

(* Nobody wins but by a blow, or because the other one left. *)
LEMMA NoWinner ==
  ASSUME NEW ch \in ChallengeRecs, ch.hp1 > 0, ch.hp2 > 0 PROVE Winner(ch, NoId) = NoId
<1>1. NoId # ch.user1 /\ NoId # ch.user2 /\ ch.hp1 \in Int /\ ch.hp2 \in Int
  BY IdFacts DEF ChallengeRecs
<1> QED
  BY <1>1 DEF Winner

(* The messages of a battle that starts, as a player takes them. *)
LEMMA TracksStart ==
  ASSUME NEW f \in Fds, NEW s, NEW d \in Seq(DownMsgs), NEW mode0, NEW c0, NEW ch0,
         Tracks(f, s, d, mode0, c0, ch0),
         NEW users, NEW ids, NEW uc \in DownMsgs, uc = Uchange(Part(users, ids)), f \in ids,
         users[f].state = "UBATTLING",
         NEW m \in Challenges, NEW ok \in DownMsgs, NEW ch,
         m.id1 = ch.user1, m.id2 = ch.user2, ch.user1 # ch.user2,
         \/ f = ch.user1 /\ ok = ChallengeR("ME_OK", m, TRUE)
         \/ f = ch.user2 /\ ok = ChallengeR("ME_OK", m, FALSE),
         NEW after, after.user1 = ch.user1, after.user2 = ch.user2,
         NEW r \in DownMsgs, r = TurnR(ch, after, NoId)
  PROVE  Tracks(f, s, Append(Append(Append(d, uc), ok), r), "all", m.chid, after)
<1>1. PICK d1, d2 : d1 = Append(d, uc) /\ d2 = Append(d1, ok)
  OBVIOUS
<1>2. d1 \in Seq(DownMsgs) /\ d2 \in Seq(DownMsgs)
  BY <1>1
<1>3. Turns(f, uc, mode0, c0, ch0, "busy", c0, ch0)
  BY TurnsChange
<1>4. Tracks(f, s, d1, "busy", c0, ch0)
  BY <1>1, <1>3, TracksMessage
<1>5. Turns(f, ok, "busy", c0, ch0, "pair", m.chid, ch)
  BY TurnsOpens
<1>6. Tracks(f, s, d2, "pair", m.chid, ch)
  BY <1>1, <1>2, <1>4, <1>5, TracksMessage
<1>7. Turns(f, r, "pair", m.chid, ch, "all", m.chid, after)
  BY TurnsResult
<1>8. Tracks(f, s, Append(d2, r), "all", m.chid, after)
  BY <1>2, <1>6, <1>7, TracksMessage
<1> QED
  BY <1>1, <1>8

(* Two messages to a and two to b. *)
Deals(d, e, a, b, x, y, r) ==
  /\ e \in [Fds -> Seq(DownMsgs)]
  /\ \A f \in Fds : /\ f = a => e[f] = Append(Append(d[f], x), r)
                    /\ f = b => e[f] = Append(Append(d[f], y), r)
                    /\ f \notin {a, b} => e[f] = d[f]

LEMMA DealsAre ==
  ASSUME NEW d \in [Fds -> Seq(DownMsgs)], NEW a \in Fds, NEW b \in Fds, a # b,
         NEW x \in DownMsgs, NEW y \in DownMsgs, NEW r \in DownMsgs
  PROVE  Deals(d, Send(Send(Send(Send(d, a, x), b, y), a, r), b, r), a, b, x, y, r)
<1>1. PICK d1 \in [Fds -> Seq(DownMsgs)] : d1 = Send(d, a, x)
  BY SendType
<1>2. PICK d2 \in [Fds -> Seq(DownMsgs)] : d2 = Send(d1, b, y)
  BY SendType
<1>3. PICK d3 \in [Fds -> Seq(DownMsgs)] : d3 = Send(d2, a, r)
  BY SendType
<1>4. PICK d4 \in [Fds -> Seq(DownMsgs)] : d4 = Send(d3, b, r)
  BY SendType
<1>5. ASSUME NEW f \in Fds
      PROVE  /\ f = a => d4[f] = Append(Append(d[f], x), r)
             /\ f = b => d4[f] = Append(Append(d[f], y), r)
             /\ f \notin {a, b} => d4[f] = d[f]
  <2>1. d1[f] = IF f = a THEN Append(d[f], x) ELSE d[f]
    BY <1>1 DEF Send
  <2>2. d2[f] = IF f = b THEN Append(d1[f], y) ELSE d1[f]
    BY <1>2 DEF Send
  <2>3. d3[f] = IF f = a THEN Append(d2[f], r) ELSE d2[f]
    BY <1>3 DEF Send
  <2>4. d4[f] = IF f = b THEN Append(d3[f], r) ELSE d3[f]
    BY <1>4 DEF Send
  <2> QED
    BY <2>1, <2>2, <2>3, <2>4, Zenon
<1> QED
  BY <1>1, <1>2, <1>3, <1>4, <1>5 DEF Deals

LEMMA AcceptDuel ==
  ASSUME LoginInv, BattleInv, DuelInv, NEW fd \in Fds, HandleAccept(fd), UNCHANGED session
  PROVE  DuelInv'
<1>1. TypeOK /\ OwnIds /\ Words /\ Arena /\ IsTree(user_by_id, Ids, UserInfos)
  BY DEF LoginInv, BattleInv, TypeOK, ServerTypeOK
<1> DEFINE m == Head(up[fd])
           c == m.chid
           ch == [ch_by_id[c] EXCEPT !.state = "STARTED", !.turn_no = 0]
           users == Battling(user_by_id, m.id1, m.id2, c)
           after == AfterTurn(ch, 0)
           r == TurnR(ch, after, Winner(after, NoId))
           ok1 == ChallengeR("ME_OK", m, TRUE)
           ok2 == ChallengeR("ME_OK", m, FALSE)
           told == broadcast_user_changes(down, users, {m.id1, m.id2})
           replied1 == Send(told, users[m.id1].fd, ok1)
           replied == Send(replied1, users[m.id2].fd, ok2)
           turned1 == Send(replied, users[ch.user1].fd, r)
           turned == Send(turned1, users[ch.user2].fd, r)
<1>2. /\ m \in Challenges /\ m.kind = "CHALLENGE" /\ Valid(m, "C_ACCEPT")
      /\ m.id1 \in DOMAIN user_by_id /\ m.id2 \in DOMAIN user_by_id
      /\ c \in ChIds /\ c \in DOMAIN ch_by_id /\ ch_by_id[c] \in ChallengeRecs
      /\ ch_by_id[c].state = "ASKING"
  BY <1>1, ChallengeFacts DEF HandleAccept, Valid, Takes
<1>3. /\ user_by_id' = users /\ user_by_fd' = user_by_fd
      /\ ch_by_id' = Put(ch_by_id, c, after)
      /\ {ch.user1, ch.user2} \subseteq DOMAIN users => down' = turned
  BY DEF HandleAccept, Battling
<1>4. UpOK(ch_by_id, drawn, m)
  BY <1>1, HeadOK DEF HandleAccept
<1> HIDE DEF m
<1>5. ok1 \in DownMsgs /\ ok2 \in DownMsgs
  BY <1>2, ChallengeRType
<1>6. /\ ch \in ChallengeRecs /\ ch.turn_no = 0
      /\ ch.user1 = ch_by_id[c].user1 /\ ch.user2 = ch_by_id[c].user2
      /\ ch.hp1 = ch_by_id[c].hp1 /\ ch.hp2 = ch_by_id[c].hp2
  BY <1>2 DEF ChallengeRecs
<1>7. ch.user1 = m.id1 /\ ch.user2 = m.id2
  BY <1>2, <1>4, <1>6 DEF UpOK, Names, Valid
<1>8. ch.user1 # ch.user2 /\ ch.hp1 > 0 /\ ch.hp2 > 0
  BY <1>1, <1>2, <1>6 DEF Arena, Rest, AtRest
<1> HIDE DEF ch
<1>9. /\ after \in ChallengeRecs /\ after.user1 = ch.user1 /\ after.user2 = ch.user2
  BY <1>6, AfterTurnType
<1>10. after.hp1 = ch.hp1 /\ after.hp2 = ch.hp2
  BY <1>6 DEF AfterTurn, ChallengeRecs
<1> HIDE DEF after
<1>11. Winner(after, NoId) = NoId
  BY <1>8, <1>9, <1>10, NoWinner
<1>12. r = TurnR(ch, after, NoId) /\ r \in DownMsgs
  BY <1>6, <1>9, <1>11, TurnRType DEF AnyId
<1> HIDE DEF r
<1>13. /\ IsTree(users, Ids, UserInfos) /\ DOMAIN users = DOMAIN user_by_id /\ SameUsers(users)
       /\ \A id \in {m.id1, m.id2} : users[id].state = "UBATTLING" /\ users[id].chid = c
       /\ \A id \in DOMAIN user_by_id \ {m.id1, m.id2} : users[id] = user_by_id[id]
  <2>1. /\ IsTree(users, Ids, UserInfos) /\ DOMAIN users = DOMAIN user_by_id
        /\ \A id \in DOMAIN user_by_id : /\ users[id].fd = user_by_id[id].fd
                                         /\ users[id].nick = user_by_id[id].nick
    BY <1>1, <1>2, BattlingType
  <2>2. /\ \A id \in {m.id1, m.id2} : users[id].state = "UBATTLING" /\ users[id].chid = c
        /\ \A id \in DOMAIN user_by_id \ {m.id1, m.id2} : users[id] = user_by_id[id]
    BY <1>1, <1>2, BattlingStates
  <2> QED
    BY <2>1, <2>2 DEF SameUsers
<1> HIDE DEF users
<1>14. /\ users[m.id1].fd = m.id1 /\ users[m.id2].fd = m.id2 /\ m.id1 \in Fds /\ m.id2 \in Fds
       /\ users[ch.user1].fd = m.id1 /\ users[ch.user2].fd = m.id2
       /\ m.id1 \in DOMAIN user_by_fd /\ m.id2 \in DOMAIN user_by_fd
  BY <1>2, <1>7, <1>13, KnownFds DEF SameUsers
<1>15. down' = turned
  BY <1>2, <1>3, <1>7, <1>13
<1>16. PICK ids \in SUBSET DOMAIN user_by_id : ids = {m.id1, m.id2}
  BY <1>2
<1>17. PICK uc : uc = Uchange(Part(users, ids))
  OBVIOUS
<1>18. ASSUME NEW f \in DOMAIN user_by_fd
       PROVE  /\ f \in Fds /\ down[f] \in Seq(DownMsgs) /\ uc \in DownMsgs
              /\ told \in [Fds -> Seq(DownMsgs)] /\ told[f] = Append(down[f], uc)
  <2>1. /\ uc \in DownMsgs /\ f \in Fds /\ down[f] \in Seq(DownMsgs)
        /\ broadcast_user_changes(down, users, ids) \in [Fds -> Seq(DownMsgs)]
        /\ broadcast_user_changes(down, users, ids)[f] = Append(down[f], uc)
    <3>1. IsTree(users, Ids, UserInfos) /\ SameUsers(users)
      BY <1>13
    <3>2. down \in [Fds -> Seq(DownMsgs)]
      BY KnownFds
    <3> QED
      BY <1>17, <3>1, <3>2, BroadcastAt
  <2> QED
    BY <1>16, <2>1
<1> HIDE DEF ok1, ok2, told
<1>19. turned = Send(Send(Send(Send(told, m.id1, ok1), m.id2, ok2), m.id1, r), m.id2, r)
  BY <1>14
<1> HIDE DEF replied1, replied, turned1, turned
<1>20. told \in [Fds -> Seq(DownMsgs)] /\ m.id1 # m.id2
  BY <1>7, <1>8, <1>14, <1>18
<1>21. /\ turned \in [Fds -> Seq(DownMsgs)]
       /\ \A f \in DOMAIN user_by_fd :
            /\ f = m.id1 => turned[f] = Append(Append(Append(down[f], uc), ok1), r)
            /\ f = m.id2 => turned[f] = Append(Append(Append(down[f], uc), ok2), r)
            /\ f \notin {m.id1, m.id2} => turned[f] = Append(down[f], uc)
  <2>1. /\ turned \in [Fds -> Seq(DownMsgs)]
        /\ \A f \in Fds : /\ f = m.id1 => turned[f] = Append(Append(told[f], ok1), r)
                          /\ f = m.id2 => turned[f] = Append(Append(told[f], ok2), r)
                          /\ f \notin {m.id1, m.id2} => turned[f] = told[f]
    <3>1. m.id1 \in Fds /\ m.id2 \in Fds /\ r \in DownMsgs
      BY <1>12, <1>14
    <3>2. Deals(told, turned, m.id1, m.id2, ok1, ok2, r)
      BY <1>5, <1>19, <1>20, <3>1, DealsAre
    <3> QED
      BY <3>2 DEF Deals
  <2> QED
    BY <1>18, <2>1
<1>22. PICK chs : chs = ch_by_id'
  OBVIOUS
<1>23. chs[c] = after /\ \A x \in DOMAIN ch_by_id : x # c => chs[x] = ch_by_id[x]
  BY <1>3, <1>22 DEF Put
<1>24. ASSUME NEW f \in DOMAIN user_by_fd PROVE DuelAt(f, session[f], turned[f], users, chs)
  <2>1. PICK u0, ch0, mode0 : u0 = user_by_id[f] /\ ch0 = ch_by_id[u0.chid] /\ mode0 = Mode(u0)
    OBVIOUS
  <2>2. Tracks(f, session[f], down[f], mode0, u0.chid, ch0)
    BY <2>1 DEF DuelInv, DuelAt
  <2>3. f \in Fds /\ down[f] \in Seq(DownMsgs) /\ uc \in DownMsgs /\ f \in DOMAIN user_by_id
    BY <1>18, KnownFds
  <2>4. CASE f \in {m.id1, m.id2}
    <3>1. f \in ids /\ users[f].state = "UBATTLING" /\ users[f].chid = c
      BY <1>13, <1>16, <2>4
    <3>2. PICK ok \in DownMsgs :
            /\ \/ f = ch.user1 /\ ok = ChallengeR("ME_OK", m, TRUE)
               \/ f = ch.user2 /\ ok = ChallengeR("ME_OK", m, FALSE)
            /\ turned[f] = Append(Append(Append(down[f], uc), ok), r)
      BY <1>5, <1>7, <1>21, <2>4 DEF ok1, ok2
    <3>3. Tracks(f, session[f], turned[f], "all", c, after)
      <4>1. PICK d, t : d = down[f] /\ t = session[f]
        OBVIOUS
      <4>2. Tracks(f, t, d, mode0, u0.chid, ch0) /\ d \in Seq(DownMsgs)
        BY <2>2, <2>3, <4>1
      <4>3. Tracks(f, t, Append(Append(Append(d, uc), ok), r), "all", m.chid, after)
        BY <1>2, <1>7, <1>8, <1>9, <1>12, <1>17, <2>3, <3>1, <3>2, <4>2, TracksStart
      <4> QED
        BY <3>2, <4>1, <4>3
    <3> QED
      BY <1>23, <3>1, <3>3 DEF DuelAt, Mode
  <2>5. CASE f \notin {m.id1, m.id2}
    <3>1. users[f] = u0 /\ turned[f] = Append(down[f], uc) /\ f \notin ids
      BY <1>13, <1>16, <1>21, <2>1, <2>3, <2>5
    <3>2. Turns(f, uc, mode0, u0.chid, ch0, mode0, u0.chid, ch0)
      BY <1>17, <2>3, <3>1, TurnsChange
    <3>3. Tracks(f, session[f], turned[f], mode0, u0.chid, ch0)
      BY <2>2, <2>3, <3>1, <3>2, TracksMessage
    <3>4. u0.state = "UBATTLING" => chs[u0.chid] = ch0
      <4>1. SUFFICES ASSUME u0.state = "UBATTLING" PROVE chs[u0.chid] = ch0
        OBVIOUS
      <4>2. u0.chid \in DOMAIN ch_by_id /\ ch_by_id[u0.chid].state = "STARTED"
        BY <2>1, <4>1, Fighter
      <4> QED
        BY <1>2, <1>23, <2>1, <4>2
    <3>5. u0.state # "UBATTLING" => mode0 = "idle"
      BY <2>1 DEF Mode
    <3>6. PICK ch2 : ch2 = chs[u0.chid]
      OBVIOUS
    <3>7. Tracks(f, session[f], turned[f], mode0, u0.chid, ch2)
      BY <3>3, <3>4, <3>5, <3>6, TracksSame
    <3> QED
      BY <2>1, <3>1, <3>6, <3>7 DEF DuelAt
  <2> QED
    BY <2>4, <2>5
<1> QED
  BY <1>3, <1>15, <1>21, <1>22, <1>24, WatchedDuel DEF Watched

(* One message to a and to b. *)
Serves(d, e, a, b, r) ==
  /\ e \in [Fds -> Seq(DownMsgs)]
  /\ \A f \in Fds : e[f] = IF f \in {a, b} THEN Append(d[f], r) ELSE d[f]

LEMMA ServesBoth ==
  ASSUME NEW d \in [Fds -> Seq(DownMsgs)], NEW a \in Fds, NEW b \in Fds, a # b,
         NEW r \in DownMsgs
  PROVE  Serves(d, Send(Send(d, a, r), b, r), a, b, r)
<1>1. PICK d1 \in [Fds -> Seq(DownMsgs)] : d1 = Send(d, a, r)
  BY SendType
<1>2. PICK d2 \in [Fds -> Seq(DownMsgs)] : d2 = Send(d1, b, r)
  BY SendType
<1>3. ASSUME NEW f \in Fds PROVE d2[f] = IF f \in {a, b} THEN Append(d[f], r) ELSE d[f]
  <2>1. d1[f] = IF f = a THEN Append(d[f], r) ELSE d[f]
    BY <1>1 DEF Send
  <2>2. d2[f] = IF f = b THEN Append(d1[f], r) ELSE d1[f]
    BY <1>2 DEF Send
  <2> QED
    BY <2>1, <2>2
<1> QED
  BY <1>1, <1>2, <1>3 DEF Serves

(* judge_turn on a battle. *)
LEMMA JudgeDuel ==
  ASSUME LoginInv, BattleInv, DuelInv, NEW c \in DOMAIN ch_by_id, ch_by_id[c].state = "STARTED",
         NEW ch \in ChallengeRecs, ch.user1 = ch_by_id[c].user1,
         ch.user2 = ch_by_id[c].user2, ch.state = "STARTED",
         NEW force_lose_id \in {NoId, ch.user1, ch.user2},
         NEW damage \in Damages \cup {0}, NEW bonus \in Bonuses, NEW penalty \in Penalties,
         NEW left, left = judge_turn(c, ch, force_lose_id, damage, bonus, penalty)
  PROVE  Watched(DOMAIN user_by_fd, left.down, left.users, left.chs)
<1>0. TypeOK /\ OwnIds /\ Arena /\ damage \in Nat
  BY DamageNat DEF LoginInv, BattleInv
<1>1. PICK after : after = AfterTurn(ch, damage)
  OBVIOUS
<1>2. PICK winner : winner = Winner(after, force_lose_id)
  OBVIOUS
<1>3. PICK r : r = TurnR(ch, after, winner)
  OBVIOUS
<1>4. PICK users : users = EndBattle(user_by_id, after, winner, bonus, penalty)
  OBVIOUS
<1>5. PICK a, b : a = ch.user1 /\ b = ch.user2
  OBVIOUS
<1>6. /\ {a, b} \subseteq DOMAIN user_by_id /\ a # b
      /\ \A id \in {a, b} : user_by_id[id].state = "UBATTLING" /\ user_by_id[id].chid = c
  BY <1>0, <1>5 DEF Arena, Paired, Rest, AtRest
<1>7. /\ user_by_id[a].fd = a /\ user_by_id[b].fd = b /\ a \in Fds /\ b \in Fds
  BY <1>6, KnownFds
<1>8. after \in ChallengeRecs /\ after.user1 = a /\ after.user2 = b
  BY <1>0, <1>1, <1>5, AfterTurnType
<1>9. winner \in {a, b, NoId}
  BY <1>2, <1>8, WinnerType
<1>10. r \in DownMsgs
  <2>1. winner \in AnyId
    BY <1>8, <1>9 DEF ChallengeRecs, AnyId
  <2> QED
    BY <1>3, <1>8, <2>1, TurnRType
<1>11. PICK sent : sent = Send(Send(down, a, r), b, r)
  OBVIOUS
<1>12. Serves(down, sent, a, b, r)
  <2>1. down \in [Fds -> Seq(DownMsgs)]
    BY KnownFds
  <2> QED
    BY <1>6, <1>7, <1>10, <1>11, <2>1, ServesBoth
<1>13. sent \in [Fds -> Seq(DownMsgs)]
  BY <1>12 DEF Serves
<1>14. ASSUME NEW f \in DOMAIN user_by_fd
       PROVE  /\ f \in Fds /\ f \in DOMAIN user_by_id /\ down[f] \in Seq(DownMsgs)
              /\ sent[f] = IF f \in {a, b} THEN Append(down[f], r) ELSE down[f]
  BY <1>12, KnownFds DEF Serves
<1>15. ASSUME NEW f \in DOMAIN user_by_fd, f \in {a, b}
       PROVE  Tracks(f, session[f], down[f], "all", c, ch_by_id[c])
  BY <1>6, <1>15 DEF DuelInv, DuelAt, Mode
<1>16. ASSUME NEW f \in DOMAIN user_by_fd, f \notin {a, b}, user_by_id[f].state = "UBATTLING"
       PROVE  user_by_id[f].chid # c /\ user_by_id[f].chid \in DOMAIN ch_by_id
  BY <1>5, <1>16, Fighter
<1>17. CASE winner = NoId
  <2>1. left.users = user_by_id /\ left.chs = Put(ch_by_id, c, after) /\ left.down = sent
    BY <1>1, <1>2, <1>3, <1>5, <1>6, <1>7, <1>11, <1>17 DEF judge_turn
  <2>2. /\ left.chs[c] = after
        /\ \A x \in DOMAIN ch_by_id : x # c => left.chs[x] = ch_by_id[x]
    BY <2>1 DEF Put
  <2>3. ASSUME NEW f \in DOMAIN user_by_fd
        PROVE  DuelAt(f, session[f], sent[f], user_by_id, left.chs)
    <3>1. CASE f \in {a, b}
      <4>1. PICK old : old = ch_by_id[c]
        OBVIOUS
      <4>2. Turns(f, r, "all", c, old, "all", c, after)
        BY <1>3, <1>5, <1>8, <1>10, <1>17, <4>1, TurnsResult
      <4>3. Tracks(f, session[f], Append(down[f], r), "all", c, after)
        BY <1>10, <1>14, <1>15, <3>1, <4>1, <4>2, TracksMessage
      <4> QED
        BY <1>6, <1>14, <2>2, <3>1, <4>3 DEF DuelAt, Mode
    <3>2. CASE f \notin {a, b}
      <4>1. DuelAt(f, session[f], down[f], user_by_id, ch_by_id) /\ sent[f] = down[f]
        BY <1>14, <3>2 DEF DuelInv
      <4>2. CASE user_by_id[f].state = "UBATTLING"
        BY <1>16, <2>2, <3>2, <4>1, <4>2 DEF DuelAt
      <4>3. CASE user_by_id[f].state # "UBATTLING"
        <5>1. PICK x, y : x = ch_by_id[user_by_id[f].chid] /\ y = left.chs[user_by_id[f].chid]
          OBVIOUS
        <5>2. Tracks(f, session[f], sent[f], "idle", user_by_id[f].chid, x)
          BY <4>1, <4>3, <5>1 DEF DuelAt, Mode
        <5>3. Tracks(f, session[f], sent[f], "idle", user_by_id[f].chid, y)
          BY <5>2, TracksSame
        <5> QED
          BY <4>3, <5>1, <5>3 DEF DuelAt, Mode
      <4> QED
        BY <4>2, <4>3
    <3> QED
      BY <3>1, <3>2
  <2> QED
    BY <1>13, <2>1, <2>3 DEF Watched
<1>18. CASE winner # NoId
  <2>1. PICK ids \in SUBSET DOMAIN user_by_id : ids = {a, b}
    BY <1>6
  <2>2. /\ left.users = users /\ left.chs = tdelete(ch_by_id, c)
        /\ left.down = broadcast_user_changes(sent, users, ids)
    BY <1>1, <1>2, <1>3, <1>4, <1>5, <1>6, <1>7, <1>11, <1>18, <2>1 DEF judge_turn
  <2>3. \A x \in DOMAIN ch_by_id : x # c => left.chs[x] = ch_by_id[x]
    BY <2>2 DEF tdelete
  <2>4. /\ DOMAIN users = DOMAIN user_by_id
        /\ \A id \in {a, b} : users[id].state = "UONLINE"
        /\ \A id \in DOMAIN user_by_id \ {a, b} : users[id] = user_by_id[id]
    <3>1. winner = after.user1 \/ winner = after.user2
      BY <1>8, <1>9, <1>18
    <3> QED
      BY <1>0, <1>4, <1>6, <1>8, <3>1, EndBattleFree
  <2>5. IsTree(users, Ids, UserInfos) /\ SameUsers(users)
    <3>1. c \in ChIds
      BY <1>0 DEF TypeOK, ServerTypeOK, IsTree
    <3>2. JudgedOK(left) /\ JudgedSame(left)
      BY <1>0, <3>1, JudgeType, JudgeSame
    <3> QED
      BY <2>2, <3>2 DEF JudgedOK, JudgedSame
  <2>6. PICK uc : uc = Uchange(Part(users, ids))
    OBVIOUS
  <2>7. ASSUME NEW f \in DOMAIN user_by_fd
        PROVE  /\ uc \in DownMsgs /\ left.down \in [Fds -> Seq(DownMsgs)]
               /\ left.down[f] = Append(sent[f], uc)
    BY <1>13, <2>2, <2>5, <2>6, BroadcastAt
  <2>8. ASSUME NEW f \in DOMAIN user_by_fd
        PROVE  DuelAt(f, session[f], left.down[f], users, left.chs)
    <3>1. CASE f \in {a, b}
      <4>1. PICK old : old = ch_by_id[c]
        OBVIOUS
      <4>2. PICK d1 : d1 = Append(down[f], r)
        OBVIOUS
      <4>3. Turns(f, r, "all", c, old, "busy", c, old)
        BY <1>3, <1>10, TurnsResult
      <4>4. Tracks(f, session[f], d1, "busy", c, old) /\ d1 \in Seq(DownMsgs)
        BY <1>10, <1>14, <1>15, <3>1, <4>1, <4>2, <4>3, TracksMessage
      <4>5. PICK c2, ch2 : c2 = users[f].chid /\ ch2 = left.chs[users[f].chid]
        OBVIOUS
      <4>6. Turns(f, uc, "busy", c, old, "idle", c2, ch2)
        BY <2>1, <2>4, <2>6, <2>7, <3>1, TurnsChange
      <4>7. Tracks(f, session[f], Append(d1, uc), "idle", c2, ch2)
        BY <2>7, <4>4, <4>6, TracksMessage
      <4>8. Mode(users[f]) = "idle"
        BY <2>4, <3>1 DEF Mode
      <4> QED
        BY <1>14, <2>7, <3>1, <4>2, <4>5, <4>7, <4>8 DEF DuelAt
    <3>2. CASE f \notin {a, b}
      <4>1. PICK u, x, mode : u = user_by_id[f] /\ x = ch_by_id[u.chid] /\ mode = Mode(u)
        OBVIOUS
      <4>2. Tracks(f, session[f], down[f], mode, u.chid, x) /\ sent[f] = down[f]
        BY <1>14, <3>2, <4>1 DEF DuelInv, DuelAt
      <4>3. users[f] = u
        BY <1>14, <2>4, <3>2, <4>1
      <4>4. Turns(f, uc, mode, u.chid, x, mode, u.chid, x)
        BY <2>1, <2>6, <2>7, <3>2, TurnsChange
      <4>5. Tracks(f, session[f], left.down[f], mode, u.chid, x)
        <5>1. PICK cu : cu = u.chid
          OBVIOUS
        <5>2. /\ down[f] \in Seq(DownMsgs) /\ uc \in DownMsgs
              /\ Tracks(f, session[f], down[f], mode, cu, x)
              /\ Turns(f, uc, mode, cu, x, mode, cu, x)
          BY <1>14, <2>7, <4>2, <4>4, <5>1
        <5>3. Tracks(f, session[f], Append(down[f], uc), mode, cu, x)
          BY <5>2, TracksMessage
        <5> QED
          BY <2>7, <4>2, <5>1, <5>3
      <4>6. PICK y : y = left.chs[u.chid]
        OBVIOUS
      <4>7. u.state = "UBATTLING" => y = x
        BY <1>16, <2>3, <3>2, <4>1, <4>6
      <4>8. u.state # "UBATTLING" => mode = "idle"
        BY <4>1 DEF Mode
      <4>9. Tracks(f, session[f], left.down[f], mode, u.chid, y)
        BY <4>5, <4>7, <4>8, TracksSame
      <4> QED
        BY <4>1, <4>3, <4>6, <4>9 DEF DuelAt
    <3> QED
      BY <3>1, <3>2
  <2>9. left.down \in [Fds -> Seq(DownMsgs)]
    <3>1. a \in DOMAIN user_by_fd
      BY <1>6, <1>7, KnownFds
    <3> QED
      BY <2>7, <3>1
  <2> QED
    BY <2>2, <2>8, <2>9 DEF Watched
<1> QED
  BY <1>17, <1>18

LEMMA TurnJudgedDuel ==
  ASSUME LoginInv, BattleInv, DuelInv, NEW fd \in Fds, HandleTurnJudged(fd), UNCHANGED session
  PROVE  DuelInv'
<1> DEFINE m == Head(up[fd])
           Left(damage, bonus, penalty) ==
             judge_turn(m.chid, NotedBy(m), NoId, damage, bonus, penalty)
<1>1. TypeOK /\ Takes(fd, "TURN") /\ TurnTaken(m) /\ Acted(NotedBy(m)) /\ user_by_fd' = user_by_fd
  BY DEF HandleTurnJudged, LoginInv
<1>2. PICK damage \in Damages, bonus \in Bonuses, penalty \in Penalties :
        /\ user_by_id' = Left(damage, bonus, penalty).users
        /\ ch_by_id' = Left(damage, bonus, penalty).chs
        /\ down' = Left(damage, bonus, penalty).down
  BY DEF HandleTurnJudged
<1>3. PICK c, ch : c = m.chid /\ ch = NotedBy(m)
  OBVIOUS
<1>4. /\ c \in DOMAIN ch_by_id /\ ch \in ChallengeRecs
      /\ ch.user1 = ch_by_id[c].user1 /\ ch.user2 = ch_by_id[c].user2
      /\ ch.state = "STARTED" /\ ch_by_id[c].state = "STARTED"
  BY <1>1, <1>3, NotedFacts
<1>5. PICK left : left = judge_turn(c, ch, NoId, damage, bonus, penalty)
  OBVIOUS
<1>6. user_by_id' = left.users /\ ch_by_id' = left.chs /\ down' = left.down
  BY <1>2, <1>3, <1>5
<1> HIDE DEF m, Left
<1>7. Watched(DOMAIN user_by_fd, left.down, left.users, left.chs)
  BY <1>4, <1>5, JudgeDuel
<1> QED
  BY <1>1, <1>6, <1>7, WatchedDuel

(* Those who stay are told who leaves, which is nothing of their battles. *)
LEMMA WatchedLeaves ==
  ASSUME LoginInv, NEW d, NEW all, NEW chs, Watched(DOMAIN user_by_fd, d, all, chs),
         NEW u \in DOMAIN user_by_id, NEW users, IsTree(users, Ids, UserInfos), SameUsers(users),
         \A id \in DOMAIN user_by_id \ {u} : users[id] = all[id]
  PROVE  Watched(DOMAIN user_by_fd \ {u}, broadcast_user_changes(d, users, {u}),
                 tdelete(users, u), chs)
<1>1. d \in [Fds -> Seq(DownMsgs)]
  BY DEF Watched
<1>2. PICK ids \in SUBSET DOMAIN user_by_id : ids = {u}
  OBVIOUS
<1>3. PICK uc, e : uc = Uchange(Part(users, ids)) /\ e = broadcast_user_changes(d, users, ids)
  OBVIOUS
<1>4. ASSUME NEW f \in DOMAIN user_by_fd
      PROVE  /\ uc \in DownMsgs /\ d[f] \in Seq(DownMsgs) /\ e \in [Fds -> Seq(DownMsgs)]
             /\ e[f] = Append(d[f], uc)
  BY <1>1, <1>3, BroadcastAt
<1>5. e \in [Fds -> Seq(DownMsgs)]
  <2>1. u \in DOMAIN user_by_fd
    BY KnownFds
  <2> QED
    BY <1>4, <2>1
<1>6. ASSUME NEW f \in DOMAIN user_by_fd \ {u}
      PROVE  DuelAt(f, session[f], e[f], tdelete(users, u), chs)
  <2>1. f \in DOMAIN user_by_id /\ DOMAIN users = DOMAIN user_by_id
    BY KnownFds DEF SameUsers
  <2>2. tdelete(users, u)[f] = all[f]
    BY <2>1 DEF tdelete
  <2>3. PICK c, ch, mode : c = all[f].chid /\ ch = chs[all[f].chid] /\ mode = Mode(all[f])
    OBVIOUS
  <2>4. Tracks(f, session[f], d[f], mode, c, ch)
    BY <2>3 DEF Watched, DuelAt
  <2>5. Turns(f, uc, mode, c, ch, mode, c, ch)
    BY <1>2, <1>3, <1>4, TurnsChange
  <2>6. Tracks(f, session[f], Append(d[f], uc), mode, c, ch)
    BY <1>4, <2>4, <2>5, TracksMessage
  <2> QED
    BY <1>4, <2>2, <2>3, <2>6 DEF DuelAt
<1> QED
  BY <1>2, <1>3, <1>5, <1>6 DEF Watched

LEMMA QuitUserDuel ==
  ASSUME LoginInv, BattleInv, DuelInv, NEW u \in DOMAIN user_by_id, quit_user(u),
         UNCHANGED session
  PROVE  DuelInv'
<1>1. TypeOK
  BY DEF LoginInv
<1>2. PICK user : user = user_by_id[u]
  OBVIOUS
<1> DEFINE Left(bonus, penalty) ==
             IF Fights(u)
               THEN judge_turn(user.chid, ch_by_id[user.chid], u, 0, bonus, penalty)
               ELSE [users |-> user_by_id, chs |-> ch_by_id, down |-> down,
                     server |-> server]
<1>3. PICK bonus \in Bonuses, penalty \in Penalties :
        LET left == Left(bonus, penalty)
            users == [left.users EXCEPT ![u].state = "UOFFLINE"]
        IN  /\ down' = broadcast_user_changes(left.down, users, {u})
            /\ user_by_id' = tdelete(users, u)
            /\ user_by_fd' = tdelete(user_by_fd, user.fd)
            /\ ch_by_id' = left.chs
  BY <1>2 DEF quit_user
<1>4. PICK left : left = Left(bonus, penalty)
  OBVIOUS
<1>5. PICK users : users = [left.users EXCEPT ![u].state = "UOFFLINE"]
  OBVIOUS
<1>6. /\ down' = broadcast_user_changes(left.down, users, {u})
      /\ user_by_id' = tdelete(users, u)
      /\ user_by_fd' = tdelete(user_by_fd, user.fd)
      /\ ch_by_id' = left.chs
  BY <1>3, <1>4, <1>5
<1>7. /\ Watched(DOMAIN user_by_fd, left.down, left.users, left.chs)
      /\ IsTree(left.users, Ids, UserInfos) /\ SameUsers(left.users)
  <2>1. CASE Fights(u)
    <3>1. PICK c \in ChIds, ch \in ChallengeRecs : c = user.chid /\ ch = ch_by_id[user.chid]
      BY <1>1, <1>2, <2>1 DEF Fights, TypeOK, ServerTypeOK, IsTree
    <3>2. left = judge_turn(c, ch, u, 0, bonus, penalty)
      BY <1>4, <2>1, <3>1
    <3>3. JudgedOK(left) /\ JudgedSame(left)
      BY <1>1, <3>2, JudgeType, JudgeSame
    <3>4. /\ c \in DOMAIN ch_by_id /\ ch_by_id[c].state = "STARTED" /\ ch.state = "STARTED"
          /\ ch.user1 = ch_by_id[c].user1 /\ ch.user2 = ch_by_id[c].user2
          /\ u \in {NoId, ch.user1, ch.user2}
      BY <1>2, <2>1, <3>1, Fighter, KnownFds DEF Fights
    <3>5. Watched(DOMAIN user_by_fd, left.down, left.users, left.chs)
      BY <3>2, <3>4, JudgeDuel
    <3> QED
      BY <3>3, <3>5 DEF JudgedOK, JudgedSame
  <2>2. CASE ~ Fights(u)
    <3>1. left.users = user_by_id /\ left.down = down /\ left.chs = ch_by_id
      BY <1>4, <2>2
    <3>2. SameUsers(user_by_id) /\ IsTree(user_by_id, Ids, UserInfos)
      BY <1>1 DEF SameUsers, TypeOK, ServerTypeOK
    <3> QED
      BY <3>1, <3>2, WatchedBegins
  <2> QED
    BY <2>1, <2>2
<1> HIDE DEF Left
<1>8. /\ DOMAIN users = DOMAIN user_by_id /\ users[u] \in UserInfos
      /\ users[u].fd = left.users[u].fd /\ users[u].nick = left.users[u].nick
      /\ \A id \in DOMAIN user_by_id \ {u} : users[id] = left.users[id]
  <2>1. left.users[u] \in UserInfos /\ DOMAIN left.users = DOMAIN user_by_id
    BY <1>7 DEF IsTree, SameUsers
  <2> QED
    BY <1>5, <2>1 DEF UserInfos, UserStates
<1>9. IsTree(users, Ids, UserInfos)
  <2>1. PICK v : v = [left.users[u] EXCEPT !.state = "UOFFLINE"]
    OBVIOUS
  <2>2. u \in DOMAIN left.users
    BY <1>7 DEF SameUsers
  <2>3. users = [left.users EXCEPT ![u] = v]
    BY <1>5, <2>1
  <2>4. v \in UserInfos
    BY <1>8, <2>2, <2>3
  <2> QED
    BY <1>7, <2>2, <2>3, <2>4, UpdateTree
<1>10. SameUsers(users)
  BY <1>7, <1>8 DEF SameUsers
<1>11. DOMAIN user_by_fd' = DOMAIN user_by_fd \ {u}
  <2>1. user.fd = u
    BY <1>2, KnownFds
  <2> QED
    BY <1>6, <2>1 DEF tdelete
<1>12. Watched(DOMAIN user_by_fd \ {u}, broadcast_user_changes(left.down, users, {u}),
               tdelete(users, u), left.chs)
  BY <1>7, <1>8, <1>9, <1>10, WatchedLeaves
<1> QED
  BY <1>6, <1>11, <1>12, WatchedDuel
----------------------------------------------------------------------------
(* The joins. *)
LEMMA JoinRefusedDuel ==
  ASSUME LoginInv, RosterInv, DuelInv, NEW fd \in Fds, HandleJoinRefused(fd), UNCHANGED session
  PROVE  DuelInv'
<1>1. /\ down \in [Fds -> Seq(DownMsgs)] /\ Takes(fd, "JOIN")
      /\ UNCHANGED <<user_by_id, user_by_fd, ch_by_id>>
  BY DEF LoginInv, TypeOK, ChannelsTypeOK, HandleJoinRefused, serverVars, trees
<1>2. PICK r : down' = Send(down, fd, r)
  BY DEF HandleJoinRefused
<1>3. fd \notin DOMAIN user_by_fd
  BY <1>1, JoinWaits
<1>4. \A f \in DOMAIN user_by_fd : down'[f] = down[f]
  BY <1>1, <1>2, <1>3, KnownFds DEF Send
<1> QED
  BY <1>1, <1>4, DuelInvNext DEF DuelInv

LEMMA TailCons ==
  ASSUME NEW S, NEW j \in S, NEW a \in Seq(S)
  PROVE  Tail(<<j>> \o a) = a
<1>1. PICK q : q = <<j>> \o a
  OBVIOUS
<1>2. q \in Seq(S) /\ q # <<>>
  BY <1>1, Preceded
<1>3. Len(q) = 1 + Len(a) /\ Len(a) \in Nat /\ \A i \in 1 .. Len(a) : q[i + 1] = a[i]
  <2>0. <<j>> \in Seq(S) /\ Len(<<j>>) = 1
    OBVIOUS
  <2>1. PICK h \in Seq(S) : h = <<j>> /\ Len(h) = 1
    BY <2>0
  <2> DEFINE w == h \o a
  <2>2. /\ Len(a) \in Nat /\ Len(h) \in Nat /\ Len(w) = Len(h) + Len(a)
        /\ \A i \in 1 .. Len(h) + Len(a) : w[i] = IF i <= Len(h) THEN h[i] ELSE a[i - Len(h)]
    OBVIOUS
  <2>3. q = w
    BY <1>1, <2>1
  <2> HIDE DEF w
  <2> QED
    BY <2>1, <2>2, <2>3
<1>4. /\ Tail(q) \in Seq(S) /\ Len(Tail(q)) = Len(q) - 1
      /\ \A i \in 1 .. Len(Tail(q)) : Tail(q)[i] = q[i + 1]
  BY <1>2, HeadTailProperties
<1>5. PICK t \in Seq(S) : t = Tail(q)
  BY <1>4
<1>6. Len(t) = Len(a) /\ \A i \in 1 .. Len(t) : t[i] = a[i]
  BY <1>3, <1>4, <1>5
<1>7. t = a
  BY <1>6, SeqEqual
<1> QED
  BY <1>1, <1>5, <1>7

LEMMA NewType ==
  ASSUME NEW fd \in Fds, NEW key \in AnyKey, NEW acted \in BOOLEAN, NEW state \in UserStates
  PROVE  New(fd, key, acted, state) \in Sessions
<1>1. fd \in AnyId
  BY IdFacts DEF AnyId
<1>2. NewSession \in Sessions
  BY DEF NewSession, Sessions, Phases, AnyId, AnyChId, AnyKey, UserStates
<1> QED
  BY <1>1, <1>2 DEF New, Sessions, Phases

(* Whoever reads all the chunks of a list in which it is free is in no     *)
(* battle, whatever gs.state held before.                                  *)
LEMMA FreeAfterAll ==
  ASSUME NEW users, IsTree(users, Ids, UserInfos), NEW fd \in DOMAIN users,
         users[fd].state = "UONLINE", NEW t \in Sessions, t.id = fd, t.phase = "MAIN"
  PROVE  \A c, ch : Claim(fd, AllUsers(users), After(t, AllUsers(users)), "idle", c, ch)
<1> DEFINE q == AllUsers(users)
           n == ChunkCount(users)
<1>1. q \in Seq(DownMsgs)
  BY AllUsersType
<1>2. /\ n \in Nat /\ Len(q) = n
      /\ \A i \in 1 .. n : q[i] = Uchange(Part(users, Nth(users, i - 1)))
  BY FirstNth, ChunkIs DEF AllUsers
<1>3. First(users, n) = DOMAIN users
  BY FirstNth
<1> HIDE DEF q, n
<1>4. PICK G : Stepping(G, Len(q), t, q) /\ After(t, q) = G[Len(q)]
  BY <1>2, AfterSteps, Zenon
<1>5. G[0] = t /\ \A i \in 1 .. n : G[i] = Handled(G[i - 1], q[i])
  BY <1>2, <1>4, Zenon DEF Stepping
<1> DEFINE Reached(i) == IF fd \in First(users, i) THEN "idle" ELSE "none"
           S == {i \in Nat : i <= n => Claim(fd, <<>>, G[i], Reached(i), NoId, NoId)}
<1>6. 0 \in S
  <2>1. fd \notin First(users, 0)
    BY FirstNth
  <2>2. Claim(fd, <<>>, G[0], "none", NoId, NoId)
    BY <1>5 DEF Claim
  <2> QED
    BY <2>1, <2>2
<1>7. ASSUME NEW i \in S PROVE i + 1 \in S
  <2>1. SUFFICES ASSUME i + 1 <= n PROVE Claim(fd, <<>>, G[i + 1], Reached(i + 1), NoId, NoId)
    OBVIOUS
  <2>2. /\ i \in Nat /\ i + 1 \in 1 .. n /\ (i + 1) - 1 = i
        /\ Claim(fd, <<>>, G[i], Reached(i), NoId, NoId)
    BY <1>2, <2>1
  <2>3. PICK B : B = Nth(users, i)
    OBVIOUS
  <2>4. First(users, i + 1) = First(users, i) \cup B
    BY <2>2, <2>3, FirstNth
  <2>5. PICK m \in DownMsgs : m = q[i + 1] /\ m = Uchange(Part(users, B))
    BY <1>1, <1>2, <2>2, <2>3
  <2>6. G[i + 1] = Handled(G[i], m)
    BY <1>5, <2>2, <2>5
  <2>7. PICK mode, mode2 : mode = Reached(i) /\ mode2 = Reached(i + 1)
    OBVIOUS
  <2>8. Turns(fd, m, mode, NoId, NoId, mode2, NoId, NoId)
    <3>1. CASE fd \in B
      BY <2>4, <2>5, <2>7, <3>1, TurnsChange
    <3>2. CASE fd \notin B
      <4>1. mode2 = mode
        BY <2>4, <2>7, <3>2
      <4> QED
        BY <2>5, <3>2, <4>1, TurnsChange
    <3> QED
      BY <3>1, <3>2
  <2>9. <<>> \in Seq(DownMsgs) /\ Claim(fd, <<>>, G[i], mode, NoId, NoId)
    BY <2>2, <2>7
  <2>10. Claim(fd, Append(<<>>, m), G[i + 1], mode2, NoId, NoId)
    BY <2>6, <2>8, <2>9 DEF Turns
  <2>11. mode2 \in {"idle", "none"}
    BY <2>7
  <2>12. Claim(fd, <<>>, G[i + 1], mode2, NoId, NoId)
    BY <2>10, <2>11 DEF Claim
  <2> QED
    BY <2>7, <2>12
<1>8. S \in SUBSET Nat
  OBVIOUS
<1> HIDE DEF S
<1>9. n \in S
  BY <1>2, <1>6, <1>7, <1>8, NatInduct
<1>10. Claim(fd, <<>>, After(t, q), "idle", NoId, NoId)
  BY <1>2, <1>3, <1>4, <1>9 DEF S
<1>11. \A c, ch : Claim(fd, q, After(t, q), "idle", c, ch)
  BY <1>10 DEF Claim
<1> QED
  BY <1>11 DEF q

LEMMA JoinOkDuel ==
  ASSUME LoginInv, RosterInv, BattleInv, DuelInv, NEW fd \in Fds, HandleJoinOk(fd),
         UNCHANGED session
  PROVE  DuelInv'
<1>1. /\ down \in [Fds -> Seq(DownMsgs)] /\ Takes(fd, "JOIN") /\ TypeOK
      /\ IsTree(user_by_id, Ids, UserInfos) /\ ch_by_id' = ch_by_id
  BY DEF LoginInv, TypeOK, ChannelsTypeOK, ServerTypeOK, HandleJoinOk
<1>2. PICK nick \in Nicks : nick = Head(up[fd]).nick
  BY <1>1, TakesType, UpKinds DEF TypeOK
<1>3. PICK new \in UserInfos : new = user_create(fd, nick)
  BY NewUserType
<1>4. PICK users : users = Put(user_by_id, fd, new)
  OBVIOUS
<1>5. PICK j, m, told : /\ j = JoinR("ME_OK", fd, fd)
                        /\ m = Uchange({Info(fd, users[fd])})
                        /\ told = [down EXCEPT ![fd] = (@ \o <<j>>) \o AllUsers(users)]
  OBVIOUS
<1>6. /\ user_by_id' = users
      /\ down' = SendAll(told, FdsOf(users) \ {fd}, m)
  BY <1>2, <1>3, <1>4, <1>5, IdFacts DEF HandleJoinOk
<1>7. /\ fd \notin DOMAIN user_by_fd /\ down[fd] = <<>>
      /\ session[fd].phase \in {"WAIT_MSG", "GONE"}
  BY <1>1, JoinWaits
<1>8. fd \notin DOMAIN user_by_id /\ fd \in Ids
  BY <1>7, KnownFds, IdFacts
<1>9. /\ DOMAIN users = DOMAIN user_by_id \cup {fd} /\ users[fd] = new
      /\ \A id \in DOMAIN user_by_id : users[id] = user_by_id[id]
      /\ IsTree(users, Ids, UserInfos)
  <2>1. IsTree(users, Ids, UserInfos)
    BY <1>1, <1>4, <1>8, PutTree
  <2> QED
    BY <1>4, <1>8, <2>1 DEF Put
<1>10. new.state = "UONLINE" /\ new.fd = fd
  BY <1>3 DEF user_create
<1>11. FdsOf(users) \ {fd} = DOMAIN user_by_fd
  <2>1. FdsOf(users) = FdsOf(user_by_id) \cup {fd}
    BY <1>9, <1>10 DEF FdsOf
  <2> QED
    BY <1>7, <2>1, KnownFds
<1>12. j \in DownMsgs
  BY <1>5, <1>8 DEF JoinR, DownMsgs, AnyId, AnyKey
<1>13. PICK a \in Seq(DownMsgs) : a = AllUsers(users)
  BY <1>9, AllUsersType
<1>14. PICK q : q = <<j>> \o a
  OBVIOUS
<1>15. q # <<>> /\ Tail(q) = a
  BY <1>12, <1>14, Preceded, TailCons
<1>16. told[fd] = q /\ \A f \in Fds : f # fd => told[f] = down[f]
  <2>1. down[fd] \o <<j>> = <<j>>
    BY <1>7, <1>12
  <2> QED
    BY <1>1, <1>5, <1>13, <1>14, <2>1
<1>17. /\ down'[fd] = q
       /\ \A f \in DOMAIN user_by_fd : f # fd /\ f \in Fds /\ down'[f] = Append(down[f], m)
  BY <1>6, <1>7, <1>11, <1>16, KnownFds DEF SendAll
<1>18. DOMAIN user_by_fd' = DOMAIN user_by_fd \cup {fd}
  BY JoinOkIndexes
<1>19. PICK ids : ids = {fd} /\ m = Uchange(Part(users, ids)) /\ m \in DownMsgs
  <2>1. m = Uchange(Part(users, {fd}))
    BY <1>5 DEF Part
  <2>2. Part(users, {fd}) \in SUBSET Infos
    BY <1>9, InfoType DEF Part
  <2> QED
    BY <2>1, <2>2, UchangeType DEF Uchange
<1>20. ASSUME NEW f \in DOMAIN user_by_fd
       PROVE  DuelAt(f, session'[f], down'[f], user_by_id', ch_by_id')
  <2>1. f \in DOMAIN user_by_id /\ down[f] \in Seq(DownMsgs) /\ f \notin ids
    BY <1>1, <1>17, <1>19, KnownFds
  <2>2. PICK u, c, ch, mode : /\ u = user_by_id[f] /\ c = u.chid /\ ch = ch_by_id[c]
                              /\ mode = Mode(u)
    OBVIOUS
  <2>3. Tracks(f, session[f], down[f], mode, c, ch)
    BY <2>2 DEF DuelInv, DuelAt
  <2>4. Turns(f, m, mode, c, ch, mode, c, ch)
    BY <1>19, <2>1, TurnsChange
  <2>5. Tracks(f, session[f], Append(down[f], m), mode, c, ch)
    BY <1>19, <2>1, <2>3, <2>4, TracksMessage
  <2>6. user_by_id'[f] = u
    BY <1>6, <1>9, <2>1, <2>2
  <2> QED
    BY <1>1, <1>17, <2>2, <2>5, <2>6 DEF DuelAt
<1>21. DuelAt(fd, session'[fd], down'[fd], user_by_id', ch_by_id')
  <2>1. PICK s, c, ch : s = session[fd] /\ c = new.chid /\ ch = ch_by_id[new.chid]
    OBVIOUS
  <2>2. ASSUME NEW t, NEW p, Ready(fd, s, q, t, p)
        PROVE  Claim(fd, p, After(t, p), "idle", c, ch)
    <3>1. p = a /\ \E key \in AnyKey, acted \in BOOLEAN, state \in UserStates :
                     t = New(fd, key, acted, state)
      BY <1>7, <1>15, <2>1, <2>2 DEF Ready
    <3>2. t \in Sessions /\ t.id = fd /\ t.phase = "MAIN"
      BY <3>1, NewType, NewIs
    <3>3. fd \in DOMAIN users /\ users[fd].state = "UONLINE"
      BY <1>9, <1>10
    <3>4. \A x, y : Claim(fd, AllUsers(users), After(t, AllUsers(users)), "idle", x, y)
      BY <1>9, <3>2, <3>3, FreeAfterAll
    <3> QED
      BY <1>13, <3>1, <3>4
  <2>3. Tracks(fd, s, q, "idle", c, ch)
    BY <1>15, <2>2 DEF Tracks
  <2>4. Mode(new) = "idle"
    BY <1>10 DEF Mode
  <2>5. user_by_id'[fd] = new
    BY <1>6, <1>9
  <2> QED
    BY <1>1, <1>17, <2>1, <2>3, <2>4, <2>5 DEF DuelAt
<1> QED
  BY <1>18, <1>20, <1>21, DuelInvNext

(* Every handler of pkt_handler keeps the invariant. *)
LEMMA HandlerDuel ==
  ASSUME LoginInv, RosterInv, BattleInv, DuelInv, NEW fd \in Fds, pkt_handler(fd),
         UNCHANGED clientVars
  PROVE  DuelInv'
<1>1. UNCHANGED session /\ IndexesAgree
  BY DEF clientVars, LoginInv
<1>2. CASE HandleJoinOk(fd)
  BY <1>1, <1>2, JoinOkDuel
<1>3. CASE HandleJoinRefused(fd)
  BY <1>1, <1>3, JoinRefusedDuel
<1>4. CASE HandleQuit(fd)
  <2>1. CASE Known(Head(up[fd]).id, Head(up[fd]).key)
    <3>1. PICK u \in DOMAIN user_by_id : quit_user(u)
      BY <1>4, <2>1 DEF HandleQuit, Known
    <3> QED
      BY <1>1, <3>1, QuitUserDuel
  <2>2. CASE ~ Known(Head(up[fd]).id, Head(up[fd]).key)
    BY <1>1, <1>4, <2>2, SilentDuel
  <2> QED
    BY <2>1, <2>2
<1>5. CASE HandleDisconnect(fd)
  <2>1. PICK u \in DOMAIN user_by_id : quit_user(u)
    BY <1>1, <1>5 DEF HandleDisconnect, IndexesAgree
  <2> QED
    BY <1>1, <2>1, QuitUserDuel
<1>6. CASE \/ HandleDisconnectUnknown(fd) \/ HandleChallengeIgnored(fd)
           \/ HandleStartNoId(fd) \/ HandleTurnIgnored(fd)
  BY <1>1, <1>6, SilentDuel
<1>7. CASE HandleChallengeError(fd)
  BY <1>1, <1>7, ChallengeErrorDuel
<1>8. CASE HandleStart(fd)
  BY <1>1, <1>8, StartDuel
<1>9. CASE HandleCancel(fd)
  BY <1>1, <1>9, CancelDuel
<1>10. CASE HandleAccept(fd)
  BY <1>1, <1>10, AcceptDuel
<1>11. CASE HandleReject(fd)
  BY <1>1, <1>11, RejectDuel
<1>12. CASE HandleTurnFirst(fd)
  BY <1>1, <1>12, TurnFirstDuel
<1>13. CASE HandleTurnJudged(fd)
  BY <1>1, <1>13, TurnJudgedDuel
<1>14. CASE HandleSendmsg(fd)
  BY <1>1, <1>14, SendmsgDuel
<1> QED
  BY <1>2, <1>3, <1>4, <1>5, <1>6, <1>7, <1>8, <1>9, <1>10, <1>11, <1>12, <1>13, <1>14
  DEF pkt_handler
----------------------------------------------------------------------------
(* The clients' steps. *)
LEMMA SessionDuel ==
  ASSUME LoginInv, DuelInv, NEW fd \in Fds, UNCHANGED serverVars,
         \A f \in Fds \ {fd} : down'[f] = down[f] /\ session'[f] = session[f],
         fd \in DOMAIN user_by_fd =>
           DuelAt(fd, session'[fd], down'[fd], user_by_id, ch_by_id)
  PROVE  DuelInv'
<1>1. UNCHANGED <<user_by_id, user_by_fd, ch_by_id>>
  BY DEF serverVars, trees
<1>2. ASSUME NEW f \in DOMAIN user_by_fd
      PROVE  DuelAt(f, session'[f], down'[f], user_by_id, ch_by_id)
  <2>1. f \in Fds /\ DuelAt(f, session[f], down[f], user_by_id, ch_by_id)
    BY KnownFds DEF DuelInv
  <2>2. CASE f = fd
    BY <2>2
  <2>3. CASE f # fd
    BY <2>1, <2>3
  <2> QED
    BY <2>2, <2>3
<1> QED
  BY <1>1, <1>2, DuelInvNext

(* Nothing is asked of a session that has ended. *)
LEMMA TracksEnded ==
  ASSUME NEW s, s.phase \notin {"WAIT_MSG", "MAIN"}
  PROVE  \A f, d, users, chs : DuelAt(f, s, d, users, chs)
  BY DEF DuelAt, Tracks, Ready

(* What the invariants say of a session at the main screen. *)
LEMMA AtMain ==
  ASSUME LoginInv, RosterInv, BattleInv, NEW fd \in DOMAIN user_by_fd,
         session[fd].phase = "MAIN"
  PROVE  /\ session[fd] \in Sessions /\ session[fd].id = fd
         /\ down[fd] \in Seq(DownMsgs) /\ Lasts(fd, down[fd])
<1>1. fd \in Fds
  BY KnownFds
<1>2. session[fd] \in Sessions /\ down[fd] \in Seq(DownMsgs)
  BY <1>1 DEF LoginInv, TypeOK, ClientTypeOK, ChannelsTypeOK
<1>3. session[fd].id = fd
  BY <1>1 DEF BattleInv, Words, SessionOK
<1>4. Lasts(fd, down[fd])
  BY <1>1 DEF RosterInv, ViewAt, Sees
<1> QED
  BY <1>2, <1>3, <1>4

(* A popup that comes or goes, or an action that is sent, changes nothing  *)
(* of what the session will have of its battle.                            *)
LEMMA TracksAlike ==
  ASSUME NEW fd, NEW s, NEW t, Alike(s, t), AlikePair(s, t), s.id = fd,
         s.phase = "MAIN", t.phase = "MAIN",
         NEW q \in Seq(DownMsgs), Lasts(fd, q), NEW mode, NEW c, NEW ch,
         Tracks(fd, s, q, mode, c, ch)
  PROVE  Tracks(fd, t, q, mode, c, ch)
<1>1. PICK y, z : y = After(s, q) /\ z = After(t, q)
  OBVIOUS
<1>2. Claim(fd, q, y, mode, c, ch)
  BY <1>1 DEF Tracks, Ready
<1>3. Alike(y, z) /\ (Firm(q) => AlikePair(y, z))
  BY <1>1, AfterAlike
<1>4. z.phase = "MAIN"
  <2>1. t \in Sessions /\ t.id = fd
    BY DEF Alike
  <2>2. Reads(t, After(t, q), ListAfter(t.user_by_id, q))
    BY <2>1, AfterReads
  <2> QED
    BY <1>1, <2>2 DEF Reads
<1>5. z \in Sessions /\ z.id = fd /\ z.state = y.state
  BY <1>2, <1>3 DEF Alike, Claim
<1>6. ASSUME Knows(fd, y, c, ch), Firm(q) PROVE Knows(fd, z, c, ch)
  BY <1>3, <1>6 DEF Knows, Alike, AlikePair
<1>7. ASSUME Counts(fd, y, ch) PROVE Counts(fd, z, ch)
  BY <1>3, <1>7 DEF Counts, Alike
<1>8. Claim(fd, q, z, mode, c, ch)
  BY <1>2, <1>4, <1>5, <1>6, <1>7 DEF Claim
<1> QED
  BY <1>1, <1>8 DEF Tracks, Ready

LEMMA LooksAlike ==
  ASSUME NEW s \in Sessions, NEW t,
         \/ \E w \in {"W_NONE", "W_CANCEL", "W_ACCEPT"} : t = [s EXCEPT !.waiting_for = w]
         \/ t = [s EXCEPT !.acted = TRUE]
         \/ t = s
  PROVE  Alike(s, t) /\ AlikePair(s, t) /\ t.phase = s.phase
<1>1. ASSUME NEW w \in {"W_NONE", "W_CANCEL", "W_ACCEPT"}, t = [s EXCEPT !.waiting_for = w]
      PROVE  Alike(s, t) /\ AlikePair(s, t) /\ t.phase = s.phase
  BY <1>1 DEF Alike, AlikePair, Sessions
<1>2. ASSUME t = [s EXCEPT !.acted = TRUE]
      PROVE  Alike(s, t) /\ AlikePair(s, t) /\ t.phase = s.phase
  BY <1>2 DEF Alike, AlikePair, Sessions
<1>3. ASSUME t = s PROVE Alike(s, t) /\ AlikePair(s, t) /\ t.phase = s.phase
  BY <1>3 DEF Alike, AlikePair
<1> QED
  BY <1>1, <1>2, <1>3

LEMMA MainKeyDuel ==
  ASSUME LoginInv, RosterInv, BattleInv, DuelInv, NEW fd \in Fds, session[fd].phase = "MAIN",
         \/ \E id \in Ids : Invite(fd, id)
         \/ Cancel(fd)
         \/ \E action \in {"C_ACCEPT", "C_REJECT"} : Answer(fd, action)
         \/ \E action \in Acts : Act(fd, action)
         \/ Chat(fd)
         \/ Leave(fd),
         UNCHANGED serverVars
  PROVE  DuelInv'
<1>1. session \in [Fds -> Sessions] /\ session[fd] \in Sessions
  BY DEF LoginInv, TypeOK, ClientTypeOK
<1>2. PICK t : /\ session' = [session EXCEPT ![fd] = t]
               /\ \/ \E w \in {"W_NONE", "W_CANCEL", "W_ACCEPT"} :
                       t = [session[fd] EXCEPT !.waiting_for = w]
                  \/ t = [session[fd] EXCEPT !.acted = TRUE]
                  \/ t = [session[fd] EXCEPT !.phase = "DONE"]
                  \/ t = session[fd]
  <2>1. session = [session EXCEPT ![fd] = session[fd]]
    BY <1>1
  <2> QED
    BY <2>1, Zenon DEF Invite, Cancel, Answer, Act, Chat, Leave, clientVars
<1>3. down' = down
  BY DEF Invite, Cancel, Answer, Act, Chat, Leave
<1>4. session'[fd] = t /\ \A f \in Fds \ {fd} : session'[f] = session[f]
  BY <1>1, <1>2
<1>5. ASSUME fd \in DOMAIN user_by_fd PROVE DuelAt(fd, t, down[fd], user_by_id, ch_by_id)
  <2>1. CASE t = [session[fd] EXCEPT !.phase = "DONE"]
    <3>1. t.phase = "DONE"
      BY <1>1, <2>1 DEF Sessions
    <3> QED
      BY <3>1, TracksEnded
  <2>2. CASE t # [session[fd] EXCEPT !.phase = "DONE"]
    <3>1. PICK s \in Sessions : s = session[fd]
      BY <1>1
    <3>2. Alike(s, t) /\ AlikePair(s, t) /\ t.phase = s.phase
      BY <1>2, <2>2, <3>1, LooksAlike
    <3>3. PICK q, mode, c, ch : /\ q = down[fd] /\ mode = Mode(user_by_id[fd])
                                /\ c = user_by_id[fd].chid /\ ch = ch_by_id[user_by_id[fd].chid]
      OBVIOUS
    <3>4. s.id = fd /\ s.phase = "MAIN" /\ q \in Seq(DownMsgs) /\ Lasts(fd, q)
      BY <1>5, <3>1, <3>3, AtMain
    <3>5. Tracks(fd, s, q, mode, c, ch)
      BY <1>5, <3>1, <3>3 DEF DuelInv, DuelAt
    <3>6. Tracks(fd, t, q, mode, c, ch)
      BY <3>2, <3>4, <3>5, TracksAlike
    <3> QED
      BY <3>3, <3>6 DEF DuelAt
  <2> QED
    BY <2>1, <2>2
<1> QED
  BY <1>3, <1>4, <1>5, SessionDuel

LEMMA LoginDuel ==
  ASSUME LoginInv, DuelInv, NEW fd \in Fds, NEW nick, Login(fd, nick), UNCHANGED serverVars
  PROVE  DuelInv'
<1>1. session \in [Fds -> Sessions]
  BY DEF LoginInv, TypeOK, ClientTypeOK
<1>2. down' = down /\ \A f \in Fds \ {fd} : session'[f] = session[f]
  BY <1>1 DEF Login
<1>3. fd \notin DOMAIN user_by_fd
  BY DEF Login, LoginInv, JoinOnce
<1> QED
  BY <1>2, <1>3, SessionDuel

LEMMA LoginAnsweredDuel ==
  ASSUME LoginInv, RosterInv, DuelInv, NEW fd \in Fds, LoginAnswered(fd), UNCHANGED serverVars
  PROVE  DuelInv'
<1>1. /\ down \in [Fds -> Seq(DownMsgs)] /\ down[fd] \in Seq(DownMsgs)
      /\ session \in [Fds -> Sessions]
  BY DEF LoginInv, TypeOK, ChannelsTypeOK, ClientTypeOK
<1>2. /\ down[fd] # <<>> /\ down' = [down EXCEPT ![fd] = Tail(down[fd])]
      /\ session[fd].phase = "WAIT_MSG"
  BY DEF LoginAnswered, Receives
<1>3. PICK q \in Seq(DownMsgs) : q = down[fd] /\ q # <<>>
  BY <1>1, <1>2
<1>4. PICK r, t : r = Head(q) /\ t = Tail(q)
  OBVIOUS
<1>5. down'[fd] = t /\ \A f \in Fds \ {fd} : down'[f] = down[f] /\ session'[f] = session[f]
  <2>1. \A f \in Fds \ {fd} : session'[f] = session[f]
    BY <1>1 DEF LoginAnswered
  <2> QED
    BY <1>1, <1>2, <1>3, <1>4, <2>1
<1>6. ASSUME fd \in DOMAIN user_by_fd
      PROVE  DuelAt(fd, session'[fd], t, user_by_id, ch_by_id)
  <2>1. r \in DownMsgs /\ 1 \in DOMAIN q /\ q[1] = r
    BY <1>3, <1>4, TailView
  <2>2. r.kind = "JOIN_R"
    BY <1>2, <1>3, <1>4, <1>6 DEF RosterInv, ViewAt, Enters
  <2>3. r.error = "ME_OK"
    <3>1. ~ Refused(q)
      BY <1>3, <1>6 DEF LoginInv, JoinOnce
    <3> QED
      BY <2>1, <2>2, <3>1 DEF Refused
  <2>4. r.id = fd /\ r.key \in AnyKey
    <3>1. Admits(fd, q)
      BY <1>3 DEF RosterInv, ViewAt, OwnId
    <3>2. r.key \in AnyKey
      BY <2>1, <2>2, DownKinds
    <3> QED
      BY <2>1, <2>2, <2>3, <3>1, <3>2 DEF Admits
  <2>5. PICK acted \in UnsetActed, state \in UnsetState :
          session' = [session EXCEPT ![fd] = New(r.id, r.key, acted, state)]
    <3>1. Head(down[fd]) = r
      BY <1>3, <1>4
    <3> QED
      BY <2>2, <2>3, <3>1, Zenon DEF LoginAnswered, New
  <2>6. PICK s : s = New(fd, r.key, acted, state)
    OBVIOUS
  <2>7. session'[fd] = s /\ s.phase = "MAIN"
    BY <1>1, <2>4, <2>5, <2>6, NewIs
  <2>8. acted \in BOOLEAN /\ state \in UserStates
    BY UnsetAssumption
  <2>9. PICK mode, c, ch : /\ mode = Mode(user_by_id[fd]) /\ c = user_by_id[fd].chid
                           /\ ch = ch_by_id[user_by_id[fd].chid]
    OBVIOUS
  <2>10. Tracks(fd, session[fd], q, mode, c, ch)
    BY <1>3, <1>6, <2>9 DEF DuelInv, DuelAt
  <2>11. Ready(fd, session[fd], q, s, t)
    BY <1>2, <1>4, <2>4, <2>6, <2>8 DEF Ready
  <2>12. Claim(fd, t, After(s, t), mode, c, ch)
    BY <2>10, <2>11 DEF Tracks
  <2>13. Tracks(fd, s, t, mode, c, ch)
    BY <2>7, <2>12 DEF Tracks, Ready
  <2> QED
    BY <2>7, <2>9, <2>13 DEF DuelAt
<1> QED
  BY <1>5, <1>6, SessionDuel

LEMMA MainReceivesDuel ==
  ASSUME LoginInv, RosterInv, BattleInv, DuelInv, NEW fd \in Fds, MainReceives(fd),
         UNCHANGED serverVars
  PROVE  DuelInv'
<1>1. /\ down \in [Fds -> Seq(DownMsgs)] /\ down[fd] \in Seq(DownMsgs)
      /\ session \in [Fds -> Sessions] /\ session[fd] \in Sessions
  BY DEF LoginInv, TypeOK, ChannelsTypeOK, ClientTypeOK
<1>2. PICK s \in Sessions : s = session[fd]
  BY <1>1
<1>3. PICK q \in Seq(DownMsgs) : q = down[fd]
  BY <1>1
<1>4. PICK m, t : m = Head(q) /\ t = Tail(q)
  OBVIOUS
<1>5. /\ q # <<>> /\ down' = [down EXCEPT ![fd] = t] /\ s.phase = "MAIN"
      /\ session' = [session EXCEPT ![fd] = Handled(s, m)]
  BY <1>2, <1>3, <1>4 DEF MainReceives, Receives
<1>6. PICK h : h = Handled(s, m)
  OBVIOUS
<1>7. /\ down'[fd] = t /\ session'[fd] = h
      /\ \A f \in Fds \ {fd} : down'[f] = down[f] /\ session'[f] = session[f]
  BY <1>1, <1>5, <1>6
<1>8. ASSUME fd \in DOMAIN user_by_fd PROVE DuelAt(fd, h, t, user_by_id, ch_by_id)
  <2>1. m \in DownMsgs /\ 1 \in DOMAIN q /\ q[1] = m
    BY <1>4, <1>5, TailView
  <2>2. s.id = fd /\ Lasts(fd, q)
    BY <1>2, <1>3, <1>5, <1>8, AtMain
  <2>3. h.phase = "MAIN"
    <3>1. ~ Ends(s.id, m)
      BY <2>1, <2>2 DEF Lasts
    <3> QED
      BY <1>5, <1>6, <2>1, <3>1, HandledList
  <2>4. PICK mode, c, ch : /\ mode = Mode(user_by_id[fd]) /\ c = user_by_id[fd].chid
                           /\ ch = ch_by_id[user_by_id[fd].chid]
    OBVIOUS
  <2>5. Tracks(fd, s, q, mode, c, ch)
    BY <1>2, <1>3, <1>8, <2>4 DEF DuelInv, DuelAt
  <2>6. Claim(fd, q, After(s, q), mode, c, ch)
    BY <1>5, <2>5 DEF Tracks, Ready
  <2>7. After(s, q) = After(h, t)
    BY <1>4, <1>5, <1>6, AfterHead
  <2>8. Firm(q) => Firm(t)
    BY <1>4, <1>5, FirmTail
  <2>9. Claim(fd, t, After(h, t), mode, c, ch)
    BY <2>6, <2>7, <2>8 DEF Claim
  <2>10. Tracks(fd, h, t, mode, c, ch)
    BY <2>3, <2>9 DEF Tracks, Ready
  <2> QED
    BY <2>4, <2>10 DEF DuelAt
<1> QED
  BY <1>7, <1>8, SessionDuel

LEMMA EndedDuel ==
  ASSUME LoginInv, DuelInv, NEW fd \in Fds, Discards(fd) \/ Lose(fd), UNCHANGED serverVars
  PROVE  DuelInv'
<1>1. /\ down \in [Fds -> Seq(DownMsgs)]
      /\ session \in [Fds -> Sessions] /\ session[fd] \in Sessions
  BY DEF LoginInv, TypeOK, ChannelsTypeOK, ClientTypeOK
<1>2. CASE Discards(fd)
  <2>1. /\ session' = session /\ session[fd].phase \in {"DONE", "GONE"}
        /\ \A f \in Fds \ {fd} : down'[f] = down[f]
    BY <1>1, <1>2 DEF Discards, clientVars
  <2>2. DuelAt(fd, session'[fd], down'[fd], user_by_id, ch_by_id)
    BY <2>1, TracksEnded
  <2> QED
    BY <2>1, <2>2, SessionDuel
<1>3. CASE Lose(fd)
  <2>1. PICK s : s = [session[fd] EXCEPT !.phase = "GONE"]
    OBVIOUS
  <2>2. s.phase = "GONE"
    BY <1>1, <2>1 DEF Sessions
  <2>3. down' = down /\ session'[fd] = s /\ \A f \in Fds \ {fd} : session'[f] = session[f]
    BY <1>1, <1>3, <2>1 DEF Lose
  <2>4. DuelAt(fd, session'[fd], down'[fd], user_by_id, ch_by_id)
    BY <2>2, <2>3, TracksEnded
  <2> QED
    BY <2>3, <2>4, SessionDuel
<1> QED
  BY <1>2, <1>3
----------------------------------------------------------------------------
LEMMA InitDuel == Init => DuelInv
<1>1. Init => DOMAIN user_by_fd = {}
  BY DEF Init, model_init, Empty
<1> QED
  BY <1>1 DEF DuelInv

LEMMA NextDuel ==
  LoginInv /\ RosterInv /\ BattleInv /\ DuelInv /\ [Next]_vars => DuelInv'
<1> SUFFICES ASSUME LoginInv, RosterInv, BattleInv, DuelInv, [Next]_vars PROVE DuelInv'
  OBVIOUS
<1>1. ASSUME NEW fd \in Fds, pkt_handler(fd), UNCHANGED clientVars PROVE DuelInv'
  BY <1>1, HandlerDuel
<1>2. ASSUME NEW fd \in Fds, Key(fd), UNCHANGED serverVars PROVE DuelInv'
  <2>1. CASE \E nick \in Nicks : Login(fd, nick)
    BY <1>2, <2>1, LoginDuel
  <2>2. CASE ~ \E nick \in Nicks : Login(fd, nick)
    <3>1. session[fd].phase = "MAIN"
      BY <1>2, <2>2 DEF Key, Invite, Cancel, Answer, Act, Chat, Leave, InMain
    <3> QED
      BY <1>2, <2>2, <3>1, MainKeyDuel DEF Key
  <2> QED
    BY <2>1, <2>2
<1>3. ASSUME NEW fd \in Fds, Receive(fd) \/ Lose(fd), UNCHANGED serverVars PROVE DuelInv'
  BY <1>3, LoginAnsweredDuel, MainReceivesDuel, EndedDuel DEF Receive
<1>4. ASSUME UNCHANGED vars PROVE DuelInv'
  <2>1. UNCHANGED <<down, session, user_by_id, user_by_fd, ch_by_id>>
    BY <1>4 DEF vars, channels, clientVars, serverVars, trees
  <2> QED
    BY <2>1, DuelInvNext DEF DuelInv
<1> QED
  BY <1>1, <1>2, <1>3, <1>4 DEF Next

(* The invariant of the players' views holds of the whole game, given that *)
(* a challenge's id is not drawn twice: whatever is on its way to a        *)
(* session the server knows turns what it has of its battle, or of none,   *)
(* into what the server has.                                               *)
THEOREM DuelInvariant == ASSUME FreshIds PROVE Spec => []DuelInv
<1>1. Init => DuelInv
  BY InitDuel
<1>2. LoginInv /\ RosterInv /\ BattleInv /\ DuelInv /\ [Next]_vars => DuelInv'
  BY NextDuel
<1> QED
  BY <1>1, <1>2, JankenInvariant, RosterInvariant, BattleInvariant, PTL DEF Spec

(* Once it has read what was sent to it a client agrees with the server on *)
(* whether it is in a battle and, in one, on which it is, on its side, its *)
(* opponent, the turn and both hit points, for any set of connections and  *)
(* any order of invitations, cancels, answers, turns, quits and lost       *)
(* connections: an invitation that comes late never replaces the opponent  *)
(* of a battle, and the UCHANGE, CHALLENGE_R and TURN_R of handle_challenge *)
(* and judge_turn are enough, in the order in which they are sent.         *)
THEOREM JankenBattleConverges == ASSUME FreshIds PROVE Spec => []BattleConverges
<1>1. LoginInv /\ DuelInv => BattleConverges
  BY DuelInvIs
<1> QED
  BY <1>1, JankenInvariant, DuelInvariant, PTL
----------------------------------------------------------------------------
(* Fits: ResultShown of the next message m and the session s that reads    *)
(* it.  Shows: of each of the messages q, read one after the other.        *)
Fits(s, m) ==
  (m.kind = "TURN_R" /\ ~ m.fin /\ m.turn_no > 1) =>
    LET after == OnTurnR(s, m)
        result == IF s.is_user1 THEN get_turn_result(m.action1, m.action2)
                                ELSE get_turn_result(m.action2, m.action1)
    IN  /\ (after.opponent_hp < s.opponent_hp) <=> (result = "TR_WIN")
        /\ (after.hp < s.hp) <=> (result = "TR_LOSE")

Shows(s, q) == \A i \in DOMAIN q : Fits(After(s, SubSeq(q, 1, i - 1)), q[i])

(* A message that ResultShown says nothing of. *)
Pointless(m) == m.kind = "TURN_R" => m.fin \/ ~ m.turn_no > 1

LEMMA PlainFits == ASSUME NEW m, Pointless(m) PROVE \A s : Fits(s, m)
BY Zenon DEF Pointless, Fits

LEMMA ShowsPlain ==
  ASSUME NEW q, \A i \in DOMAIN q : Pointless(q[i]) PROVE \A s : Shows(s, q)
BY PlainFits, Zenon DEF Shows

LEMMA ShowsAppend ==
  ASSUME NEW s, NEW q \in Seq(DownMsgs), NEW m \in DownMsgs, Shows(s, q),
         Fits(After(s, q), m)
  PROVE  Shows(s, Append(q, m))
<1>1. PICK r : r = Append(q, m)
  OBVIOUS
<1>2. r \in Seq(DownMsgs) /\ DOMAIN r = DOMAIN q \cup {Len(q) + 1} /\ r[Len(q) + 1] = m
  BY <1>1
<1>3. ASSUME NEW i \in DOMAIN q PROVE r[i] = q[i] /\ SubSeq(r, 1, i - 1) = SubSeq(q, 1, i - 1)
  <2>1. i \in 1 .. Len(q) /\ Len(r) = Len(q) + 1 /\ \A j \in 1 .. Len(q) : r[j] = q[j]
    BY <1>1
  <2> QED
    BY <1>2, <2>1
<1>4. SubSeq(r, 1, (Len(q) + 1) - 1) = q
  <2>1. (Len(q) + 1) - 1 = Len(q) /\ SubSeq(r, 1, Len(q)) = q
    BY <1>1
  <2> QED
    BY <2>1
<1>5. \A i \in DOMAIN r : Fits(After(s, SubSeq(r, 1, i - 1)), r[i])
  BY <1>2, <1>3, <1>4 DEF Shows
<1> QED
  BY <1>1, <1>5 DEF Shows

LEMMA ShowsHead ==
  ASSUME NEW s, NEW q \in Seq(DownMsgs), q # <<>>, Shows(s, q)
  PROVE  Fits(s, Head(q)) /\ Shows(Handled(s, Head(q)), Tail(q))
<1>1. PICK m, t : m = Head(q) /\ t = Tail(q)
  OBVIOUS
<1>2. /\ t \in Seq(DownMsgs) /\ 1 \in DOMAIN q /\ q[1] = m /\ SubSeq(q, 1, 1 - 1) = <<>>
      /\ \A i \in DOMAIN t : i + 1 \in DOMAIN q /\ t[i] = q[i + 1]
  BY <1>1
<1>3. Fits(s, m)
  <2>1. Fits(After(s, SubSeq(q, 1, 1 - 1)), q[1])
    BY <1>2, Zenon DEF Shows
  <2> QED
    BY <1>2, <2>1, AfterEmpty
<1>4. ASSUME NEW i \in DOMAIN t
      PROVE  Fits(After(Handled(s, m), SubSeq(t, 1, i - 1)), t[i])
  <2>1. PICK p : p = SubSeq(q, 1, i)
    OBVIOUS
  <2>2. i \in 1 .. Len(q) /\ i + 1 \in DOMAIN q /\ t[i] = q[i + 1] /\ (i + 1) - 1 = i
    BY <1>1, <1>2
  <2>3. p \in Seq(DownMsgs) /\ p # <<>> /\ Head(p) = m
    BY <1>1, <2>1, <2>2
  <2>4. Tail(p) = SubSeq(t, 1, i - 1)
    BY <1>1, <2>1, <2>2
  <2>5. After(s, p) = After(Handled(s, m), SubSeq(t, 1, i - 1))
    BY <2>3, <2>4, AfterHead
  <2>6. Fits(After(s, SubSeq(q, 1, (i + 1) - 1)), q[i + 1])
    BY <2>2 DEF Shows
  <2> QED
    BY <2>1, <2>2, <2>5, <2>6
<1>5. Shows(Handled(s, m), t)
  BY <1>4 DEF Shows
<1> QED
  BY <1>1, <1>3, <1>5

(* Two sessions with the same side and points. *)
SamePoints(s, t) ==
  /\ s \in Sessions /\ t \in Sessions /\ t.id = s.id
  /\ t.is_user1 = s.is_user1 /\ t.hp = s.hp /\ t.opponent_hp = s.opponent_hp

LEMMA FitsSame ==
  ASSUME NEW s, NEW t, SamePoints(s, t), NEW m \in DownMsgs, Fits(s, m)
  PROVE  Fits(t, m)
<1>1. SUFFICES ASSUME m.kind = "TURN_R", ~ m.fin, m.turn_no > 1
               PROVE  Fits(t, m)
  BY DEF Fits
<1>2. PICK a, b : a = OnTurnR(s, m) /\ b = OnTurnR(t, m)
  OBVIOUS
<1>3. a.hp = b.hp /\ a.opponent_hp = b.opponent_hp
  BY <1>2 DEF OnTurnR, SamePoints, Sessions
<1> QED
  BY <1>1, <1>2, <1>3 DEF Fits, SamePoints

LEMMA SameStep ==
  ASSUME NEW s, NEW t, SamePoints(s, t), NEW m \in DownMsgs
  PROVE  SamePoints(Handled(s, m), Handled(t, m))
<1>1. /\ s \in Sessions /\ t \in Sessions /\ Handled(s, m) \in Sessions /\ Handled(t, m) \in Sessions
      /\ Handled(t, m).id = Handled(s, m).id
  BY HandledType, HandledId DEF SamePoints
<1>2. CASE m.kind = "TURN_R"
  BY <1>1, <1>2 DEF SamePoints, Sessions, Handled, OnTurnR
<1>3. CASE m.kind = "CHALLENGE_R"
  BY <1>1, <1>3 DEF SamePoints, Sessions, Handled, OnChallengeR
<1>4. CASE m.kind = "CHALLENGE"
  BY <1>1, <1>4 DEF SamePoints, Sessions, Handled, OnChallenge
<1>5. CASE m.kind = "UCHANGE"
  <2>1. \A z \in Sessions : /\ Handled(z, m).is_user1 = z.is_user1 /\ Handled(z, m).hp = z.hp
                            /\ Handled(z, m).opponent_hp = z.opponent_hp
    BY <1>5 DEF Sessions, Handled, OnUchange
  <2> QED
    BY <1>1, <2>1 DEF SamePoints
<1>6. CASE m.kind \notin {"TURN_R", "CHALLENGE_R", "CHALLENGE", "UCHANGE"}
  BY <1>1, <1>6 DEF SamePoints, Handled
<1> QED
  BY <1>2, <1>3, <1>4, <1>5, <1>6

LEMMA AfterSame ==
  ASSUME NEW s, NEW t, SamePoints(s, t), NEW q \in Seq(DownMsgs)
  PROVE  SamePoints(After(s, q), After(t, q))
<1>1. Len(q) \in Nat /\ \A i \in 1 .. Len(q) : q[i] \in DownMsgs
  OBVIOUS
<1>2. PICK F : Stepping(F, Len(q), s, q) /\ After(s, q) = F[Len(q)]
  BY <1>1, AfterSteps, Zenon
<1>3. PICK G : Stepping(G, Len(q), t, q) /\ After(t, q) = G[Len(q)]
  BY <1>1, AfterSteps, Zenon
<1>4. F[0] = s /\ \A i \in 1 .. Len(q) : F[i] = Handled(F[i - 1], q[i])
  BY <1>2, Zenon DEF Stepping
<1>5. G[0] = t /\ \A i \in 1 .. Len(q) : G[i] = Handled(G[i - 1], q[i])
  BY <1>3, Zenon DEF Stepping
<1> DEFINE S == {i \in Nat : i <= Len(q) => SamePoints(F[i], G[i])}
<1>6. 0 \in S
  BY <1>4, <1>5
<1>7. ASSUME NEW i \in S PROVE i + 1 \in S
  <2>1. SUFFICES ASSUME i + 1 <= Len(q) PROVE SamePoints(F[i + 1], G[i + 1])
    OBVIOUS
  <2>2. i \in Nat /\ i + 1 \in 1 .. Len(q) /\ (i + 1) - 1 = i /\ SamePoints(F[i], G[i])
    BY <1>1, <2>1
  <2>3. F[i + 1] = Handled(F[i], q[i + 1]) /\ G[i + 1] = Handled(G[i], q[i + 1])
    BY <1>4, <1>5, <2>2
  <2>4. SamePoints(Handled(F[i], q[i + 1]), Handled(G[i], q[i + 1]))
    BY <1>1, <2>2, SameStep
  <2> QED
    BY <2>3, <2>4
<1>8. S \in SUBSET Nat
  OBVIOUS
<1> HIDE DEF S
<1>9. Len(q) \in S
  BY <1>6, <1>7, <1>8, NatInduct
<1> QED
  BY <1>1, <1>2, <1>3, <1>9 DEF S

LEMMA ShowsSame ==
  ASSUME NEW s, NEW t, SamePoints(s, t), NEW q \in Seq(DownMsgs), Shows(s, q)
  PROVE  Shows(t, q)
<1> SUFFICES ASSUME NEW i \in DOMAIN q PROVE Fits(After(t, SubSeq(q, 1, i - 1)), q[i])
  BY DEF Shows
<1>1. PICK p : p = SubSeq(q, 1, i - 1)
  OBVIOUS
<1>2. p \in Seq(DownMsgs) /\ q[i] \in DownMsgs
  BY <1>1
<1>3. SamePoints(After(s, p), After(t, p))
  BY <1>2, AfterSame
<1>4. Fits(After(s, p), q[i])
  BY <1>1 DEF Shows
<1> QED
  BY <1>1, <1>2, <1>3, <1>4, FitsSame
----------------------------------------------------------------------------
(* The inductive invariant of the outcomes on screen. *)
ShownAt(f, s, d) ==
  \A t, q : (Ready(f, s, d, t, q) /\ d # <<>>) => Shows(t, q)
ShownInv == \A f \in Fds : ShownAt(f, session[f], down[f])

LEMMA ShownInvNext == ShownInv' <=> \A f \in Fds : ShownAt(f, session'[f], down'[f])
  BY DEF ShownInv

LEMMA ShownInvIs == TypeOK /\ ShownInv => ResultShown
<1> SUFFICES ASSUME TypeOK, ShownInv, NEW fd \in Fds, session[fd].phase = "MAIN",
                    down[fd] # <<>>
             PROVE  Fits(session[fd], Head(down[fd]))
  BY DEF ResultShown, Fits
<1>1. down[fd] \in Seq(DownMsgs)
  BY DEF TypeOK, ChannelsTypeOK
<1>2. Shows(session[fd], down[fd])
  BY DEF ShownInv, ShownAt, Ready
<1> QED
  BY <1>1, <1>2, ShowsHead

LEMMA ShownAppend ==
  ASSUME NEW f, NEW s, NEW d \in Seq(DownMsgs), NEW m \in DownMsgs, ShownAt(f, s, d),
         \A t, q : (/\ Ready(f, s, d, t, q) /\ (s.phase = "WAIT_MSG" => d # <<>>)
                    /\ q \in Seq(DownMsgs)) => Fits(After(t, q), m)
  PROVE  ShownAt(f, s, Append(d, m))
<1> SUFFICES ASSUME NEW t, NEW q, Ready(f, s, Append(d, m), t, q) PROVE Shows(t, q)
  BY DEF ShownAt
<1>1. CASE s.phase = "MAIN" /\ t = s /\ q = Append(d, m)
  <2>1. Fits(After(s, d), m)
    BY <1>1 DEF Ready
  <2>2. Shows(s, d)
    <3>1. CASE d = <<>>
      BY <3>1, ShowsPlain
    <3>2. CASE d # <<>>
      BY <1>1, <3>2 DEF ShownAt, Ready
    <3> QED
      BY <3>1, <3>2
  <2> QED
    BY <1>1, <2>1, <2>2, ShowsAppend
<1>2. CASE /\ s.phase = "WAIT_MSG" /\ q = Tail(Append(d, m))
           /\ \E key \in AnyKey, acted \in BOOLEAN, state \in UserStates :
                t = New(f, key, acted, state)
  <2>1. CASE d = <<>>
    <3>1. q = <<>>
      BY <1>2, <2>1
    <3>2. \A i \in DOMAIN q : Pointless(q[i])
      BY <3>1
    <3> QED
      BY <3>2, ShowsPlain
  <2>2. CASE d # <<>>
    <3>1. Tail(d) \in Seq(DownMsgs) /\ q = Append(Tail(d), m)
      BY <1>2, <2>2
    <3>2. Ready(f, s, d, t, Tail(d))
      BY <1>2, Zenon DEF Ready
    <3>3. Shows(t, Tail(d)) /\ Fits(After(t, Tail(d)), m)
      BY <2>2, <3>1, <3>2 DEF ShownAt
    <3> QED
      BY <3>1, <3>3, ShowsAppend
  <2> QED
    BY <2>1, <2>2
<1> QED
  BY <1>1, <1>2 DEF Ready

(* What a handler has sent so far, d. *)
Showing(d) ==
  d \in [Fds -> Seq(DownMsgs)] /\ \A f \in Fds : ShownAt(f, session[f], d[f])

LEMMA ShowingNothing == ASSUME LoginInv, ShownInv PROVE Showing(down)
BY DEF Showing, ShownInv, LoginInv, TypeOK, ChannelsTypeOK

LEMMA ShowingShown ==
  ASSUME Showing(down'), UNCHANGED session PROVE ShownInv'
BY ShownInvNext DEF Showing

LEMMA ShowingPlain ==
  ASSUME NEW d, Showing(d), NEW to \in Fds, NEW fds, NEW m \in DownMsgs, Pointless(m)
  PROVE  Showing(Send(d, to, m)) /\ Showing(SendAll(d, fds, m))
<1>1. ASSUME NEW S PROVE Showing(SendAll(d, S, m))
  <2>1. ASSUME NEW f \in Fds
        PROVE  /\ ShownAt(f, session[f], SendAll(d, S, m)[f])
               /\ SendAll(d, S, m) \in [Fds -> Seq(DownMsgs)]
    <3>1. d \in [Fds -> Seq(DownMsgs)] /\ d[f] \in Seq(DownMsgs) /\ ShownAt(f, session[f], d[f])
      BY DEF Showing
    <3>2. ShownAt(f, session[f], Append(d[f], m))
      BY <3>1, PlainFits, ShownAppend
    <3>3. PICK e : e = SendAll(d, S, m)
      OBVIOUS
    <3>4. e \in [Fds -> Seq(DownMsgs)]
      BY <3>1, <3>3, SendAllType
    <3>5. e[f] = Append(d[f], m) \/ e[f] = d[f]
      BY <3>3 DEF SendAll
    <3> QED
      BY <3>1, <3>2, <3>3, <3>4, <3>5
  <2> QED
    BY <2>1 DEF Showing, SendAll
<1>2. d \in [Fds -> Seq(DownMsgs)]
  BY DEF Showing
<1> QED
  BY <1>1, <1>2, SendIsAll

LEMMA ShowingBroadcast ==
  ASSUME NEW d, Showing(d), NEW users, IsTree(users, Ids, UserInfos),
         NEW ids \in SUBSET DOMAIN users
  PROVE  Showing(broadcast_user_changes(d, users, ids))
<1>1. PICK m : m = Uchange(Part(users, ids))
  OBVIOUS
<1>2. Part(users, ids) \in SUBSET Infos
  BY InfoType DEF Part
<1>3. m \in DownMsgs /\ m.kind = "UCHANGE"
  BY <1>1, <1>2, UchangeType DEF Uchange
<1>4. Pointless(m)
  BY <1>3 DEF Pointless
<1>5. Fds = {} \/ \E to \in Fds : TRUE
  OBVIOUS
<1>6. Showing(SendAll(d, FdsOf(users), m))
  <2>1. CASE Fds = {}
    <3>1. SendAll(d, FdsOf(users), m) = d
      BY <2>1 DEF SendAll, Showing
    <3> QED
      BY <3>1
  <2>2. CASE Fds # {}
    BY <1>3, <1>4, <2>2, ShowingPlain
  <2> QED
    BY <2>1, <2>2
<1> QED
  BY <1>1, <1>6 DEF broadcast_user_changes, Part

----------------------------------------------------------------------------
(* The handlers that judge no turn. *)
LEMMA SilentShown ==
  ASSUME LoginInv, ShownInv, NEW fd \in Fds, UNCHANGED session,
         \/ HandleChallengeIgnored(fd) \/ HandleStartNoId(fd)
         \/ HandleDisconnectUnknown(fd) \/ HandleTurnIgnored(fd) \/ HandleTurnFirst(fd)
         \/ HandleQuit(fd) /\ ~ Known(Head(up[fd]).id, Head(up[fd]).key)
  PROVE  ShownInv'
<1>1. UNCHANGED down
  BY DEF HandleChallengeIgnored, HandleStartNoId, HandleDisconnectUnknown,
         HandleTurnIgnored, HandleTurnFirst, HandleQuit
<1> QED
  BY <1>1, ShowingNothing, ShowingShown

LEMMA AnswerShown ==
  ASSUME LoginInv, ShownInv, NEW fd \in Fds, UNCHANGED session,
         \/ HandleChallengeError(fd) \/ HandleCancel(fd) \/ HandleReject(fd)
         \/ HandleStart(fd) \/ HandleSendmsg(fd) \/ HandleJoinRefused(fd)
  PROVE  ShownInv'
<1>0. TypeOK /\ Showing(down)
  BY ShowingNothing DEF LoginInv
<1>1. ASSUME NEW to \in Fds, NEW m \in DownMsgs, m.kind # "TURN_R", down' = Send(down, to, m)
      PROVE  ShownInv'
  <2>1. Pointless(m)
    BY <1>1 DEF Pointless
  <2> QED
    BY <1>0, <1>1, <2>1, ShowingPlain, ShowingShown
<1>2. CASE HandleChallengeError(fd)
  <2>1. PICK m \in Challenges : m = Head(up[fd])
    BY <1>0, <1>2, ChallengeFacts DEF HandleChallengeError
  <2>2. ChallengeError(m) \in {"NXID", "ICKEY", "ENGAGED", "CHLSELF", "NXCHID",
                               "CANCELLED", "REJECTED"}
    <3>1. ChallengeError(m) # "ME_OK"
      BY <1>2, <2>1 DEF HandleChallengeError
    <3>2. ChallengeError(m) \in {"ME_OK", "NXID", "ICKEY", "ENGAGED", "CHLSELF", "NXCHID",
                                 "CANCELLED", "REJECTED"}
      BY <2>1 DEF ChallengeError, Challenges
    <3> QED
      BY <3>1, <3>2
  <2>3. PICK r : r = ChallengeR(ChallengeError(m), m, FALSE)
    OBVIOUS
  <2>4. r \in DownMsgs /\ r.kind = "CHALLENGE_R" /\ down' = Send(down, fd, r)
    BY <1>2, <2>1, <2>2, <2>3, RefusalPlain DEF HandleChallengeError, ChallengeR
  <2> QED
    BY <1>1, <2>4
<1>3. CASE HandleCancel(fd)
  <2>1. PICK m \in Challenges : m = Head(up[fd])
    BY <1>0, <1>3, ChallengeFacts DEF HandleCancel
  <2>2. PICK user2 : user2 = ch_by_id[user_by_id[m.id1].chid].user2
    OBVIOUS
  <2>3. PICK r : r = ChallengeR("CANCELLED", m, FALSE)
    OBVIOUS
  <2>4. down' = IF user2 \in DOMAIN user_by_id
                  THEN Send(down, user_by_id[user2].fd, r) ELSE down
    BY <1>3, <2>1, <2>2, <2>3 DEF HandleCancel
  <2>5. r \in DownMsgs /\ r.kind = "CHALLENGE_R"
    BY <2>3, RefusalPlain DEF ChallengeR
  <2>6. user2 \in DOMAIN user_by_id => user_by_id[user2].fd \in Fds
    BY KnownFds
  <2> QED
    BY <1>0, <1>1, <2>4, <2>5, <2>6, ShowingShown
<1>4. CASE HandleReject(fd)
  <2>1. PICK m \in Challenges : m = Head(up[fd]) /\ m.id1 \in DOMAIN user_by_id
    BY <1>0, <1>4, ChallengeFacts DEF HandleReject, Rejects, Valid
  <2>2. PICK r : r = ChallengeR("REJECTED", m, FALSE)
    OBVIOUS
  <2>3. r \in DownMsgs /\ r.kind = "CHALLENGE_R"
    BY <2>2, RefusalPlain DEF ChallengeR
  <2>4. user_by_id[m.id1].fd \in Fds
    BY <2>1, KnownFds
  <2>5. down' = Send(down, user_by_id[m.id1].fd, r)
    BY <1>4, <2>1, <2>2 DEF HandleReject
  <2> QED
    BY <1>1, <2>3, <2>4, <2>5
<1>5. CASE HandleStart(fd)
  <2>1. PICK m \in Challenges : m = Head(up[fd]) /\ m.id2 \in DOMAIN user_by_id
    BY <1>0, <1>5, ChallengeFacts DEF HandleStart, Valid
  <2>2. PICK c \in FreeChIds :
          down' = Send(down, user_by_id[m.id2].fd, [m EXCEPT !.chid = c])
    BY <1>5, <2>1 DEF HandleStart
  <2>3. PICK r : r = [m EXCEPT !.chid = c]
    OBVIOUS
  <2>4. r \in DownMsgs /\ r.kind = "CHALLENGE"
    BY <2>3 DEF Challenges, DownMsgs, FreeChIds, AnyChId
  <2>5. user_by_id[m.id2].fd \in Fds
    BY <2>1, KnownFds
  <2> QED
    BY <1>1, <2>2, <2>3, <2>4, <2>5
<1>6. CASE HandleSendmsg(fd)
  <2>1. PICK h \in SendMsgs : h = Head(up[fd])
    BY <1>0, <1>6, TakesType, UpKinds DEF HandleSendmsg, TypeOK
  <2>2. PICK m : m = [h EXCEPT !.key = 0]
    OBVIOUS
  <2>3. m \in DownMsgs /\ m.kind = "SENDMSG"
    BY <2>2 DEF SendMsgs, DownMsgs, AnyKey
  <2>4. down' = SendAll(down, FdsOf(user_by_id), m) \/ down' = down
    BY <1>6, <2>1, <2>2 DEF HandleSendmsg
  <2>5. Pointless(m)
    BY <2>3 DEF Pointless
  <2> QED
    BY <1>0, <2>3, <2>4, <2>5, ShowingPlain, ShowingShown
<1>7. CASE HandleJoinRefused(fd)
  <2>1. PICK stale \in Fds \cup {NoId} : \E err :
           /\ err = JoinError(Head(up[fd]).nick, stale) /\ err # "ME_OK"
           /\ down' = Send(down, fd, JoinR(err, NoId, 0))
    BY <1>7 DEF HandleJoinRefused
  <2>2. PICK err, r : /\ err = JoinError(Head(up[fd]).nick, stale) /\ r = JoinR(err, NoId, 0)
                      /\ down' = Send(down, fd, r)
    BY <2>1
  <2>3. err \in {"ME_OK", "TOOMANYUSER", "JOINTWICE", "DUPNICK", "ME_OTHER"}
    BY <2>2 DEF JoinError
  <2>4. r \in DownMsgs /\ r.kind = "JOIN_R"
    BY <2>2, <2>3 DEF JoinR, DownMsgs, AnyId, AnyKey
  <2> QED
    BY <1>1, <2>2, <2>4
<1> QED
  BY <1>2, <1>3, <1>4, <1>5, <1>6, <1>7

LEMMA JoinOkShown ==
  ASSUME LoginInv, RosterInv, ShownInv, NEW fd \in Fds, HandleJoinOk(fd), UNCHANGED session
  PROVE  ShownInv'
<1>1. /\ down \in [Fds -> Seq(DownMsgs)] /\ Takes(fd, "JOIN") /\ TypeOK /\ Showing(down)
      /\ IsTree(user_by_id, Ids, UserInfos) /\ Awake(user_by_id)
  BY ShowingNothing DEF LoginInv, TypeOK, ChannelsTypeOK, ServerTypeOK, HandleJoinOk, RosterInv
<1>2. PICK nick \in Nicks : nick = Head(up[fd]).nick
  BY <1>1, TakesType, UpKinds DEF TypeOK
<1>3. PICK new \in UserInfos : new = user_create(fd, nick)
  BY NewUserType
<1>4. PICK users : users = Put(user_by_id, fd, new)
  OBVIOUS
<1>5. PICK j, m, told : /\ j = JoinR("ME_OK", fd, fd)
                        /\ m = Uchange({Info(fd, users[fd])})
                        /\ told = [down EXCEPT ![fd] = (@ \o <<j>>) \o AllUsers(users)]
  OBVIOUS
<1>6. down' = SendAll(told, FdsOf(users) \ {fd}, m)
  BY <1>2, <1>3, <1>4, <1>5, IdFacts DEF HandleJoinOk
<1>7. fd \notin DOMAIN user_by_fd /\ down[fd] = <<>> /\ session[fd].phase \in {"WAIT_MSG", "GONE"}
  BY <1>1, JoinWaits
<1>8. fd \notin DOMAIN user_by_id /\ fd \in Ids
  BY <1>7, KnownFds, IdFacts
<1>9. /\ IsTree(users, Ids, UserInfos) /\ fd \in DOMAIN users /\ Awake(users)
  <2>1. IsTree(users, Ids, UserInfos)
    BY <1>1, <1>4, <1>8, PutTree
  <2>2. new.state = "UONLINE"
    BY <1>3 DEF user_create
  <2> QED
    BY <1>1, <1>4, <1>8, <2>1, <2>2 DEF Put, Awake
<1>10. j \in DownMsgs /\ j.kind = "JOIN_R"
  BY <1>5, <1>8 DEF JoinR, DownMsgs, AnyId, AnyKey
<1>11. PICK q : q = <<j>> \o AllUsers(users)
  OBVIOUS
<1>12. q # <<>> /\ q \in Seq(DownMsgs) /\ \A i \in DOMAIN q : q[i] = j \/ q[i].kind = "UCHANGE"
  <2>1. Welcomes(fd, j, q, users)
    BY <1>9, <1>10, <1>11, FirstList
  <2> QED
    BY <2>1 DEF Welcomes
<1>13. \A i \in DOMAIN q : q[i].kind # "TURN_R"
  BY <1>10, <1>12
<1>14. told = [down EXCEPT ![fd] = q]
  <2>1. down[fd] \o <<j>> = <<j>>
    BY <1>7, <1>10
  <2> QED
    BY <1>1, <1>5, <1>11, <2>1
<1>15. Showing(told)
  <2>1. ShownAt(fd, session[fd], q)
    <3>1. SUFFICES ASSUME NEW t, NEW p, Ready(fd, session[fd], q, t, p) PROVE Shows(t, p)
      BY DEF ShownAt
    <3>2. p = Tail(q)
      BY <1>7, <3>1 DEF Ready
    <3>3. \A i \in DOMAIN p : \E k \in DOMAIN q : p[i] = q[k]
      BY <1>12, <3>2, TailView
    <3>4. \A i \in DOMAIN p : Pointless(p[i])
      BY <1>13, <3>3 DEF Pointless
    <3> QED
      BY <3>4, ShowsPlain
  <2>2. told \in [Fds -> Seq(DownMsgs)] /\ \A f \in Fds : told[f] = IF f = fd THEN q ELSE down[f]
    BY <1>1, <1>12, <1>14
  <2> QED
    BY <1>1, <2>1, <2>2 DEF Showing
<1>16. m \in DownMsgs /\ Pointless(m)
  <2>1. {Info(fd, users[fd])} \in SUBSET Infos
    BY <1>9, InfoType
  <2>2. m \in DownMsgs /\ m.kind = "UCHANGE"
    BY <1>5, <2>1, UchangeType DEF Uchange
  <2> QED
    BY <2>2 DEF Pointless
<1> QED
  BY <1>6, <1>15, <1>16, ShowingPlain, ShowingShown

LEMMA AcceptShown ==
  ASSUME LoginInv, BattleInv, ShownInv, NEW fd \in Fds, HandleAccept(fd), UNCHANGED session
  PROVE  ShownInv'
<1>1. TypeOK /\ Showing(down) /\ IsTree(user_by_id, Ids, UserInfos)
  BY ShowingNothing DEF LoginInv, TypeOK, ServerTypeOK
<1> DEFINE m == Head(up[fd])
           c == m.chid
           ch == [ch_by_id[c] EXCEPT !.state = "STARTED", !.turn_no = 0]
           users == Battling(user_by_id, m.id1, m.id2, c)
           after == AfterTurn(ch, 0)
           r == TurnR(ch, after, Winner(after, NoId))
           ok1 == ChallengeR("ME_OK", m, TRUE)
           ok2 == ChallengeR("ME_OK", m, FALSE)
           told == broadcast_user_changes(down, users, {m.id1, m.id2})
           replied1 == Send(told, users[m.id1].fd, ok1)
           replied == Send(replied1, users[m.id2].fd, ok2)
           turned1 == Send(replied, users[ch.user1].fd, r)
           turned == Send(turned1, users[ch.user2].fd, r)
<1>2. /\ m \in Challenges /\ m.id1 \in DOMAIN user_by_id /\ m.id2 \in DOMAIN user_by_id
      /\ m.chid \in ChIds /\ ch_by_id[m.chid] \in ChallengeRecs
  BY <1>1, ChallengeFacts DEF HandleAccept, Valid
<1>3. IF {ch.user1, ch.user2} \subseteq DOMAIN users
        THEN down' = turned ELSE down' = replied
  BY DEF HandleAccept, Battling
<1> HIDE DEF m
<1>4. ch \in ChallengeRecs /\ ch.turn_no = 0
  BY <1>2 DEF ChallengeRecs
<1> HIDE DEF c, ch
<1>5. after \in ChallengeRecs /\ after.turn_no = 1
  <2>1. after.turn_no = 1
    BY <1>4 DEF AfterTurn, ChallengeRecs
  <2> QED
    BY <1>4, <2>1, AfterTurnType
<1> HIDE DEF after
<1>6. IsTree(users, Ids, UserInfos) /\ DOMAIN users = DOMAIN user_by_id
      /\ \A id \in DOMAIN user_by_id : users[id].fd \in Fds
  <2>1. /\ IsTree(users, Ids, UserInfos) /\ DOMAIN users = DOMAIN user_by_id
        /\ \A id \in DOMAIN user_by_id : users[id].fd = user_by_id[id].fd
    BY <1>1, <1>2, BattlingType DEF c
  <2> QED
    BY <2>1, KnownFds
<1> HIDE DEF users
<1>7. ok1 \in DownMsgs /\ ok2 \in DownMsgs /\ Pointless(ok1) /\ Pointless(ok2)
  BY <1>2, ChallengeRType DEF ChallengeR, Pointless
<1>8. r \in DownMsgs /\ Pointless(r)
  <2>1. Winner(after, NoId) \in AnyId
    BY <1>5, WinnerType DEF ChallengeRecs, AnyId
  <2>2. ~ r.turn_no > 1
    BY <1>5, TurnRIs
  <2> QED
    BY <1>4, <1>5, <2>1, <2>2, TurnRType DEF Pointless
<1> HIDE DEF ok1, ok2, r
<1>9. Showing(told)
  BY <1>1, <1>2, <1>6, ShowingBroadcast
<1> HIDE DEF told
<1>10. Showing(replied1)
  BY <1>2, <1>6, <1>7, <1>9, ShowingPlain
<1> HIDE DEF replied1
<1>11. Showing(replied)
  BY <1>2, <1>6, <1>7, <1>10, ShowingPlain
<1> HIDE DEF replied
<1>12. ASSUME {ch.user1, ch.user2} \subseteq DOMAIN users PROVE Showing(turned)
  <2>1. Showing(turned1)
    BY <1>6, <1>8, <1>11, <1>12, ShowingPlain
  <2> HIDE DEF turned1
  <2> QED
    BY <1>6, <1>8, <1>12, <2>1, ShowingPlain
<1> QED
  BY <1>3, <1>11, <1>12, ShowingShown
----------------------------------------------------------------------------
(* The result of a turn that both have played, as a player takes it who    *)
(* has the hit points from before the turn.                                *)
LEMMA Mirrored ==
  \A a, b : /\ get_turn_result(a, b) = "TR_WIN" <=> get_turn_result(b, a) = "TR_LOSE"
            /\ get_turn_result(a, b) = "TR_LOSE" <=> get_turn_result(b, a) = "TR_WIN"
BY DEF get_turn_result

LEMMA FitsTurn ==
  ASSUME NEW ch \in ChallengeRecs, Acted(ch), NEW damage \in Nat \ {0}, NEW winner,
         NEW r, r = TurnR(ch, AfterTurn(ch, damage), winner), NEW z \in Sessions,
         z.is_user1 => z.hp = ch.hp1 /\ z.opponent_hp = ch.hp2,
         ~ z.is_user1 => z.hp = ch.hp2 /\ z.opponent_hp = ch.hp1
  PROVE  Fits(z, r)
<1>1. PICK after : after = AfterTurn(ch, damage)
  OBVIOUS
<1>2. /\ r.kind = "TURN_R" /\ r.turn_no = after.turn_no /\ r.hp1 = after.hp1
      /\ r.hp2 = after.hp2 /\ r.action1 = ch.act1 /\ r.action2 = ch.act2
  BY <1>1 DEF TurnR
<1> SUFFICES ASSUME r.turn_no > 1
             PROVE  LET t == OnTurnR(z, r)
                        result == IF z.is_user1 THEN get_turn_result(r.action1, r.action2)
                                                ELSE get_turn_result(r.action2, r.action1)
                    IN  /\ (t.opponent_hp < z.opponent_hp) <=> (result = "TR_WIN")
                        /\ (t.hp < z.hp) <=> (result = "TR_LOSE")
  BY DEF Fits
<1>3. PICK one : one = get_turn_result(ch.act1, ch.act2)
  OBVIOUS
<1>4. /\ after.hp1 = IF one = "TR_LOSE" THEN ch.hp1 - damage ELSE ch.hp1
      /\ after.hp2 = IF one = "TR_WIN" THEN ch.hp2 - damage ELSE ch.hp2
  <2>1. CASE ch.turn_no = 0
    <3>1. after.turn_no = 1
      BY <1>1, <2>1 DEF AfterTurn, ChallengeRecs
    <3> QED
      BY <1>2, <3>1
  <2>2. CASE ch.turn_no # 0
    BY <1>1, <1>3, <2>2 DEF AfterTurn, ChallengeRecs
  <2> QED
    BY <2>1, <2>2
<1>5. /\ ch.hp1 \in Int /\ ch.hp2 \in Int
  BY DEF ChallengeRecs
<1>6. /\ after.hp1 < ch.hp1 <=> one = "TR_LOSE"
      /\ after.hp2 < ch.hp2 <=> one = "TR_WIN"
  BY <1>4, <1>5
<1>7. PICK t : t = OnTurnR(z, r)
  OBVIOUS
<1>8. CASE z.is_user1
  <2>1. t.hp = after.hp1 /\ t.opponent_hp = after.hp2
    BY <1>2, <1>7, <1>8 DEF OnTurnR, Sessions
  <2> QED
    BY <1>2, <1>3, <1>6, <1>7, <1>8, <2>1
<1>9. CASE ~ z.is_user1
  <2>1. t.hp = after.hp2 /\ t.opponent_hp = after.hp1
    BY <1>2, <1>7, <1>9 DEF OnTurnR, Sessions
  <2>2. PICK two : two = get_turn_result(ch.act2, ch.act1)
    OBVIOUS
  <2>3. (two = "TR_WIN" <=> one = "TR_LOSE") /\ (two = "TR_LOSE" <=> one = "TR_WIN")
    BY <1>3, <2>2, Mirrored
  <2>4. /\ t.opponent_hp < z.opponent_hp <=> two = "TR_WIN"
        /\ t.hp < z.hp <=> two = "TR_LOSE"
    BY <1>6, <1>9, <2>1, <2>3
  <2> QED
    BY <1>2, <1>7, <1>9, <2>2, <2>4
<1> QED
  BY <1>8, <1>9

(* judge_turn on a battle: its last turn, or because a player has left.    *)
LEMMA JudgeShown ==
  ASSUME LoginInv, BattleInv, DuelInv, ShownInv,
         NEW c \in DOMAIN ch_by_id, ch_by_id[c].state = "STARTED",
         NEW ch \in ChallengeRecs, ch.user1 = ch_by_id[c].user1,
         ch.user2 = ch_by_id[c].user2, ch.hp1 = ch_by_id[c].hp1, ch.hp2 = ch_by_id[c].hp2,
         ch.state = "STARTED", NEW force_lose_id \in {NoId, ch.user1, ch.user2},
         NEW damage \in Damages \cup {0},
         force_lose_id = NoId => damage # 0 /\ Acted(ch),
         NEW bonus \in Bonuses, NEW penalty \in Penalties,
         NEW left, left = judge_turn(c, ch, force_lose_id, damage, bonus, penalty)
  PROVE  Showing(left.down)
<1>0. TypeOK /\ OwnIds /\ Arena /\ damage \in Nat /\ Showing(down)
  BY DamageNat, ShowingNothing DEF LoginInv, BattleInv
<1>1. PICK after : after = AfterTurn(ch, damage)
  OBVIOUS
<1>2. PICK winner : winner = Winner(after, force_lose_id)
  OBVIOUS
<1>3. PICK r : r = TurnR(ch, after, winner)
  OBVIOUS
<1>4. PICK users : users = EndBattle(user_by_id, after, winner, bonus, penalty)
  OBVIOUS
<1>5. PICK a, b : a = ch.user1 /\ b = ch.user2
  OBVIOUS
<1>6. /\ {a, b} \subseteq DOMAIN user_by_id /\ a # b
      /\ \A id \in {a, b} : user_by_id[id].state = "UBATTLING" /\ user_by_id[id].chid = c
  BY <1>0, <1>5 DEF Arena, Paired, Rest, AtRest
<1>7. /\ user_by_id[a].fd = a /\ user_by_id[b].fd = b /\ a \in Fds /\ b \in Fds
      /\ a \in DOMAIN user_by_fd /\ b \in DOMAIN user_by_fd
  BY <1>6, KnownFds
<1>8. after \in ChallengeRecs /\ after.user1 = a /\ after.user2 = b
  BY <1>0, <1>1, <1>5, AfterTurnType
<1>9. winner \in {a, b, NoId}
  BY <1>2, <1>8, WinnerType
<1>10. r \in DownMsgs
  <2>1. winner \in AnyId
    BY <1>8, <1>9 DEF ChallengeRecs, AnyId
  <2> QED
    BY <1>3, <1>8, <2>1, TurnRType
<1>11. PICK sent : sent = Send(Send(down, a, r), b, r)
  OBVIOUS
<1>12. Serves(down, sent, a, b, r)
  <2>1. down \in [Fds -> Seq(DownMsgs)]
    BY KnownFds
  <2> QED
    BY <1>6, <1>7, <1>10, <1>11, <2>1, ServesBoth
<1>13. ASSUME NEW f \in {a, b}
       PROVE  /\ f \in Fds /\ f \in DOMAIN user_by_fd /\ down[f] \in Seq(DownMsgs)
              /\ Tracks(f, session[f], down[f], "all", c, ch_by_id[c])
  <2>1. f \in Fds /\ f \in DOMAIN user_by_fd /\ down[f] \in Seq(DownMsgs)
    BY <1>0, <1>7 DEF Showing
  <2> QED
    BY <1>6, <2>1 DEF DuelInv, DuelAt, Mode
<1>14. Pointless(r) => Showing(sent)
  <2>1. Pointless(r) => Showing(Send(down, a, r))
    BY <1>0, <1>7, <1>10, ShowingPlain
  <2> QED
    BY <1>7, <1>10, <1>11, <2>1, ShowingPlain
<1>15. CASE winner = NoId
  <2>1. left.down = sent
    BY <1>1, <1>2, <1>3, <1>5, <1>6, <1>7, <1>11, <1>15 DEF judge_turn
  <2>2. force_lose_id = NoId
    <3>1. a # NoId /\ b # NoId
      BY <1>7, FdsAssumption DEF NoId
    <3> QED
      BY <1>2, <1>5, <1>8, <1>15, <3>1 DEF Winner
  <2>3. ASSUME NEW f \in {a, b} PROVE ShownAt(f, session[f], Append(down[f], r))
    <3>1. ASSUME NEW t, NEW q, Ready(f, session[f], down[f], t, q) PROVE Fits(After(t, q), r)
      <4>1. PICK z : z = After(t, q)
        OBVIOUS
      <4>2. PICK old : old = ch_by_id[c]
        OBVIOUS
      <4>3. Claim(f, q, z, "all", c, old)
        BY <1>13, <3>1, <4>1, <4>2 DEF Tracks
      <4>4. z \in Sessions /\ Knows(f, z, c, old) /\ Counts(f, z, old)
        BY <4>3 DEF Claim
      <4>5. /\ z.is_user1 => z.hp = ch.hp1 /\ z.opponent_hp = ch.hp2
            /\ ~ z.is_user1 => z.hp = ch.hp2 /\ z.opponent_hp = ch.hp1
        BY <4>2, <4>4 DEF Knows, Counts
      <4>6. damage \in Nat \ {0} /\ Acted(ch)
        BY <1>0, <2>2
      <4> QED
        BY <1>1, <1>3, <4>1, <4>4, <4>5, <4>6, FitsTurn
    <3>2. ShownAt(f, session[f], down[f])
      BY <1>0, <1>13 DEF Showing
    <3> QED
      BY <1>10, <1>13, <3>1, <3>2, ShownAppend
  <2>4. ASSUME NEW f \in Fds PROVE ShownAt(f, session[f], sent[f])
    <3>1. sent[f] = IF f \in {a, b} THEN Append(down[f], r) ELSE down[f]
      BY <1>12 DEF Serves
    <3>2. f \notin {a, b} => ShownAt(f, session[f], down[f])
      BY <1>0 DEF Showing
    <3> QED
      BY <2>3, <3>1, <3>2
  <2> QED
    BY <1>12, <2>1, <2>4 DEF Serves, Showing
<1>16. CASE winner # NoId
  <2>1. PICK ids \in SUBSET DOMAIN user_by_id : ids = {a, b}
    BY <1>6
  <2>2. left.users = users /\ left.down = broadcast_user_changes(sent, users, ids)
    BY <1>1, <1>2, <1>3, <1>4, <1>5, <1>6, <1>7, <1>11, <1>16, <2>1 DEF judge_turn
  <2>3. IsTree(users, Ids, UserInfos) /\ DOMAIN users = DOMAIN user_by_id
    <3>1. c \in ChIds
      BY <1>0 DEF TypeOK, ServerTypeOK, IsTree
    <3>2. JudgedOK(left) /\ JudgedSame(left)
      BY <1>0, <3>1, JudgeType, JudgeSame
    <3> QED
      BY <2>2, <3>2 DEF JudgedOK, JudgedSame, SameUsers
  <2>4. Pointless(r)
    BY <1>3, <1>16 DEF TurnR, Pointless
  <2>5. Showing(sent)
    BY <1>14, <2>4
  <2> QED
    BY <2>1, <2>2, <2>3, <2>5, ShowingBroadcast
<1> QED
  BY <1>15, <1>16

LEMMA TurnJudgedShown ==
  ASSUME LoginInv, BattleInv, DuelInv, ShownInv, NEW fd \in Fds, HandleTurnJudged(fd),
         UNCHANGED session
  PROVE  ShownInv'
<1> DEFINE m == Head(up[fd])
           Left(damage, bonus, penalty) ==
             judge_turn(m.chid, NotedBy(m), NoId, damage, bonus, penalty)
<1>1. TypeOK /\ Takes(fd, "TURN") /\ TurnTaken(m) /\ Acted(NotedBy(m))
  BY DEF HandleTurnJudged, LoginInv
<1>2. PICK damage \in Damages, bonus \in Bonuses, penalty \in Penalties :
        down' = Left(damage, bonus, penalty).down
  BY DEF HandleTurnJudged
<1>3. PICK c, ch : c = m.chid /\ ch = NotedBy(m)
  OBVIOUS
<1>4. /\ c \in DOMAIN ch_by_id /\ ch \in ChallengeRecs
      /\ ch.user1 = ch_by_id[c].user1 /\ ch.user2 = ch_by_id[c].user2
      /\ ch.state = "STARTED" /\ ch_by_id[c].state = "STARTED"
  BY <1>1, <1>3, NotedFacts
<1>5. ch.hp1 = ch_by_id[c].hp1 /\ ch.hp2 = ch_by_id[c].hp2
  <2>1. ch_by_id[c] \in ChallengeRecs
    BY <1>1, <1>4 DEF TypeOK, ServerTypeOK, IsTree
  <2> QED
    BY <1>3, <2>1, NotedStats DEF NotedBy
<1>6. PICK left : left = judge_turn(c, ch, NoId, damage, bonus, penalty)
  OBVIOUS
<1>7. down' = left.down
  BY <1>2, <1>3, <1>6
<1>8. Acted(ch) /\ damage # 0
  BY <1>1, <1>3, RuleAssumption
<1> HIDE DEF m, Left
<1>9. Showing(left.down)
  BY <1>4, <1>5, <1>6, <1>8, JudgeShown
<1> QED
  BY <1>7, <1>9, ShowingShown

LEMMA QuitUserShown ==
  ASSUME LoginInv, BattleInv, DuelInv, ShownInv, NEW u \in DOMAIN user_by_id, quit_user(u),
         UNCHANGED session
  PROVE  ShownInv'
<1>1. TypeOK
  BY DEF LoginInv
<1>2. PICK user : user = user_by_id[u]
  OBVIOUS
<1> DEFINE Left(bonus, penalty) ==
             IF Fights(u)
               THEN judge_turn(user.chid, ch_by_id[user.chid], u, 0, bonus, penalty)
               ELSE [users |-> user_by_id, chs |-> ch_by_id, down |-> down,
                     server |-> server]
<1>3. PICK bonus \in Bonuses, penalty \in Penalties :
        LET left == Left(bonus, penalty)
        IN  down' = broadcast_user_changes(left.down,
                                           [left.users EXCEPT ![u].state = "UOFFLINE"], {u})
  BY <1>2 DEF quit_user
<1>4. PICK left : left = Left(bonus, penalty)
  OBVIOUS
<1>5. PICK users : users = [left.users EXCEPT ![u].state = "UOFFLINE"]
  OBVIOUS
<1>6. down' = broadcast_user_changes(left.down, users, {u})
  BY <1>3, <1>4, <1>5
<1>7. /\ Showing(left.down) /\ IsTree(left.users, Ids, UserInfos)
      /\ DOMAIN left.users = DOMAIN user_by_id
  <2>1. CASE Fights(u)
    <3>1. PICK c \in ChIds, ch \in ChallengeRecs : c = user.chid /\ ch = ch_by_id[user.chid]
      BY <1>1, <1>2, <2>1 DEF Fights, TypeOK, ServerTypeOK, IsTree
    <3>2. left = judge_turn(c, ch, u, 0, bonus, penalty)
      BY <1>4, <2>1, <3>1
    <3>3. JudgedOK(left) /\ JudgedSame(left)
      BY <1>1, <3>2, JudgeType, JudgeSame
    <3>4. /\ c \in DOMAIN ch_by_id /\ ch_by_id[c].state = "STARTED" /\ ch.state = "STARTED"
          /\ ch.user1 = ch_by_id[c].user1 /\ ch.user2 = ch_by_id[c].user2
          /\ ch.hp1 = ch_by_id[c].hp1 /\ ch.hp2 = ch_by_id[c].hp2
          /\ u \in {NoId, ch.user1, ch.user2}
      BY <1>2, <2>1, <3>1, Fighter, KnownFds DEF Fights
    <3>5. u # NoId
      <4>1. u \in Fds
        BY KnownFds
      <4> QED
        BY <4>1, FdsAssumption DEF NoId
    <3>6. Showing(left.down)
      BY <3>2, <3>4, <3>5, JudgeShown
    <3> QED
      BY <3>3, <3>6 DEF JudgedOK, JudgedSame, SameUsers
  <2>2. CASE ~ Fights(u)
    <3>1. left.users = user_by_id /\ left.down = down
      BY <1>4, <2>2
    <3>2. IsTree(user_by_id, Ids, UserInfos)
      BY <1>1 DEF TypeOK, ServerTypeOK
    <3> QED
      BY <3>1, <3>2, ShowingNothing
  <2> QED
    BY <2>1, <2>2
<1> HIDE DEF Left
<1>8. IsTree(users, Ids, UserInfos) /\ u \in DOMAIN users
  <2>1. left.users[u] \in UserInfos /\ u \in DOMAIN left.users
    BY <1>7 DEF IsTree
  <2>2. PICK v : v = [left.users[u] EXCEPT !.state = "UOFFLINE"]
    OBVIOUS
  <2>3. v \in UserInfos
    BY <2>1, <2>2 DEF UserInfos, UserStates
  <2>4. users = [left.users EXCEPT ![u] = v]
    BY <1>5, <2>2
  <2> QED
    BY <1>7, <2>1, <2>3, <2>4, UpdateTree
<1>9. PICK ids \in SUBSET DOMAIN users : ids = {u}
  BY <1>8
<1> QED
  BY <1>6, <1>7, <1>8, <1>9, ShowingBroadcast, ShowingShown

(* Every handler of pkt_handler keeps the invariant. *)
LEMMA HandlerShown ==
  ASSUME LoginInv, RosterInv, BattleInv, DuelInv, ShownInv, NEW fd \in Fds, pkt_handler(fd),
         UNCHANGED clientVars
  PROVE  ShownInv'
<1>1. UNCHANGED session /\ IndexesAgree
  BY DEF clientVars, LoginInv
<1>2. CASE HandleJoinOk(fd)
  BY <1>1, <1>2, JoinOkShown
<1>3. CASE HandleQuit(fd)
  <2>1. CASE Known(Head(up[fd]).id, Head(up[fd]).key)
    <3>1. PICK u \in DOMAIN user_by_id : quit_user(u)
      BY <1>3, <2>1 DEF HandleQuit, Known
    <3> QED
      BY <1>1, <3>1, QuitUserShown
  <2>2. CASE ~ Known(Head(up[fd]).id, Head(up[fd]).key)
    BY <1>1, <1>3, <2>2, SilentShown
  <2> QED
    BY <2>1, <2>2
<1>4. CASE HandleDisconnect(fd)
  <2>1. PICK u \in DOMAIN user_by_id : quit_user(u)
    BY <1>1, <1>4 DEF HandleDisconnect, IndexesAgree
  <2> QED
    BY <1>1, <2>1, QuitUserShown
<1>5. CASE \/ HandleDisconnectUnknown(fd) \/ HandleChallengeIgnored(fd)
           \/ HandleStartNoId(fd) \/ HandleTurnIgnored(fd) \/ HandleTurnFirst(fd)
  BY <1>1, <1>5, SilentShown
<1>6. CASE \/ HandleChallengeError(fd) \/ HandleCancel(fd) \/ HandleReject(fd)
           \/ HandleStart(fd) \/ HandleSendmsg(fd) \/ HandleJoinRefused(fd)
  BY <1>1, <1>6, AnswerShown
<1>7. CASE HandleAccept(fd)
  BY <1>1, <1>7, AcceptShown
<1>8. CASE HandleTurnJudged(fd)
  BY <1>1, <1>8, TurnJudgedShown
<1> QED
  BY <1>2, <1>3, <1>4, <1>5, <1>6, <1>7, <1>8 DEF pkt_handler
----------------------------------------------------------------------------
(* The clients' steps. *)
LEMMA SessionShown ==
  ASSUME ShownInv, NEW fd \in Fds,
         \A f \in Fds \ {fd} : down'[f] = down[f] /\ session'[f] = session[f],
         ShownAt(fd, session'[fd], down'[fd])
  PROVE  ShownInv'
<1>1. ASSUME NEW f \in Fds PROVE ShownAt(f, session'[f], down'[f])
  <2>1. ShownAt(f, session[f], down[f])
    BY DEF ShownInv
  <2> QED
    BY <2>1
<1> QED
  BY <1>1, ShownInvNext

(* Nothing is asked of a session that has ended, or that reads nothing. *)
LEMMA ShownEnded ==
  ASSUME NEW s, NEW d, s.phase \notin {"WAIT_MSG", "MAIN"} \/ d = <<>>
  PROVE  \A f : ShownAt(f, s, d)
BY DEF ShownAt, Ready

LEMMA MainKeyShown ==
  ASSUME LoginInv, ShownInv, NEW fd \in Fds, session[fd].phase = "MAIN",
         \/ \E id \in Ids : Invite(fd, id)
         \/ Cancel(fd)
         \/ \E action \in {"C_ACCEPT", "C_REJECT"} : Answer(fd, action)
         \/ \E action \in Acts : Act(fd, action)
         \/ Chat(fd)
         \/ Leave(fd)
  PROVE  ShownInv'
<1>1. /\ session \in [Fds -> Sessions] /\ session[fd] \in Sessions
      /\ down[fd] \in Seq(DownMsgs)
  BY DEF LoginInv, TypeOK, ClientTypeOK, ChannelsTypeOK
<1>2. PICK t : /\ session' = [session EXCEPT ![fd] = t]
               /\ \/ \E w \in {"W_NONE", "W_CANCEL", "W_ACCEPT"} :
                       t = [session[fd] EXCEPT !.waiting_for = w]
                  \/ t = [session[fd] EXCEPT !.acted = TRUE]
                  \/ t = [session[fd] EXCEPT !.phase = "DONE"]
                  \/ t = session[fd]
  <2>1. session = [session EXCEPT ![fd] = session[fd]]
    BY <1>1
  <2> QED
    BY <2>1, Zenon DEF Invite, Cancel, Answer, Act, Chat, Leave, clientVars
<1>3. down' = down
  BY DEF Invite, Cancel, Answer, Act, Chat, Leave
<1>4. session'[fd] = t /\ \A f \in Fds \ {fd} : session'[f] = session[f]
  BY <1>1, <1>2
<1>5. ShownAt(fd, t, down[fd])
  <2>1. CASE t = [session[fd] EXCEPT !.phase = "DONE"]
    <3>1. t.phase = "DONE"
      BY <1>1, <2>1 DEF Sessions
    <3> QED
      BY <3>1, ShownEnded
  <2>2. CASE t # [session[fd] EXCEPT !.phase = "DONE"]
    <3>1. PICK s \in Sessions : s = session[fd]
      BY <1>1
    <3>2. Alike(s, t) /\ t.phase = s.phase
      BY <1>2, <2>2, <3>1, LooksAlike
    <3>3. PICK q \in Seq(DownMsgs) : q = down[fd]
      BY <1>1
    <3>4. SamePoints(s, t)
      BY <3>2 DEF Alike, SamePoints
    <3>5. q # <<>> => Shows(s, q)
      <4>1. ShownAt(fd, s, q) /\ s.phase = "MAIN"
        BY <3>1, <3>3 DEF ShownInv
      <4>2. Ready(fd, s, q, s, q)
        BY <4>1 DEF Ready
      <4> QED
        BY <4>1, <4>2 DEF ShownAt
    <3>6. q # <<>> => Shows(t, q)
      BY <3>4, <3>5, ShowsSame
    <3>7. t.phase = "MAIN"
      BY <3>1, <3>2
    <3> QED
      BY <3>3, <3>6, <3>7 DEF ShownAt, Ready
  <2> QED
    BY <2>1, <2>2
<1> QED
  BY <1>3, <1>4, <1>5, SessionShown

(* Nothing is on its way to a session that asks to be let in. *)
LEMMA LoginShown ==
  ASSUME LoginInv, RosterInv, ShownInv, NEW fd \in Fds, NEW nick, Login(fd, nick)
  PROVE  ShownInv'
<1>1. session \in [Fds -> Sessions]
  BY DEF LoginInv, TypeOK, ClientTypeOK
<1>2. down' = down /\ \A f \in Fds \ {fd} : session'[f] = session[f]
  BY <1>1 DEF Login
<1>3. down[fd] = <<>>
  <2>1. PICK q \in Seq(DownMsgs) : q = down[fd]
    BY DEF LoginInv, TypeOK, ChannelsTypeOK
  <2>2. fd \notin DOMAIN user_by_fd /\ ~ Has(q, "JOIN_R")
    BY <2>1 DEF Login, LoginInv, JoinOnce
  <2>3. \A i \in DOMAIN q : q[i].kind = "JOIN_R"
    BY <2>1, <2>2 DEF Login, RosterInv, ViewAt, Begins, Early
  <2>4. \A i \in DOMAIN q : FALSE
    BY <2>2, <2>3 DEF Has
  <2>5. q # <<>> => 1 \in DOMAIN q
    OBVIOUS
  <2> QED
    BY <2>1, <2>4, <2>5
<1> QED
  BY <1>2, <1>3, ShownEnded, SessionShown

LEMMA LoginAnsweredShown ==
  ASSUME LoginInv, RosterInv, NamesInv, ShownInv, NEW fd \in Fds, LoginAnswered(fd)
  PROVE  ShownInv'
<1>1. /\ down \in [Fds -> Seq(DownMsgs)] /\ down[fd] \in Seq(DownMsgs)
      /\ session \in [Fds -> Sessions]
  BY DEF LoginInv, TypeOK, ChannelsTypeOK, ClientTypeOK
<1>2. /\ down[fd] # <<>> /\ down' = [down EXCEPT ![fd] = Tail(down[fd])]
      /\ session[fd].phase = "WAIT_MSG"
  BY DEF LoginAnswered, Receives
<1>3. PICK q \in Seq(DownMsgs) : q = down[fd] /\ q # <<>>
  BY <1>1, <1>2
<1>4. PICK r, t : r = Head(q) /\ t = Tail(q)
  OBVIOUS
<1>5. down'[fd] = t /\ \A f \in Fds \ {fd} : down'[f] = down[f] /\ session'[f] = session[f]
  <2>1. \A f \in Fds \ {fd} : session'[f] = session[f]
    BY <1>1 DEF LoginAnswered
  <2> QED
    BY <1>1, <1>2, <1>3, <1>4, <2>1
<1>6. r \in DownMsgs /\ 1 \in DOMAIN q /\ q[1] = r
  BY <1>3, <1>4, TailView
<1>7. r.kind = "JOIN_R" /\ Head(down[fd]) = r
  BY <1>2, <1>3, <1>4, AnswerFirst
<1>8. CASE r.error # "ME_OK"
  <2>1. session' = [session EXCEPT ![fd].phase = "RETRY"]
    BY <1>7, <1>8 DEF LoginAnswered
  <2>2. session'[fd].phase = "RETRY"
    BY <1>1, <2>1 DEF Sessions
  <2>3. ShownAt(fd, session'[fd], down'[fd])
    BY <2>2, ShownEnded
  <2> QED
    BY <1>5, <2>3, SessionShown
<1>9. CASE r.error = "ME_OK"
  <2>1. r.id = fd /\ r.key \in AnyKey
    <3>1. Admits(fd, q)
      BY <1>3 DEF RosterInv, ViewAt, OwnId
    <3>2. r.key \in AnyKey
      BY <1>6, <1>7, DownKinds
    <3> QED
      BY <1>6, <1>7, <1>9, <3>1, <3>2 DEF Admits
  <2>2. PICK acted \in UnsetActed, state \in UnsetState :
          session' = [session EXCEPT ![fd] = New(r.id, r.key, acted, state)]
    BY <1>7, <1>9, Zenon DEF LoginAnswered, New
  <2>3. PICK s : s = New(fd, r.key, acted, state)
    OBVIOUS
  <2>4. session'[fd] = s /\ s.phase = "MAIN"
    BY <1>1, <2>1, <2>2, <2>3, NewIs
  <2>5. acted \in BOOLEAN /\ state \in UserStates
    BY UnsetAssumption
  <2>6. Ready(fd, session[fd], q, s, t)
    BY <1>2, <1>4, <2>1, <2>3, <2>5 DEF Ready
  <2>7. Shows(s, t)
    BY <1>3, <2>6 DEF ShownInv, ShownAt
  <2>8. ShownAt(fd, s, t)
    BY <2>4, <2>7 DEF ShownAt, Ready
  <2> QED
    BY <1>5, <2>4, <2>8, SessionShown
<1> QED
  BY <1>8, <1>9

LEMMA MainReceivesShown ==
  ASSUME LoginInv, ShownInv, NEW fd \in Fds, MainReceives(fd)
  PROVE  ShownInv'
<1>1. /\ down \in [Fds -> Seq(DownMsgs)] /\ down[fd] \in Seq(DownMsgs)
      /\ session \in [Fds -> Sessions] /\ session[fd] \in Sessions
  BY DEF LoginInv, TypeOK, ChannelsTypeOK, ClientTypeOK
<1>2. PICK s \in Sessions : s = session[fd]
  BY <1>1
<1>3. PICK q \in Seq(DownMsgs) : q = down[fd]
  BY <1>1
<1>4. PICK m, t : m = Head(q) /\ t = Tail(q)
  OBVIOUS
<1>5. /\ q # <<>> /\ down' = [down EXCEPT ![fd] = t] /\ s.phase = "MAIN"
      /\ session' = [session EXCEPT ![fd] = Handled(s, m)]
  BY <1>2, <1>3, <1>4 DEF MainReceives, Receives
<1>6. PICK h : h = Handled(s, m)
  OBVIOUS
<1>7. /\ down'[fd] = t /\ session'[fd] = h
      /\ \A f \in Fds \ {fd} : down'[f] = down[f] /\ session'[f] = session[f]
  BY <1>1, <1>5, <1>6
<1>8. Shows(s, q)
  <2>1. ShownAt(fd, s, q)
    BY <1>2, <1>3 DEF ShownInv
  <2>2. Ready(fd, s, q, s, q)
    BY <1>5 DEF Ready
  <2> QED
    BY <1>5, <2>1, <2>2 DEF ShownAt
<1>9. Shows(h, t)
  BY <1>4, <1>5, <1>6, <1>8, ShowsHead
<1>10. h.phase # "WAIT_MSG"
  <2>1. m \in DownMsgs
    BY <1>4, <1>5
  <2> QED
    BY <1>5, <1>6, <2>1 DEF Handled, OnTurnR, OnChallenge, OnChallengeR, OnUchange, Sessions
<1>11. ShownAt(fd, h, t)
  BY <1>9, <1>10 DEF ShownAt, Ready
<1> QED
  BY <1>7, <1>11, SessionShown

LEMMA EndedShown ==
  ASSUME LoginInv, ShownInv, NEW fd \in Fds, Discards(fd) \/ Lose(fd)
  PROVE  ShownInv'
<1>1. /\ down \in [Fds -> Seq(DownMsgs)]
      /\ session \in [Fds -> Sessions] /\ session[fd] \in Sessions
  BY DEF LoginInv, TypeOK, ChannelsTypeOK, ClientTypeOK
<1>2. CASE Discards(fd)
  <2>1. /\ session' = session /\ session[fd].phase \in {"DONE", "GONE"}
        /\ \A f \in Fds \ {fd} : down'[f] = down[f]
    BY <1>1, <1>2 DEF Discards, clientVars
  <2>2. ShownAt(fd, session'[fd], down'[fd])
    BY <2>1, ShownEnded
  <2> QED
    BY <2>1, <2>2, SessionShown
<1>3. CASE Lose(fd)
  <2>1. PICK s : s = [session[fd] EXCEPT !.phase = "GONE"]
    OBVIOUS
  <2>2. s.phase = "GONE"
    BY <1>1, <2>1 DEF Sessions
  <2>3. down' = down /\ session'[fd] = s /\ \A f \in Fds \ {fd} : session'[f] = session[f]
    BY <1>1, <1>3, <2>1 DEF Lose
  <2>4. ShownAt(fd, session'[fd], down'[fd])
    BY <2>2, <2>3, ShownEnded
  <2> QED
    BY <2>3, <2>4, SessionShown
<1> QED
  BY <1>2, <1>3
----------------------------------------------------------------------------
LEMMA InitShown == Init => ShownInv
<1>1. Init => \A f \in Fds : down[f] = <<>>
  BY DEF Init, ChannelsInit
<1> QED
  BY <1>1, ShownEnded DEF ShownInv

LEMMA NextShown ==
  LoginInv /\ RosterInv /\ NamesInv /\ BattleInv /\ DuelInv /\ ShownInv /\ [Next]_vars
    => ShownInv'
<1> SUFFICES ASSUME LoginInv, RosterInv, NamesInv, BattleInv, DuelInv, ShownInv, [Next]_vars
             PROVE  ShownInv'
  OBVIOUS
<1>1. ASSUME NEW fd \in Fds, pkt_handler(fd), UNCHANGED clientVars PROVE ShownInv'
  BY <1>1, HandlerShown
<1>2. ASSUME NEW fd \in Fds, Key(fd) PROVE ShownInv'
  <2>1. CASE \E nick \in Nicks : Login(fd, nick)
    BY <1>2, <2>1, LoginShown
  <2>2. CASE ~ \E nick \in Nicks : Login(fd, nick)
    <3>1. session[fd].phase = "MAIN"
      BY <1>2, <2>2 DEF Key, Invite, Cancel, Answer, Act, Chat, Leave, InMain
    <3> QED
      BY <1>2, <2>2, <3>1, MainKeyShown DEF Key
  <2> QED
    BY <2>1, <2>2
<1>3. ASSUME NEW fd \in Fds, Receive(fd) \/ Lose(fd) PROVE ShownInv'
  BY <1>3, LoginAnsweredShown, MainReceivesShown, EndedShown DEF Receive
<1>4. ASSUME UNCHANGED vars PROVE ShownInv'
  <2>1. UNCHANGED <<down, session>>
    BY <1>4 DEF vars, channels, clientVars
  <2> QED
    BY <2>1, ShownInvNext DEF ShownInv
<1> QED
  BY <1>1, <1>2, <1>3, <1>4 DEF Next

(* The invariant of the outcomes on screen holds of the whole game, given  *)
(* that a challenge's id is not drawn twice: every TURN_R on its way to a  *)
(* session tells it an outcome that is the change of the hit points the    *)
(* session will have by then.                                              *)
THEOREM ShownInvariant == ASSUME FreshIds PROVE Spec => []ShownInv
<1>1. Init => ShownInv
  BY InitShown
<1>2. LoginInv /\ RosterInv /\ NamesInv /\ BattleInv /\ DuelInv /\ ShownInv /\ [Next]_vars
        => ShownInv'
  BY NextShown
<1> QED
  BY <1>1, <1>2, JankenInvariant, RosterInvariant, NamesInvariant, BattleInvariant,
     DuelInvariant, PTL DEF Spec

(* The outcome a client prints for a turn, which it works out from the two *)
(* actions of TURN_R, is the one judge_turn has made of the turn: it says  *)
(* "win" exactly if the opponent's hit points on screen go down, "lose"    *)
(* exactly if its own do, for any set of connections, any hit points and   *)
(* damages, and whatever was handled between the turns.                    *)
THEOREM JankenResultShown == ASSUME FreshIds PROVE Spec => []ResultShown
<1>1. TypeOK /\ ShownInv => ResultShown
  BY ShownInvIs
<1>2. LoginInv => TypeOK
  BY DEF LoginInv
<1> QED
  BY <1>1, <1>2, JankenInvariant, ShownInvariant, PTL
----------------------------------------------------------------------------
(* Mild: a message that leaves gs.acted, gs.chid and gs.turn_no alone,     *)
(* whatever popup is up.  Still: the messages of q after the first i are.  *)
Mild(m) == m.kind \notin {"TURN_R", "CHALLENGE"} /\ ~ Seals(m)
Still(q, i) == \A j \in DOMAIN q : j > i => Mild(q[j])

LEMMA MildStep ==
  ASSUME NEW s \in Sessions, NEW m \in DownMsgs, Mild(m)
  PROVE  LET t == Handled(s, m) IN
         t.acted = s.acted /\ t.chid = s.chid /\ t.turn_no = s.turn_no /\ t.hp = s.hp
<1>1. CASE m.kind = "CHALLENGE_R"
  <2>1. Handled(s, m) = [s EXCEPT !.waiting_for = "W_NONE"]
    BY <1>1, Zenon DEF Mild, Seals, Handled, OnChallengeR
  <2> QED
    BY <2>1 DEF Sessions
<1>2. CASE m.kind = "UCHANGE"
  <2>1. Handled(s, m) = OnUchange(s, m)
    BY <1>2 DEF Handled
  <2> QED
    BY <2>1 DEF OnUchange, Sessions
<1>3. CASE m.kind \notin {"CHALLENGE_R", "UCHANGE"}
  <2>1. Handled(s, m) = s
    BY <1>3 DEF Mild, Handled
  <2> QED
    BY <2>1
<1> QED
  BY <1>1, <1>2, <1>3

LEMMA SealsActs ==
  ASSUME NEW s \in Sessions, NEW m \in DownMsgs, Seals(m)
  PROVE  Handled(s, m).acted = TRUE /\ Handled(s, m).chid = m.chid
<1>1. Handled(s, m) = OnChallengeR(s, m) /\ m.error = "ME_OK"
  BY DEF Handled, Seals
<1> QED
  BY <1>1 DEF OnChallengeR, Sessions

LEMMA ActedStep ==
  ASSUME NEW s \in Sessions, NEW m \in DownMsgs
  PROVE  LET t == Handled(s, m) IN
         /\ m.kind = "TURN_R" => t.acted = m.fin /\ t.chid = s.chid
         /\ m.kind = "CHALLENGE" => t.acted = s.acted /\ t.hp = s.hp
<1>1. ASSUME m.kind = "TURN_R" PROVE Handled(s, m).acted = m.fin /\ Handled(s, m).chid = s.chid
  <2>1. Handled(s, m) = OnTurnR(s, m)
    BY <1>1 DEF Handled
  <2> QED
    BY <2>1 DEF OnTurnR, Sessions
<1>2. ASSUME m.kind = "CHALLENGE"
      PROVE  Handled(s, m).acted = s.acted /\ Handled(s, m).hp = s.hp
  <2>1. Handled(s, m) = OnChallenge(s, m)
    BY <1>2 DEF Handled
  <2> QED
    BY <2>1 DEF OnChallenge, Sessions
<1> QED
  BY <1>1, <1>2

(* Two sessions with the same battle, of which the second may have acted   *)
(* when the first has not: whatever they read, the first has acted only if *)
(* the second has.                                                         *)
Trails(s, t) == s \in Sessions /\ t \in Sessions /\ (t.acted = s.acted \/ t.acted = TRUE)
Level(s, t) == t.acted = s.acted

LEMMA TrailsStep ==
  ASSUME NEW s, NEW t, Trails(s, t), NEW m \in DownMsgs
  PROVE  /\ Trails(Handled(s, m), Handled(t, m))
         /\ Level(s, t) \/ m.kind = "TURN_R" \/ Seals(m) =>
              Level(Handled(s, m), Handled(t, m))
         /\ Seals(m) \/ (t.chid = s.chid /\ m.kind # "CHALLENGE") =>
              Handled(t, m).chid = Handled(s, m).chid
<1>1. PICK a, b : a = Handled(s, m) /\ b = Handled(t, m)
  OBVIOUS
<1>2. s \in Sessions /\ t \in Sessions /\ a \in Sessions /\ b \in Sessions
  BY <1>1, HandledType DEF Trails
<1>3. ASSUME m.kind = "TURN_R"
      PROVE  a.acted = m.fin /\ a.chid = s.chid /\ b.acted = m.fin /\ b.chid = t.chid
  <2>1. a.acted = m.fin /\ a.chid = s.chid
    BY <1>1, <1>2, <1>3, ActedStep, Zenon
  <2>2. b.acted = m.fin /\ b.chid = t.chid
    BY <1>1, <1>2, <1>3, ActedStep, Zenon
  <2> QED
    BY <2>1, <2>2
<1>9. ASSUME Seals(m)
      PROVE  a.acted = TRUE /\ a.chid = m.chid /\ b.acted = TRUE /\ b.chid = m.chid
  <2>1. a.acted = TRUE /\ a.chid = m.chid
    BY <1>1, <1>2, <1>9, SealsActs, Zenon
  <2>2. b.acted = TRUE /\ b.chid = m.chid
    BY <1>1, <1>2, <1>9, SealsActs, Zenon
  <2> QED
    BY <2>1, <2>2
<1>10. ASSUME m.kind = "CHALLENGE" PROVE a.acted = s.acted /\ b.acted = t.acted
  BY <1>1, <1>2, <1>10, ActedStep, Zenon
<1>4. ASSUME m.kind \notin {"TURN_R", "CHALLENGE"}, ~ Seals(m)
      PROVE  a.acted = s.acted /\ a.chid = s.chid /\ b.acted = t.acted /\ b.chid = t.chid
  <2>1. Mild(m)
    BY <1>4 DEF Mild
  <2> QED
    BY <1>1, <1>2, <2>1, MildStep
<1>5. CASE m.kind = "TURN_R"
  BY <1>1, <1>2, <1>3, <1>5 DEF Trails, Level, Seals
<1>6. CASE Seals(m)
  BY <1>1, <1>2, <1>9, <1>6 DEF Trails, Level
<1>7. CASE m.kind = "CHALLENGE"
  BY <1>1, <1>2, <1>10, <1>7 DEF Trails, Level, Seals
<1>8. CASE m.kind \notin {"TURN_R", "CHALLENGE"} /\ ~ Seals(m)
  BY <1>1, <1>2, <1>4, <1>8 DEF Trails, Level
<1> QED
  BY <1>5, <1>6, <1>7, <1>8

LEMMA AfterType ==
  ASSUME NEW s \in Sessions, NEW q \in Seq(DownMsgs) PROVE After(s, q) \in Sessions
<1>1. Len(q) \in Nat /\ \A i \in 1 .. Len(q) : q[i] \in DownMsgs
  OBVIOUS
<1>2. PICK F : Stepping(F, Len(q), s, q) /\ After(s, q) = F[Len(q)]
  BY <1>1, AfterSteps, Zenon
<1>3. F[0] = s /\ \A i \in 1 .. Len(q) : F[i] = Handled(F[i - 1], q[i])
  BY <1>2, Zenon DEF Stepping
<1> DEFINE S == {i \in Nat : i <= Len(q) => F[i] \in Sessions}
<1>4. 0 \in S
  BY <1>3
<1>5. ASSUME NEW i \in S PROVE i + 1 \in S
  <2>1. SUFFICES ASSUME i + 1 <= Len(q) PROVE F[i + 1] \in Sessions
    OBVIOUS
  <2>2. i \in Nat /\ i + 1 \in 1 .. Len(q) /\ (i + 1) - 1 = i /\ F[i] \in Sessions
    BY <1>1, <2>1
  <2>3. F[i + 1] = Handled(F[i], q[i + 1])
    BY <1>3, <2>2
  <2> QED
    BY <1>1, <2>2, <2>3, HandledType
<1>6. S \in SUBSET Nat
  OBVIOUS
<1> HIDE DEF S
<1>7. Len(q) \in S
  BY <1>4, <1>5, <1>6, NatInduct
<1> QED
  BY <1>1, <1>2, <1>7 DEF S

(* What is Still changes nothing of this. *)
LEMMA AfterStill ==
  ASSUME NEW s \in Sessions, NEW q \in Seq(DownMsgs), Still(q, 0)
  PROVE  /\ After(s, q).acted = s.acted /\ After(s, q).chid = s.chid
         /\ After(s, q).turn_no = s.turn_no /\ After(s, q).hp = s.hp
<1>1. Len(q) \in Nat /\ \A i \in 1 .. Len(q) : q[i] \in DownMsgs /\ Mild(q[i])
  BY DEF Still
<1>2. PICK F : Stepping(F, Len(q), s, q) /\ After(s, q) = F[Len(q)]
  BY <1>1, AfterSteps, Zenon
<1>3. F[0] = s /\ \A i \in 1 .. Len(q) : F[i] = Handled(F[i - 1], q[i])
  BY <1>2, Zenon DEF Stepping
<1> DEFINE Same(z) == /\ z \in Sessions /\ z.acted = s.acted /\ z.chid = s.chid
                      /\ z.turn_no = s.turn_no /\ z.hp = s.hp
           S == {i \in Nat : i <= Len(q) => Same(F[i])}
<1>4. 0 \in S
  BY <1>3
<1>5. ASSUME NEW i \in S PROVE i + 1 \in S
  <2>1. SUFFICES ASSUME i + 1 <= Len(q) PROVE Same(F[i + 1])
    OBVIOUS
  <2>2. i \in Nat /\ i + 1 \in 1 .. Len(q) /\ (i + 1) - 1 = i /\ Same(F[i])
    BY <1>1, <2>1
  <2>3. PICK z, m : z = F[i] /\ m = q[i + 1]
    OBVIOUS
  <2>4. F[i + 1] = Handled(z, m) /\ m \in DownMsgs /\ Mild(m) /\ Same(z)
    BY <1>1, <1>3, <2>2, <2>3
  <2> QED
    BY <2>4, HandledType, MildStep
<1>6. S \in SUBSET Nat
  OBVIOUS
<1> HIDE DEF S
<1>7. Len(q) \in S
  BY <1>4, <1>5, <1>6, NatInduct
<1> QED
  BY <1>1, <1>2, <1>7 DEF S

LEMMA AfterTrails ==
  ASSUME NEW s, NEW t, Trails(s, t), t.chid = s.chid, NEW q \in Seq(DownMsgs)
  PROVE  /\ Trails(After(s, q), After(t, q))
         /\ Level(s, t) => Level(After(s, q), After(t, q))
         /\ (\E i \in DOMAIN q : q[i].kind = "TURN_R" \/ Seals(q[i])) =>
              Level(After(s, q), After(t, q))
         /\ Firm(q) => After(t, q).chid = After(s, q).chid
<1>1. Len(q) \in Nat /\ DOMAIN q = 1 .. Len(q) /\ \A i \in 1 .. Len(q) : q[i] \in DownMsgs
  OBVIOUS
<1>2. PICK F : Stepping(F, Len(q), s, q) /\ After(s, q) = F[Len(q)]
  BY <1>1, AfterSteps, Zenon
<1>3. PICK G : Stepping(G, Len(q), t, q) /\ After(t, q) = G[Len(q)]
  BY <1>1, AfterSteps, Zenon
<1>4. F[0] = s /\ \A i \in 1 .. Len(q) : F[i] = Handled(F[i - 1], q[i])
  BY <1>2, Zenon DEF Stepping
<1>5. G[0] = t /\ \A i \in 1 .. Len(q) : G[i] = Handled(G[i - 1], q[i])
  BY <1>3, Zenon DEF Stepping
<1> DEFINE Sealed(i) == \E k \in 0 .. i : /\ k # 0 => Seals(q[k])
                                          /\ \A j \in k + 1 .. i : q[j].kind # "CHALLENGE"
           Settles(i) == \E j \in 1 .. i : q[j].kind = "TURN_R" \/ Seals(q[j])
           Both(i) == /\ Trails(F[i], G[i])
                      /\ Level(s, t) \/ Settles(i) => Level(F[i], G[i])
                      /\ Sealed(i) => G[i].chid = F[i].chid
           S == {i \in Nat : i <= Len(q) => Both(i)}
<1>6. 0 \in S
  BY <1>4, <1>5
<1>7. ASSUME NEW i \in S PROVE i + 1 \in S
  <2>1. SUFFICES ASSUME i + 1 <= Len(q) PROVE Both(i + 1)
    OBVIOUS
  <2>2. i \in Nat /\ i + 1 \in 1 .. Len(q) /\ (i + 1) - 1 = i /\ Both(i)
    BY <1>1, <2>1
  <2>3. PICK m \in DownMsgs : m = q[i + 1]
    BY <1>1, <2>2
  <2>4. F[i + 1] = Handled(F[i], m) /\ G[i + 1] = Handled(G[i], m)
    BY <1>4, <1>5, <2>2, <2>3
  <2>5. PICK a, b : a = F[i] /\ b = G[i]
    OBVIOUS
  <2>6. /\ Trails(a, b) /\ (Level(s, t) \/ Settles(i) => Level(a, b))
        /\ Sealed(i) => b.chid = a.chid
    BY <2>2, <2>5
  <2>7. /\ Trails(Handled(a, m), Handled(b, m))
        /\ Level(a, b) \/ m.kind = "TURN_R" \/ Seals(m) => Level(Handled(a, m), Handled(b, m))
        /\ Seals(m) \/ (b.chid = a.chid /\ m.kind # "CHALLENGE") =>
             Handled(b, m).chid = Handled(a, m).chid
    BY <2>6, TrailsStep
  <2>8. Settles(i + 1) => Settles(i) \/ m.kind = "TURN_R" \/ Seals(m)
    BY <2>2, <2>3
  <2>9. Sealed(i + 1) => Seals(m) \/ (Sealed(i) /\ m.kind # "CHALLENGE")
    <3>1. SUFFICES ASSUME Sealed(i + 1), ~ Seals(m) PROVE Sealed(i) /\ m.kind # "CHALLENGE"
      OBVIOUS
    <3>2. PICK k \in 0 .. i + 1 : /\ k # 0 => Seals(q[k])
                                  /\ \A j \in k + 1 .. i + 1 : q[j].kind # "CHALLENGE"
      BY <3>1 DEF Sealed
    <3>3. k \in 0 .. i
      BY <2>2, <2>3, <3>1, <3>2
    <3>4. i + 1 \in k + 1 .. i + 1 /\ \A j \in k + 1 .. i : j \in k + 1 .. i + 1
      BY <2>2, <3>3
    <3> QED
      BY <2>3, <3>2, <3>3, <3>4 DEF Sealed
  <2> HIDE DEF Sealed, Settles
  <2> QED
    BY <2>4, <2>5, <2>6, <2>7, <2>8, <2>9
<1>8. S \in SUBSET Nat
  OBVIOUS
<1> HIDE DEF S
<1>9. Len(q) \in S
  BY <1>1, <1>6, <1>7, <1>8, NatInduct
<1>10. Both(Len(q))
  BY <1>1, <1>9 DEF S
<1>11. Firm(q) => Sealed(Len(q))
  <2>1. SUFFICES ASSUME Firm(q) PROVE Sealed(Len(q))
    OBVIOUS
  <2>2. PICK k \in 0 .. Len(q) : FirmFrom(q, k)
    BY <2>1 DEF Firm
  <2>3. \A j \in k + 1 .. Len(q) : j \in DOMAIN q /\ j > k
    BY <1>1
  <2> QED
    BY <2>2, <2>3 DEF FirmFrom
<1>12. (\E i \in DOMAIN q : q[i].kind = "TURN_R" \/ Seals(q[i])) => Settles(Len(q))
  BY <1>1
<1> HIDE DEF Sealed, Settles
<1> QED
  BY <1>2, <1>3, <1>10, <1>11, <1>12

(* Open: the player may act.  Aware: and TURN_R has told it the turn.       *)
Open(s) == ~ s.acted
Aware(s) == Open(s) /\ s.hp # 0

LEMMA OpenMild ==
  ASSUME NEW s \in Sessions, NEW m \in DownMsgs, Mild(m)
  PROVE  /\ Open(Handled(s, m)) <=> Open(s)
         /\ Aware(Handled(s, m)) <=> Aware(s)
         /\ Handled(s, m).chid = s.chid /\ Handled(s, m).turn_no = s.turn_no
<1>1. PICK t : t = Handled(s, m)
  OBVIOUS
<1>2. t.acted = s.acted /\ t.chid = s.chid /\ t.turn_no = s.turn_no /\ t.hp = s.hp
  BY <1>1, MildStep
<1> QED
  BY <1>1, <1>2, Zenon DEF Open, Aware

LEMMA OpenTurn ==
  ASSUME NEW s \in Sessions, NEW m \in DownMsgs, m.kind = "TURN_R"
  PROVE  /\ Open(Handled(s, m)) <=> ~ m.fin
         /\ Handled(s, m).chid = s.chid
<1>1. PICK t : t = Handled(s, m)
  OBVIOUS
<1>2. t.acted = m.fin /\ t.chid = s.chid
  BY <1>1, ActedStep, Zenon
<1> QED
  BY <1>1, <1>2, Zenon DEF Open

LEMMA OpenSeals ==
  ASSUME NEW s \in Sessions, NEW m \in DownMsgs, Seals(m)
  PROVE  ~ Open(Handled(s, m)) /\ Handled(s, m).chid = m.chid
BY SealsActs, Zenon DEF Open

LEMMA OpenChallenge ==
  ASSUME NEW s \in Sessions, NEW m \in DownMsgs, m.kind = "CHALLENGE"
  PROVE  /\ Open(Handled(s, m)) <=> Open(s)
         /\ Aware(Handled(s, m)) <=> Aware(s)
<1>1. PICK t : t = Handled(s, m)
  OBVIOUS
<1>2. t.acted = s.acted /\ t.hp = s.hp
  BY <1>1, ActedStep, Zenon
<1> QED
  BY <1>1, <1>2, Zenon DEF Open, Aware

LEMMA OpenStill ==
  ASSUME NEW s \in Sessions, NEW q \in Seq(DownMsgs), Still(q, 0)
  PROVE  /\ Open(After(s, q)) <=> Open(s)
         /\ Aware(After(s, q)) <=> Aware(s)
         /\ After(s, q).chid = s.chid /\ After(s, q).turn_no = s.turn_no
<1>1. PICK t : t = After(s, q)
  OBVIOUS
<1>2. t.acted = s.acted /\ t.chid = s.chid /\ t.turn_no = s.turn_no /\ t.hp = s.hp
  BY <1>1, AfterStill
<1> QED
  BY <1>1, <1>2, Zenon DEF Open, Aware

LEMMA OpenTrails ==
  ASSUME NEW s \in Sessions, NEW t \in Sessions, t.chid = s.chid,
         Open(t) => Open(s), NEW q \in Seq(DownMsgs)
  PROVE  /\ Open(After(t, q)) => Open(After(s, q))
         /\ (Open(s) => Open(t)) => (Open(After(s, q)) => Open(After(t, q)))
         /\ (\E i \in DOMAIN q : q[i].kind = "TURN_R" \/ Seals(q[i])) =>
              (Open(After(s, q)) => Open(After(t, q)))
         /\ Firm(q) => After(t, q).chid = After(s, q).chid
<1>1. s.acted \in BOOLEAN /\ t.acted \in BOOLEAN
  BY DEF Sessions
<1>2. t.acted = s.acted \/ t.acted = TRUE
  BY <1>1, Zenon DEF Open
<1>3. Trails(s, t)
  BY <1>2, Zenon DEF Trails
<1>4. PICK a, b : a = After(s, q) /\ b = After(t, q)
  OBVIOUS
<1>5. /\ Trails(a, b) /\ (Level(s, t) => Level(a, b))
      /\ (\E i \in DOMAIN q : q[i].kind = "TURN_R" \/ Seals(q[i])) => Level(a, b)
      /\ Firm(q) => b.chid = a.chid
  BY <1>3, <1>4, AfterTrails
<1>6. Open(b) => Open(a)
  BY <1>5, Zenon DEF Open, Trails
<1>7. Level(a, b) => (Open(a) => Open(b))
  BY Zenon DEF Open, Level
<1>8. (Open(s) => Open(t)) => Level(s, t)
  BY <1>1, <1>2, Zenon DEF Open, Level
<1> QED
  BY <1>4, <1>5, <1>6, <1>7, <1>8

LEMMA AwareTrails ==
  ASSUME NEW s, NEW t, SamePoints(s, t), t.chid = s.chid, Open(t) => Open(s),
         NEW q \in Seq(DownMsgs)
  PROVE  Aware(After(t, q)) => Aware(After(s, q))
<1>1. s \in Sessions /\ t \in Sessions
  BY DEF SamePoints
<1>2. PICK a, b : a = After(s, q) /\ b = After(t, q)
  OBVIOUS
<1>3. Open(b) => Open(a)
  BY <1>1, <1>2, OpenTrails
<1>4. b.hp = a.hp
  BY <1>2, AfterSame DEF SamePoints
<1> QED
  BY <1>2, <1>3, <1>4, Zenon DEF Aware

(* The server's side of a player, w: "none", the server does not know it;  *)
(* "idle", it is in no battle; "wait", it is in battle c, at turn n, and   *)
(* its action has not come; "noted", it has.  live and drawn are the       *)
(* challenges that exist and those that ever did; hasty, the players that  *)
(* may have acted untold.                                                  *)
ActIn(ch, f) == IF f = ch.user1 THEN ch.act1 ELSE ch.act2

Place(f, users, chs) ==
  IF f \notin DOMAIN users THEN "none"
  ELSE IF users[f].state # "UBATTLING" THEN "idle"
  ELSE IF ActIn(chs[users[f].chid], f) = NoAct THEN "wait" ELSE "noted"

World(H, f, users, chs, dr) ==
  [mode |-> Place(f, users, chs), c |-> users[f].chid,
   n |-> chs[users[f].chid].turn_no, key |-> users[f].key,
   live |-> DOMAIN chs, drawn |-> dr, hasty |-> H]

(* Its client's side: u holds what is on its way to the server, and the    *)
(* session t at the main screen has the messages q still to read.          *)
Played(u, c) == \E j \in DOMAIN u : u[j].kind = "TURN" /\ u[j].chid = c

(* May: a player that may act, told of the turn, after the first i of      *)
(* these messages, knows a battle; if it is not over it is the player's,   *)
(* its action has not been sent, and none of the messages behind changes   *)
(* the turn.  Late: so it is all the time, and who is in no battle will    *)
(* not be able to act.                                                     *)
May(w, u, q, i, p, z) ==
  Aware(z) =>
    /\ Firm(p) /\ z.chid \in w.drawn
    /\ z.chid \in w.live =>
         w.mode = "wait" /\ z.chid = w.c /\ ~ Played(u, w.c) /\ Still(q, i)

Late(w, u, t, q) ==
  /\ \A i \in 0 .. Len(q) :
       May(w, u, q, i, SubSeq(q, 1, i), After(t, SubSeq(q, 1, i)))
  /\ w.mode = "idle" => ~ Aware(After(t, q))

LEMMA PrefixAppend ==
  ASSUME NEW q \in Seq(DownMsgs), NEW m \in DownMsgs
  PROVE  LET r == Append(q, m) IN
         /\ r \in Seq(DownMsgs) /\ Len(r) = Len(q) + 1 /\ Len(q) \in Nat
         /\ SubSeq(q, 1, Len(q)) = q /\ SubSeq(r, 1, Len(r)) = r
         /\ \A i \in 0 .. Len(q) : SubSeq(r, 1, i) = SubSeq(q, 1, i)
         /\ Still(r, Len(r))
         /\ \A i \in 0 .. Len(q) : Still(q, i) /\ Mild(m) => Still(r, i)
<1>1. PICK r : r = Append(q, m)
  OBVIOUS
<1>2. /\ r \in Seq(DownMsgs) /\ Len(r) = Len(q) + 1 /\ Len(q) \in Nat
      /\ \A j \in 1 .. Len(q) : r[j] = q[j]
      /\ DOMAIN r = 1 .. Len(q) + 1 /\ DOMAIN q = 1 .. Len(q) /\ r[Len(q) + 1] = m
  BY <1>1
<1>3. SubSeq(q, 1, Len(q)) = q /\ SubSeq(r, 1, Len(r)) = r
  BY <1>2
<1>4. ASSUME NEW i \in 0 .. Len(q) PROVE SubSeq(r, 1, i) = SubSeq(q, 1, i)
  BY <1>2
<1>5. Still(r, Len(r))
  BY <1>2 DEF Still
<1>6. ASSUME NEW i \in 0 .. Len(q), Still(q, i), Mild(m) PROVE Still(r, i)
  <2>1. SUFFICES ASSUME NEW j \in DOMAIN r, j > i PROVE Mild(r[j])
    BY DEF Still
  <2>2. j \in DOMAIN q \/ j = Len(q) + 1
    BY <1>2
  <2> QED
    BY <1>2, <1>6, <2>1, <2>2 DEF Still
<1> QED
  BY <1>1, <1>2, <1>3, <1>4, <1>5, <1>6

(* The world goes on without a message: of a player who waits the battle   *)
(* stays, and ids drawn before do not come back to life.                   *)
GoesOn(w, w2) ==
  /\ w2.mode = w.mode /\ (w.mode # "none" => w2.key = w.key)
  /\ w.mode = "wait" => w2.c = w.c /\ w2.n = w.n
  /\ w.drawn \subseteq w2.drawn /\ w.hasty \subseteq w2.hasty
  /\ w2.live \cap w.drawn \subseteq w.live

(* The battle the player could act in, if any, is over. *)
Bygone(w, w2) ==
  /\ w.drawn \subseteq w2.drawn /\ w.hasty \subseteq w2.hasty
  /\ w2.live \cap w.drawn \subseteq w.live
  /\ w.mode = "wait" => w.c \notin w2.live

LEMMA LateGoesOn ==
  ASSUME NEW w, NEW w2, GoesOn(w, w2), NEW u, NEW u2,
         ~ Played(u, w.c) => ~ Played(u2, w.c), NEW t, NEW q, Late(w, u, t, q)
  PROVE  Late(w2, u2, t, q)
<1>1. ASSUME NEW i \in 0 .. Len(q)
      PROVE  May(w2, u2, q, i, SubSeq(q, 1, i), After(t, SubSeq(q, 1, i)))
  <2>1. PICK p, z : p = SubSeq(q, 1, i) /\ z = After(t, p)
    OBVIOUS
  <2>2. May(w, u, q, i, p, z)
    BY <2>1 DEF Late
  <2>3. May(w2, u2, q, i, p, z)
    BY <2>2 DEF May, GoesOn
  <2> QED
    BY <2>1, <2>3
<1> QED
  BY <1>1 DEF Late, GoesOn

LEMMA LateMild ==
  ASSUME NEW w, NEW u, NEW t \in Sessions, NEW q \in Seq(DownMsgs), Late(w, u, t, q),
         NEW m \in DownMsgs, Mild(m)
  PROVE  Late(w, u, t, Append(q, m))
<1>1. PICK r : r = Append(q, m)
  OBVIOUS
<1>2. /\ r \in Seq(DownMsgs) /\ Len(r) = Len(q) + 1 /\ Len(q) \in Nat
      /\ SubSeq(q, 1, Len(q)) = q /\ SubSeq(r, 1, Len(r)) = r
      /\ \A i \in 0 .. Len(q) : SubSeq(r, 1, i) = SubSeq(q, 1, i)
      /\ Still(r, Len(r))
      /\ \A i \in 0 .. Len(q) : Still(q, i) => Still(r, i)
  BY <1>1, PrefixAppend
<1>3. PICK y, z : y = After(t, q) /\ z = After(t, r)
  OBVIOUS
<1>4. y \in Sessions /\ z = Handled(y, m)
  BY <1>1, <1>3, AfterType, AfterAppend
<1>5. (Aware(z) <=> Aware(y)) /\ z.chid = y.chid
  BY <1>4, OpenMild
<1>6. ASSUME NEW i \in 0 .. Len(q)
      PROVE  May(w, u, r, i, SubSeq(r, 1, i), After(t, SubSeq(r, 1, i)))
  <2>1. PICK p, x : p = SubSeq(q, 1, i) /\ x = After(t, p) /\ p = SubSeq(r, 1, i)
    BY <1>2
  <2>2. May(w, u, q, i, p, x)
    BY <2>1 DEF Late
  <2>3. May(w, u, r, i, p, x)
    BY <1>2, <2>2 DEF May
  <2> QED
    BY <2>1, <2>3
<1>7. May(w, u, r, Len(r), r, z)
  <2>1. May(w, u, q, Len(q), q, y)
    <3>1. Len(q) \in 0 .. Len(q)
      BY <1>2
    <3> QED
      BY <1>2, <1>3, <3>1 DEF Late
  <2>2. Firm(q) => Firm(r)
    BY <1>1, FirmAppend DEF Mild
  <2> QED
    BY <1>2, <1>5, <2>1, <2>2 DEF May
<1>8. \A i \in 0 .. Len(r) : May(w, u, r, i, SubSeq(r, 1, i), After(t, SubSeq(r, 1, i)))
  <2>1. \A i \in 0 .. Len(r) : i \in 0 .. Len(q) \/ i = Len(r)
    BY <1>2
  <2> QED
    BY <1>2, <1>3, <1>6, <1>7, <2>1
<1>9. w.mode = "idle" => ~ Aware(z)
  BY <1>3, <1>5 DEF Late
<1> QED
  BY <1>1, <1>3, <1>8, <1>9 DEF Late

LEMMA LateBygone ==
  ASSUME NEW w, NEW w2, Bygone(w, w2), NEW u, NEW t \in Sessions,
         NEW q \in Seq(DownMsgs), Late(w, u, t, q), NEW m \in DownMsgs,
         NEW z, z = After(t, Append(q, m)),
         Aware(z) => /\ w2.mode # "idle" /\ Firm(Append(q, m)) /\ z.chid \in w2.drawn
                     /\ z.chid \in w2.live =>
                         w2.mode = "wait" /\ z.chid = w2.c /\ ~ Played(u, w2.c)
  PROVE  Late(w2, u, t, Append(q, m))
<1>1. PICK r : r = Append(q, m)
  OBVIOUS
<1>2. /\ r \in Seq(DownMsgs) /\ Len(r) = Len(q) + 1 /\ Len(q) \in Nat
      /\ SubSeq(r, 1, Len(r)) = r
      /\ \A i \in 0 .. Len(q) : SubSeq(r, 1, i) = SubSeq(q, 1, i)
      /\ Still(r, Len(r))
  BY <1>1, PrefixAppend
<1>3. ASSUME NEW i \in 0 .. Len(q)
      PROVE  May(w2, u, r, i, SubSeq(r, 1, i), After(t, SubSeq(r, 1, i)))
  <2>1. PICK p, x : p = SubSeq(q, 1, i) /\ x = After(t, p) /\ p = SubSeq(r, 1, i)
    BY <1>2
  <2>2. May(w, u, q, i, p, x)
    BY <2>1 DEF Late
  <2>3. May(w2, u, r, i, p, x)
    BY <2>2 DEF May, Bygone
  <2> QED
    BY <2>1, <2>3
<1>4. May(w2, u, r, Len(r), r, z)
  BY <1>1, <1>2 DEF May
<1>5. \A i \in 0 .. Len(r) : May(w2, u, r, i, SubSeq(r, 1, i), After(t, SubSeq(r, 1, i)))
  <2>1. \A i \in 0 .. Len(r) : i \in 0 .. Len(q) \/ i = Len(r)
    BY <1>2
  <2> QED
    BY <1>1, <1>2, <1>3, <1>4, <2>1
<1>6. w2.mode = "idle" => ~ Aware(z)
  OBVIOUS
<1> QED
  BY <1>1, <1>5, <1>6 DEF Late

LEMMA LateHead ==
  ASSUME NEW w, NEW u, NEW t \in Sessions, NEW q \in Seq(DownMsgs), q # <<>>,
         Late(w, u, t, q)
  PROVE  Late(w, u, Handled(t, Head(q)), Tail(q))
<1>1. PICK m, r, t2 : m = Head(q) /\ r = Tail(q) /\ t2 = Handled(t, m)
  OBVIOUS
<1>2. /\ r \in Seq(DownMsgs) /\ Len(q) = Len(r) + 1 /\ Len(r) \in Nat /\ m \in DownMsgs
      /\ \A i \in DOMAIN r : i + 1 \in DOMAIN q /\ r[i] = q[i + 1]
  BY <1>1
<1>3. ASSUME NEW i \in 0 .. Len(r)
      PROVE  May(w, u, r, i, SubSeq(r, 1, i), After(t2, SubSeq(r, 1, i)))
  <2>1. PICK p, x, z : p = SubSeq(q, 1, i + 1) /\ x = SubSeq(r, 1, i) /\ z = After(t, p)
    OBVIOUS
  <2>2. i \in Nat /\ i + 1 \in 1 .. Len(q) /\ i + 1 \in 0 .. Len(q)
    BY <1>2
  <2>3. p \in Seq(DownMsgs) /\ p # <<>> /\ Head(p) = m
    BY <1>1, <2>1, <2>2
  <2>4. Tail(p) = x
    BY <1>1, <2>1, <2>2
  <2>5. z = After(t2, x)
    BY <1>1, <2>1, <2>3, <2>4, AfterHead
  <2>6. May(w, u, q, i + 1, p, z)
    BY <2>1, <2>2 DEF Late
  <2>7. Firm(p) => Firm(x)
    BY <2>3, <2>4, FirmTail
  <2>8. Still(q, i + 1) => Still(r, i)
    <3>1. ASSUME Still(q, i + 1), NEW j \in DOMAIN r, j > i PROVE Mild(r[j])
      <4>1. j + 1 \in DOMAIN q /\ r[j] = q[j + 1] /\ j + 1 > i + 1
        BY <1>2, <2>2, <3>1
      <4> QED
        BY <3>1, <4>1 DEF Still
    <3> QED
      BY <3>1 DEF Still
  <2>9. May(w, u, r, i, x, z)
    BY <2>6, <2>7, <2>8 DEF May
  <2> QED
    BY <2>1, <2>5, <2>9
<1>4. After(t, q) = After(t2, r)
  BY <1>1, AfterHead
<1> QED
  BY <1>1, <1>3, <1>4 DEF Late

LEMMA PrefixOf ==
  ASSUME NEW q \in Seq(DownMsgs), NEW i \in 0 .. Len(q)
  PROVE  /\ SubSeq(q, 1, i) \in Seq(DownMsgs)
         /\ Still(q, 0) => Still(SubSeq(q, 1, i), 0)
<1>1. PICK p : p = SubSeq(q, 1, i)
  OBVIOUS
<1>2. p \in Seq(DownMsgs) /\ DOMAIN p = 1 .. i /\ \A j \in 1 .. i : p[j] = q[j]
  BY <1>1
<1>3. \A j \in 1 .. i : j \in DOMAIN q
  OBVIOUS
<1> QED
  BY <1>1, <1>2, <1>3 DEF Still

(* A session that differs in its popup, or whose player has acted, told.   *)
LEMMA LateTrails ==
  ASSUME NEW w, NEW u, NEW s \in Sessions, NEW q \in Seq(DownMsgs), Late(w, u, s, q),
         NEW t \in Sessions, SamePoints(s, t), t.chid = s.chid, Open(t) => Open(s),
         NEW u2,
         \/ ~ Played(u, w.c) => ~ Played(u2, w.c)
         \/ /\ Aware(s) /\ ~ Open(t) /\ w.c \in w.live
            /\ \A c : Played(u2, c) => Played(u, c) \/ c = s.chid
         \/ w.mode # "wait"
  PROVE  Late(w, u2, t, q)
<1>1. ASSUME NEW i \in 0 .. Len(q)
      PROVE  May(w, u2, q, i, SubSeq(q, 1, i), After(t, SubSeq(q, 1, i)))
  <2>1. PICK p, y, z : p = SubSeq(q, 1, i) /\ y = After(s, p) /\ z = After(t, p)
    OBVIOUS
  <2>2. p \in Seq(DownMsgs) /\ (Still(q, 0) => Still(p, 0))
    BY <2>1, PrefixOf
  <2>3. (Aware(z) => Aware(y)) /\ (Firm(p) => z.chid = y.chid)
    BY <2>1, <2>2, OpenTrails, AwareTrails
  <2>4. May(w, u, q, i, p, y)
    BY <2>1 DEF Late
  <2>5. ASSUME Aware(z), z.chid \in w.live PROVE ~ Played(u2, w.c)
    <3>1. /\ Aware(y) /\ y.chid = z.chid /\ w.mode = "wait" /\ z.chid = w.c
          /\ ~ Played(u, w.c)
      BY <2>3, <2>4, <2>5 DEF May
    <3>2. CASE /\ Aware(s) /\ ~ Open(t) /\ w.c \in w.live
               /\ \A c : Played(u2, c) => Played(u, c) \/ c = s.chid
      <4>1. SUFFICES ASSUME s.chid = w.c PROVE FALSE
        BY <3>1, <3>2
      <4>2. 0 \in 0 .. Len(q) /\ SubSeq(q, 1, 0) = <<>> /\ After(s, <<>>) = s
        BY AfterEmpty
      <4>3. May(w, u, q, 0, <<>>, s)
        BY <4>2 DEF Late
      <4>4. Still(q, 0)
        BY <3>2, <4>1, <4>3 DEF May
      <4>5. Open(z) <=> Open(t)
        BY <2>1, <2>2, <4>4, OpenStill
      <4> QED
        BY <2>5, <3>2, <4>5 DEF Aware
    <3> QED
      BY <3>1, <3>2
  <2>6. May(w, u2, q, i, p, z)
    BY <2>3, <2>4, <2>5 DEF May
  <2> QED
    BY <2>1, <2>6
<1>2. w.mode = "idle" => ~ Aware(After(t, q))
  BY AwareTrails DEF Late
<1> QED
  BY <1>1, <1>2 DEF Late

(* The action of a player comes, or is on its way without being waited for. *)
LEMMA LateNoted ==
  ASSUME NEW w, NEW w2, NEW u, NEW u2, Played(u, w.c),
         w2.mode = "noted", w2.live = w.live, w2.drawn = w.drawn,
         NEW t, NEW q, Late(w, u, t, q)
  PROVE  Late(w2, u2, t, q)
<1>1. ASSUME NEW i \in 0 .. Len(q)
      PROVE  May(w2, u2, q, i, SubSeq(q, 1, i), After(t, SubSeq(q, 1, i)))
  <2>1. PICK p, z : p = SubSeq(q, 1, i) /\ z = After(t, p)
    OBVIOUS
  <2>2. May(w, u, q, i, p, z)
    BY <2>1 DEF Late
  <2>3. May(w2, u2, q, i, p, z)
    BY <2>2 DEF May
  <2> QED
    BY <2>1, <2>3
<1> QED
  BY <1>1 DEF Late

(* A session that may not act told, and reads nothing that changes it.     *)
LEMMA LateShut ==
  ASSUME NEW w, NEW u, NEW t \in Sessions, ~ Aware(t), NEW q \in Seq(DownMsgs), Still(q, 0)
  PROVE  Late(w, u, t, q)
<1>1. ASSUME NEW p \in Seq(DownMsgs), Still(p, 0) PROVE ~ Aware(After(t, p))
  BY <1>1, OpenStill
<1>2. ASSUME NEW i \in 0 .. Len(q)
      PROVE  May(w, u, q, i, SubSeq(q, 1, i), After(t, SubSeq(q, 1, i)))
  <2>1. PICK p : p = SubSeq(q, 1, i)
    OBVIOUS
  <2>2. ~ Aware(After(t, p))
    BY <1>1, <2>1, PrefixOf
  <2> QED
    BY <2>1, <2>2 DEF May
<1> QED
  BY <1>1, <1>2 DEF Late

(* The inductive invariant of who may act, for player f: Own, its messages *)
(* carry its key; Go, if its action is waited for then it is on its way or *)
(* the player will be able to act; and unless it has acted untold, Late,   *)
(* and what is on its way is the action of a battle that is over, or the   *)
(* one waited for.                                                         *)
ReadsOf(f, s, d, t, q) == Ready(f, s, d, t, q) /\ (s.phase = "WAIT_MSG" => d # <<>>)

Own(f, w, s, d, u) ==
  /\ s.phase = "MAIN" => s.key = f
  /\ \A i \in DOMAIN d : d[i].kind = "JOIN_R" /\ d[i].error = "ME_OK" => d[i].key = f
  /\ \A i \in DOMAIN u : u[i].kind = "TURN" => u[i].user = f /\ u[i].key = f
  /\ w.mode # "none" => w.key = f /\ (s.phase = "WAIT_MSG" => d # <<>>)

Go(f, w, s, d, u) ==
  w.mode = "wait" =>
    Played(u, w.c) \/ \A t, q : ReadsOf(f, s, d, t, q) => Open(After(t, q))

LateDown(f, w, s, d, u) ==
  \A t, q : ReadsOf(f, s, d, t, q) => Late(w, u, t, q)

Prompt(w, m) ==
  /\ m.chid \in w.drawn
  /\ m.chid \in w.live => w.mode = "wait" /\ m.chid = w.c /\ m.turn_no = w.n

LateUp(w, u) ==
  /\ \A i \in DOMAIN u : u[i].kind = "TURN" => Prompt(w, u[i])
  /\ \A i, j \in DOMAIN u :
       (u[i].kind = "TURN" /\ u[j].kind = "TURN" /\ u[i].chid = u[j].chid
        /\ u[i].chid \in w.live) => i = j

Tidy(f, w, s, d, u) ==
  /\ Own(f, w, s, d, u) /\ Go(f, w, s, d, u)
  /\ f \notin w.hasty => LateDown(f, w, s, d, u) /\ LateUp(w, u)

(* The session of who has read nothing of the game is told of no turn. *)
LEMMA ReadsUntold ==
  ASSUME NEW f, NEW s, s.phase # "MAIN", NEW d, NEW t, NEW q, ReadsOf(f, s, d, t, q)
  PROVE  ~ Aware(t) /\ q = Tail(d)
<1>1. PICK key, acted, state : t = New(f, key, acted, state) /\ q = Tail(d)
  BY Zenon DEF ReadsOf, Ready
<1>2. t.hp = 0
  BY <1>1 DEF New, NewSession
<1> QED
  BY <1>1, <1>2 DEF Aware

LEMMA ReadsType ==
  ASSUME NEW f \in Fds, NEW s \in Sessions, NEW d \in Seq(DownMsgs), NEW t, NEW q,
         ReadsOf(f, s, d, t, q)
  PROVE  t \in Sessions /\ q \in Seq(DownMsgs)
<1>1. CASE s.phase = "MAIN" /\ t = s /\ q = d
  BY <1>1
<1>2. CASE /\ s.phase = "WAIT_MSG" /\ q = Tail(d)
           /\ \E key \in AnyKey, acted \in BOOLEAN, state \in UserStates :
                t = New(f, key, acted, state)
  <2>1. d # <<>>
    BY <1>2 DEF ReadsOf
  <2>2. q \in Seq(DownMsgs)
    BY <1>2, <2>1
  <2>3. t \in Sessions
    BY <1>2, NewType
  <2> QED
    BY <2>2, <2>3
<1> QED
  BY <1>1, <1>2 DEF ReadsOf, Ready

LEMMA ReadsAppend ==
  ASSUME NEW f \in Fds, NEW s \in Sessions, NEW d \in Seq(DownMsgs), NEW m \in DownMsgs,
         NEW t, NEW q, ReadsOf(f, s, Append(d, m), t, q)
  PROVE  /\ t \in Sessions
         /\ \/ \E p \in Seq(DownMsgs) : ReadsOf(f, s, d, t, p) /\ q = Append(p, m)
            \/ s.phase = "WAIT_MSG" /\ d = <<>> /\ q = <<>>
<1>1. t \in Sessions
  <2>1. PICK e : e = Append(d, m)
    OBVIOUS
  <2>2. e \in Seq(DownMsgs)
    BY <2>1
  <2> QED
    BY <2>1, <2>2, ReadsType
<1>2. CASE s.phase = "MAIN" /\ t = s /\ q = Append(d, m)
  <2>1. ReadsOf(f, s, d, t, d)
    BY <1>2 DEF ReadsOf, Ready
  <2> QED
    BY <1>1, <1>2, <2>1
<1>3. CASE /\ s.phase = "WAIT_MSG" /\ q = Tail(Append(d, m))
           /\ \E key \in AnyKey, acted \in BOOLEAN, state \in UserStates :
                t = New(f, key, acted, state)
  <2>1. CASE d = <<>>
    <3>1. q = <<>>
      BY <1>3, <2>1
    <3> QED
      BY <1>1, <1>3, <2>1, <3>1
  <2>2. CASE d # <<>>
    <3>1. Tail(d) \in Seq(DownMsgs) /\ q = Append(Tail(d), m)
      BY <1>3, <2>2
    <3>2. ReadsOf(f, s, d, t, Tail(d))
      BY <1>3, <2>2, Zenon DEF ReadsOf, Ready
    <3> QED
      BY <1>1, <3>1, <3>2
  <2> QED
    BY <2>1, <2>2
<1> QED
  BY <1>2, <1>3 DEF ReadsOf, Ready

LEMMA OwnAppend ==
  ASSUME NEW f, NEW w, NEW s, NEW d \in Seq(DownMsgs), NEW u, Own(f, w, s, d, u),
         NEW m \in DownMsgs, m.kind = "JOIN_R" => m.error # "ME_OK",
         NEW w2, w2.mode # "none" => w.mode # "none" /\ w2.key = w.key
  PROVE  Own(f, w2, s, Append(d, m), u)
<1>1. PICK e : e = Append(d, m)
  OBVIOUS
<1>2. e # <<>> /\ \A i \in DOMAIN e : (i \in DOMAIN d /\ e[i] = d[i]) \/ e[i] = m
  BY <1>1
<1>3. \A i \in DOMAIN e : e[i].kind = "JOIN_R" /\ e[i].error = "ME_OK" => e[i].key = f
  BY <1>2 DEF Own
<1> QED
  BY <1>1, <1>2, <1>3 DEF Own

LEMMA TidyMild ==
  ASSUME NEW f \in Fds, NEW w, NEW s \in Sessions, NEW d \in Seq(DownMsgs), NEW u,
         Tidy(f, w, s, d, u), NEW m \in DownMsgs, Mild(m),
         m.kind = "JOIN_R" => m.error # "ME_OK"
  PROVE  Tidy(f, w, s, Append(d, m), u)
<1>1. Own(f, w, s, Append(d, m), u)
  BY OwnAppend DEF Tidy
<1>2. ASSUME NEW t, NEW q, ReadsOf(f, s, Append(d, m), t, q), w.mode = "wait",
             ~ Played(u, w.c)
      PROVE  Open(After(t, q))
  <2>1. ~ (s.phase = "WAIT_MSG" /\ d = <<>>)
    BY <1>2 DEF Tidy, Own
  <2>2. PICK p \in Seq(DownMsgs) : ReadsOf(f, s, d, t, p) /\ q = Append(p, m)
    BY <1>2, <2>1, ReadsAppend
  <2>3. t \in Sessions /\ After(t, p) \in Sessions
    BY <1>2, ReadsAppend, AfterType
  <2>4. Open(After(t, p))
    BY <1>2, <2>2 DEF Tidy, Go
  <2> QED
    BY <2>2, <2>3, <2>4, AfterAppend, OpenMild
<1>3. Go(f, w, s, Append(d, m), u)
  BY <1>2 DEF Go
<1>4. ASSUME f \notin w.hasty, NEW t, NEW q, ReadsOf(f, s, Append(d, m), t, q)
      PROVE  Late(w, u, t, q)
  <2>1. t \in Sessions
    BY <1>4, ReadsAppend
  <2>2. CASE \E p \in Seq(DownMsgs) : ReadsOf(f, s, d, t, p) /\ q = Append(p, m)
    <3>1. PICK p \in Seq(DownMsgs) : ReadsOf(f, s, d, t, p) /\ q = Append(p, m)
      BY <2>2
    <3>2. Late(w, u, t, p)
      BY <1>4, <3>1 DEF Tidy, LateDown
    <3> QED
      BY <2>1, <3>1, <3>2, LateMild
  <2>3. CASE s.phase = "WAIT_MSG" /\ q = <<>>
    <3>1. q \in Seq(DownMsgs) /\ Still(q, 0)
      BY <2>3 DEF Still
    <3>2. ~ Aware(t)
      BY <1>4, <2>3, ReadsUntold
    <3> QED
      BY <2>1, <3>1, <3>2, LateShut
  <2> QED
    BY <1>4, <2>2, <2>3, ReadsAppend
<1>5. f \notin w.hasty => LateDown(f, w, s, Append(d, m), u)
  BY <1>4 DEF LateDown
<1> QED
  BY <1>1, <1>3, <1>5 DEF Tidy

(* No action on its way is for a battle that lives. *)
LEMMA UpBygone ==
  ASSUME NEW w, NEW w2, Bygone(w, w2), NEW u, LateUp(w, u)
  PROVE  LateUp(w2, u) /\ \A c \in w2.live : ~ Played(u, c)
<1>1. ASSUME NEW i \in DOMAIN u, u[i].kind = "TURN"
      PROVE  u[i].chid \in w2.drawn /\ u[i].chid \notin w2.live
  <2>1. Prompt(w, u[i])
    BY <1>1 DEF LateUp
  <2> QED
    BY <2>1 DEF Prompt, Bygone
<1> QED
  BY <1>1 DEF LateUp, Prompt, Played

(* Leads: message m takes a session t that has read q to where w2 is. *)
Leads(w, w2, u, t, q, m) ==
  LET z == After(t, Append(q, m)) IN
  /\ Late(w, u, t, q) /\ Aware(z) =>
       /\ w2.mode # "idle" /\ Firm(Append(q, m)) /\ z.chid \in w2.drawn
       /\ z.chid \in w2.live => w2.mode = "wait" /\ z.chid = w2.c
  /\ w2.mode = "wait" => Open(z)

LEMMA TidyLeads ==
  ASSUME NEW f \in Fds, NEW w, NEW s \in Sessions, NEW d \in Seq(DownMsgs), NEW u,
         Tidy(f, w, s, d, u), w.mode # "none", NEW w2, w2.key = w.key, Bygone(w, w2),
         NEW m \in DownMsgs, m.kind # "JOIN_R",
         \A t \in Sessions, q \in Seq(DownMsgs) :
           ReadsOf(f, s, d, t, q) => Leads(w, w2, u, t, q, m)
  PROVE  Tidy(f, w2, s, Append(d, m), u)
<1>1. Own(f, w2, s, Append(d, m), u)
  BY OwnAppend DEF Tidy
<1>2. ASSUME NEW t, NEW q, ReadsOf(f, s, Append(d, m), t, q)
      PROVE  /\ t \in Sessions
             /\ \E p \in Seq(DownMsgs) : ReadsOf(f, s, d, t, p) /\ q = Append(p, m)
  <2>1. ~ (s.phase = "WAIT_MSG" /\ d = <<>>)
    BY DEF Tidy, Own
  <2> QED
    BY <1>2, <2>1, ReadsAppend
<1>3. ASSUME NEW t, NEW q, ReadsOf(f, s, Append(d, m), t, q), w2.mode = "wait"
      PROVE  Open(After(t, q))
  BY <1>2, <1>3 DEF Leads
<1>4. Go(f, w2, s, Append(d, m), u)
  BY <1>3 DEF Go
<1>5. ASSUME f \notin w2.hasty, NEW t, NEW q, ReadsOf(f, s, Append(d, m), t, q)
      PROVE  Late(w2, u, t, q)
  <2>1. t \in Sessions
    BY <1>2, <1>5
  <2>2. PICK p \in Seq(DownMsgs) : ReadsOf(f, s, d, t, p) /\ q = Append(p, m)
    BY <1>2, <1>5
  <2>3. Late(w, u, t, p)
    BY <1>5, <2>2 DEF Tidy, LateDown, Bygone
  <2>4. \A c \in w2.live : ~ Played(u, c)
    BY <1>5, UpBygone DEF Tidy, Bygone
  <2>5. PICK z : z = After(t, Append(p, m))
    OBVIOUS
  <2>6. Aware(z) => /\ w2.mode # "idle" /\ Firm(Append(p, m)) /\ z.chid \in w2.drawn
                    /\ z.chid \in w2.live =>
                        w2.mode = "wait" /\ z.chid = w2.c /\ ~ Played(u, w2.c)
    BY <2>1, <2>2, <2>3, <2>4, <2>5 DEF Leads
  <2> QED
    BY <2>1, <2>2, <2>3, <2>5, <2>6, LateBygone
<1>6. f \notin w2.hasty => LateDown(f, w2, s, Append(d, m), u) /\ LateUp(w2, u)
  BY <1>5, UpBygone DEF LateDown, Tidy, Bygone
<1> QED
  BY <1>1, <1>4, <1>6 DEF Tidy

(* The ways of a player from one world to the next.  An invitation. *)
LEMMA TidyInvited ==
  ASSUME NEW f \in Fds, NEW w, NEW s \in Sessions, NEW d \in Seq(DownMsgs), NEW u,
         Tidy(f, w, s, d, u), w.mode = "idle", NEW m \in DownMsgs, m.kind = "CHALLENGE"
  PROVE  Tidy(f, w, s, Append(d, m), u)
<1>1. Bygone(w, w)
  BY DEF Bygone
<1>2. ASSUME NEW t \in Sessions, NEW q \in Seq(DownMsgs) PROVE Leads(w, w, u, t, q, m)
  <2>1. PICK y, z : y = After(t, q) /\ z = After(t, Append(q, m))
    OBVIOUS
  <2>2. y \in Sessions /\ z = Handled(y, m)
    BY <2>1, AfterType, AfterAppend
  <2>3. Aware(z) <=> Aware(y)
    BY <2>2, OpenChallenge
  <2>4. Late(w, u, t, q) => ~ Aware(z)
    BY <2>1, <2>3 DEF Late
  <2> QED
    BY <2>1, <2>4 DEF Leads
<1> QED
  BY <1>1, <1>2, TidyLeads

(* The answer that puts the player into a battle, where it has to wait for *)
(* the first turn. *)
LEMMA TidySealed ==
  ASSUME NEW f \in Fds, NEW w, NEW s \in Sessions, NEW d \in Seq(DownMsgs), NEW u,
         Tidy(f, w, s, d, u), w.mode = "idle", NEW m \in DownMsgs, Seals(m),
         NEW w2, w2.mode = "noted", w2.key = w.key, Bygone(w, w2)
  PROVE  Tidy(f, w2, s, Append(d, m), u)
<1>1. ASSUME NEW t \in Sessions, NEW q \in Seq(DownMsgs) PROVE Leads(w, w2, u, t, q, m)
  <2>1. PICK y, z : y = After(t, q) /\ z = After(t, Append(q, m))
    OBVIOUS
  <2>2. y \in Sessions /\ z = Handled(y, m)
    BY <2>1, AfterType, AfterAppend
  <2>3. ~ Open(z)
    BY <2>2, OpenSeals
  <2> QED
    BY <2>1, <2>3 DEF Leads, Aware
<1>2. m.kind # "JOIN_R"
  BY DEF Seals
<1> QED
  BY <1>1, <1>2, TidyLeads

(* The result of a turn, after which the player is to act again. *)
LEMMA TidyTurn ==
  ASSUME NEW f \in Fds, NEW w, NEW s \in Sessions, NEW d \in Seq(DownMsgs), NEW u,
         Tidy(f, w, s, d, u), w.mode = "noted",
         NEW m \in DownMsgs, m.kind = "TURN_R", ~ m.fin,
         NEW w2, w2.mode = "wait", w2.key = w.key, Bygone(w, w2), w2.c \in w2.drawn,
         \A t \in Sessions, q \in Seq(DownMsgs) :
           ReadsOf(f, s, d, t, q) => Firm(q) /\ After(t, q).chid = w2.c
  PROVE  Tidy(f, w2, s, Append(d, m), u)
<1>1. ASSUME NEW t \in Sessions, NEW q \in Seq(DownMsgs), ReadsOf(f, s, d, t, q)
      PROVE  Leads(w, w2, u, t, q, m)
  <2>1. PICK y, z : y = After(t, q) /\ z = After(t, Append(q, m))
    OBVIOUS
  <2>2. y \in Sessions /\ z = Handled(y, m)
    BY <2>1, AfterType, AfterAppend
  <2>3. Open(z) /\ z.chid = w2.c
    <3>1. z.chid = y.chid /\ (Open(z) <=> ~ m.fin)
      BY <2>2, OpenTurn
    <3> QED
      BY <1>1, <2>1, <3>1
  <2>4. Firm(Append(q, m))
    BY <1>1, FirmAppend
  <2> QED
    BY <2>1, <2>3, <2>4 DEF Leads
<1> QED
  BY <1>1, TidyLeads

(* The result of the last turn. *)
LEMMA TidyEnd ==
  ASSUME NEW f \in Fds, NEW w, NEW s \in Sessions, NEW d \in Seq(DownMsgs), NEW u,
         Tidy(f, w, s, d, u), w.mode \in {"wait", "noted"},
         NEW m \in DownMsgs, m.kind = "TURN_R", m.fin,
         NEW w2, w2.mode = "idle", w2.key = w.key, Bygone(w, w2)
  PROVE  Tidy(f, w2, s, Append(d, m), u)
<1>1. ASSUME NEW t \in Sessions, NEW q \in Seq(DownMsgs) PROVE Leads(w, w2, u, t, q, m)
  <2>1. PICK y, z : y = After(t, q) /\ z = After(t, Append(q, m))
    OBVIOUS
  <2>2. y \in Sessions /\ z = Handled(y, m)
    BY <2>1, AfterType, AfterAppend
  <2>3. ~ Open(z)
    BY <2>2, OpenTurn
  <2> QED
    BY <2>1, <2>3 DEF Leads, Aware
<1> QED
  BY <1>1, TidyLeads

(* Nothing is sent to the player. *)
LEMMA TidyGoesOn ==
  ASSUME NEW f, NEW w, NEW s, NEW d, NEW u, Tidy(f, w, s, d, u), NEW w2, GoesOn(w, w2)
  PROVE  Tidy(f, w2, s, d, u)
<1>1. Own(f, w2, s, d, u) /\ Go(f, w2, s, d, u)
  BY DEF Tidy, Own, Go, GoesOn
<1>2. LateDown(f, w, s, d, u) => LateDown(f, w2, s, d, u)
  BY LateGoesOn DEF LateDown
<1>3. ASSUME LateUp(w, u) PROVE LateUp(w2, u)
  <2>1. ASSUME NEW i \in DOMAIN u, u[i].kind = "TURN" PROVE Prompt(w2, u[i])
    <3>1. Prompt(w, u[i])
      BY <1>3, <2>1 DEF LateUp
    <3> QED
      BY <3>1 DEF Prompt, GoesOn
  <2>2. ASSUME NEW i \in DOMAIN u, u[i].kind = "TURN", u[i].chid \in w2.live
        PROVE  u[i].chid \in w.live
    <3>1. Prompt(w, u[i])
      BY <1>3, <2>2 DEF LateUp
    <3> QED
      BY <2>2, <3>1 DEF Prompt, GoesOn
  <2> QED
    BY <1>3, <2>1, <2>2 DEF LateUp
<1>4. w.hasty \subseteq w2.hasty
  BY DEF GoesOn
<1> QED
  BY <1>1, <1>2, <1>3, <1>4 DEF Tidy

(* A player that is in no battle leaves, or one comes whose session has    *)
(* read nothing. *)
LEMMA TidyGone ==
  ASSUME NEW f, NEW w, NEW s, NEW d, NEW u, Tidy(f, w, s, d, u), w.mode # "wait",
         NEW w2, w2.mode = "none", w2.live = w.live, w2.drawn = w.drawn,
         w2.hasty = w.hasty
  PROVE  Tidy(f, w2, s, d, u)
<1>1. Own(f, w2, s, d, u) /\ Go(f, w2, s, d, u)
  BY DEF Tidy, Own, Go
<1>2. ASSUME NEW t, NEW q, Late(w, u, t, q) PROVE Late(w2, u, t, q)
  <2>1. ASSUME NEW i \in 0 .. Len(q)
        PROVE  May(w2, u, q, i, SubSeq(q, 1, i), After(t, SubSeq(q, 1, i)))
    <3>1. PICK p, z : p = SubSeq(q, 1, i) /\ z = After(t, p)
      OBVIOUS
    <3>2. May(w, u, q, i, p, z)
      BY <1>2, <3>1 DEF Late
    <3>3. May(w2, u, q, i, p, z)
      BY <3>2 DEF May
    <3> QED
      BY <3>1, <3>3
  <2> QED
    BY <2>1 DEF Late
<1>3. LateDown(f, w, s, d, u) => LateDown(f, w2, s, d, u)
  BY <1>2 DEF LateDown
<1>4. Bygone(w, w2)
  BY DEF Bygone
<1> QED
  BY <1>1, <1>3, <1>4, UpBygone DEF Tidy

LEMMA TidyJoins ==
  ASSUME NEW f \in Fds, NEW w, NEW s \in Sessions, NEW d, NEW u, Tidy(f, w, s, d, u),
         w.mode = "none", s.phase # "MAIN",
         NEW w2, w2.mode = "idle", w2.key = f, w2.live = w.live, w2.drawn = w.drawn,
         w2.hasty = w.hasty,
         NEW e \in Seq(DownMsgs), e # <<>>, Still(Tail(e), 0),
         \A i \in DOMAIN e : e[i].kind = "JOIN_R" => e[i].key = f
  PROVE  Tidy(f, w2, s, e, u)
<1>1. Own(f, w2, s, e, u) /\ Go(f, w2, s, e, u)
  BY DEF Tidy, Own, Go
<1>2. ASSUME NEW t, NEW q, ReadsOf(f, s, e, t, q) PROVE Late(w2, u, t, q)
  <2>1. t \in Sessions /\ q \in Seq(DownMsgs)
    BY <1>2, ReadsType
  <2>2. q = Tail(e) /\ ~ Aware(t)
    BY <1>2, ReadsUntold
  <2> QED
    BY <2>1, <2>2, LateShut
<1>3. LateDown(f, w2, s, e, u)
  BY <1>2 DEF LateDown
<1>4. Bygone(w, w2)
  BY DEF Bygone
<1> QED
  BY <1>1, <1>3, <1>4, UpBygone DEF Tidy

LEMMA TailUp ==
  ASSUME NEW u \in Seq(UpMsgs), u # <<>>
  PROVE  LET v == Tail(u) IN
         /\ \A i \in DOMAIN v : i + 1 \in DOMAIN u /\ v[i] = u[i + 1] /\ i + 1 # 1
         /\ \A i, j \in DOMAIN v : i + 1 = j + 1 => i = j
         /\ 1 \in DOMAIN u /\ u[1] = Head(u)
         /\ \A i \in DOMAIN u : i = 1 \/ \E j \in DOMAIN v : v[j] = u[i]
<1>1. PICK v : v = Tail(u)
  OBVIOUS
<1>2. /\ DOMAIN v = 1 .. Len(v) /\ Len(u) = Len(v) + 1 /\ Len(v) \in Nat
      /\ \A i \in 1 .. Len(v) : v[i] = u[i + 1]
      /\ DOMAIN u = 1 .. Len(u) /\ u[1] = Head(u)
  BY <1>1
<1>3. ASSUME NEW i \in DOMAIN u, i # 1 PROVE \E j \in DOMAIN v : v[j] = u[i]
  <2>1. i - 1 \in DOMAIN v /\ (i - 1) + 1 = i
    BY <1>2, <1>3
  <2> QED
    BY <1>2, <2>1
<1> QED
  BY <1>1, <1>2, <1>3

LEMMA TidyTail ==
  ASSUME NEW f, NEW w, NEW s, NEW d, NEW u \in Seq(UpMsgs), u # <<>>, Tidy(f, w, s, d, u)
  PROVE  LET v == Tail(u) IN
         /\ \A w2 : (w2.key = w.key /\ w2.mode # "none") /\ w.mode # "none" => Own(f, w2, s, d, v)
         /\ Own(f, w, s, d, v)
         /\ f \notin w.hasty => LateUp(w, v)
         /\ \A c : Played(v, c) => Played(u, c)
         /\ \A c : Played(u, c) => \/ Played(v, c)
                                   \/ Head(u).kind = "TURN" /\ Head(u).chid = c
<1>1. PICK v : v = Tail(u)
  OBVIOUS
<1>2. /\ \A i \in DOMAIN v : i + 1 \in DOMAIN u /\ v[i] = u[i + 1]
      /\ \A i, j \in DOMAIN v : i + 1 = j + 1 => i = j
      /\ 1 \in DOMAIN u /\ u[1] = Head(u)
      /\ \A i \in DOMAIN u : i = 1 \/ \E j \in DOMAIN v : v[j] = u[i]
  BY <1>1, TailUp
<1>3. \A i \in DOMAIN v : v[i].kind = "TURN" => v[i].user = f /\ v[i].key = f
  BY <1>2 DEF Tidy, Own
<1>4. Own(f, w, s, d, v)
  BY <1>3 DEF Tidy, Own
<1>5. \A w2 : (w2.key = w.key /\ w2.mode # "none") /\ w.mode # "none" => Own(f, w2, s, d, v)
  BY <1>4 DEF Own
<1>6. \A c : Played(v, c) => Played(u, c)
  BY <1>2 DEF Played
<1>7. \A c : Played(u, c) => Played(v, c) \/ (Head(u).kind = "TURN" /\ Head(u).chid = c)
  BY <1>2 DEF Played
<1>8. ASSUME f \notin w.hasty PROVE LateUp(w, v)
  <2>1. LateUp(w, u)
    BY <1>8 DEF Tidy
  <2>2. \A i \in DOMAIN v : v[i].kind = "TURN" => Prompt(w, v[i])
    BY <1>2, <2>1 DEF LateUp
  <2>3. ASSUME NEW i \in DOMAIN v, NEW j \in DOMAIN v, v[i].kind = "TURN", v[j].kind = "TURN",
               v[i].chid = v[j].chid, v[i].chid \in w.live
        PROVE  i = j
    <3>1. i + 1 = j + 1
      BY <1>2, <2>1, <2>3 DEF LateUp
    <3> QED
      BY <1>2, <3>1
  <2> QED
    BY <2>2, <2>3 DEF LateUp
<1> QED
  BY <1>1, <1>4, <1>5, <1>6, <1>7, <1>8

(* The handler takes a message of the player that is not the action it     *)
(* waits for, or is. *)
LEMMA TidyTakes ==
  ASSUME NEW f, NEW w, NEW s, NEW d, NEW u \in Seq(UpMsgs), u # <<>>, Tidy(f, w, s, d, u),
         ~ (Head(u).kind = "TURN" /\ w.mode = "wait" /\ Head(u).chid = w.c)
  PROVE  Tidy(f, w, s, d, Tail(u))
<1>1. PICK v : v = Tail(u)
  OBVIOUS
<1>2. /\ Own(f, w, s, d, v) /\ (f \notin w.hasty => LateUp(w, v))
      /\ Played(v, w.c) => Played(u, w.c)
      /\ w.mode = "wait" => (Played(u, w.c) => Played(v, w.c))
  BY <1>1, TidyTail
<1>3. Go(f, w, s, d, v)
  BY <1>2 DEF Tidy, Go
<1>4. GoesOn(w, w)
  BY DEF GoesOn
<1>5. LateDown(f, w, s, d, u) => LateDown(f, w, s, d, v)
  BY <1>2, <1>4, LateGoesOn DEF LateDown
<1> QED
  BY <1>1, <1>2, <1>3, <1>5 DEF Tidy

LEMMA TidyNotes ==
  ASSUME NEW f, NEW w, NEW s, NEW d, NEW u \in Seq(UpMsgs), u # <<>>, Tidy(f, w, s, d, u),
         Head(u).kind = "TURN", w.mode = "wait", Head(u).chid = w.c, w.c \in w.live,
         NEW w2, w2.mode = "noted", w2.key = w.key, w2.live = w.live, w2.drawn = w.drawn,
         w2.hasty = w.hasty
  PROVE  Tidy(f, w2, s, d, Tail(u))
<1>1. PICK v : v = Tail(u)
  OBVIOUS
<1>2. Own(f, w2, s, d, v) /\ (f \notin w.hasty => LateUp(w, v))
  BY <1>1, TidyTail
<1>3. Go(f, w2, s, d, v)
  BY DEF Go
<1>4. /\ 1 \in DOMAIN u /\ u[1] = Head(u)
      /\ \A i \in DOMAIN v : i + 1 \in DOMAIN u /\ v[i] = u[i + 1] /\ i + 1 # 1
  BY <1>1, TailUp
<1>5. Played(u, w.c)
  BY <1>4 DEF Played
<1>6. LateDown(f, w, s, d, u) => LateDown(f, w2, s, d, v)
  BY <1>5, LateNoted DEF LateDown
<1>7. ASSUME f \notin w.hasty PROVE LateUp(w2, v)
  <2>1. LateUp(w, u) /\ LateUp(w, v)
    BY <1>2, <1>7 DEF Tidy
  <2>2. ASSUME NEW i \in DOMAIN v, v[i].kind = "TURN"
        PROVE  v[i].chid \in w.drawn /\ v[i].chid \notin w.live
    <3>1. Prompt(w, v[i])
      BY <2>1, <2>2 DEF LateUp
    <3>2. SUFFICES ASSUME v[i].chid \in w.live PROVE FALSE
      BY <3>1 DEF Prompt
    <3>3. v[i].chid = w.c
      BY <3>1, <3>2 DEF Prompt
    <3>4. i + 1 = 1
      BY <1>4, <2>1, <2>2, <3>2, <3>3 DEF LateUp
    <3> QED
      BY <1>4, <3>4
  <2> QED
    BY <2>2 DEF LateUp, Prompt
<1> QED
  BY <1>1, <1>2, <1>3, <1>6, <1>7 DEF Tidy

(* The client's steps.  v is u with no action more; or with none less. *)
NoMore(u, v) ==
  \A i \in DOMAIN v : v[i].kind = "TURN" => i \in DOMAIN u /\ v[i] = u[i]
NoLess(u, v) == \A i \in DOMAIN u : i \in DOMAIN v /\ v[i] = u[i]

LEMMA UpNoMore ==
  ASSUME NEW u, NEW v, NoMore(u, v)
  PROVE  /\ \A w : LateUp(w, u) => LateUp(w, v)
         /\ \A c : Played(v, c) => Played(u, c)
<1>1. ASSUME NEW w, LateUp(w, u) PROVE LateUp(w, v)
  <2>1. \A i \in DOMAIN v : v[i].kind = "TURN" => Prompt(w, v[i])
    BY <1>1 DEF LateUp, NoMore
  <2>2. ASSUME NEW i \in DOMAIN v, NEW j \in DOMAIN v, v[i].kind = "TURN", v[j].kind = "TURN",
               v[i].chid = v[j].chid, v[i].chid \in w.live
        PROVE  i = j
    <3>1. i \in DOMAIN u /\ v[i] = u[i] /\ j \in DOMAIN u /\ v[j] = u[j]
      BY <2>2 DEF NoMore
    <3> QED
      BY <1>1, <2>2, <3>1 DEF LateUp
  <2> QED
    BY <2>1, <2>2 DEF LateUp
<1>2. \A c : Played(v, c) => Played(u, c)
  BY DEF Played, NoMore
<1> QED
  BY <1>1, <1>2

LEMMA UpNoLess ==
  ASSUME NEW u, NEW v, NoLess(u, v) PROVE \A c : Played(u, c) => Played(v, c)
BY DEF Played, NoLess

(* Nothing but what is in d. *)
Among(e, d) == \A i \in DOMAIN e : \E j \in DOMAIN d : e[i] = d[j]

(* The session has ended, or is back at the nickname. *)
LEMMA TidyEnds ==
  ASSUME NEW f, NEW w, NEW s, NEW d, NEW u, Tidy(f, w, s, d, u),
         NEW t, t.phase \notin {"WAIT_MSG", "MAIN"},
         NEW e, Among(e, d), NEW v, NoMore(u, v)
  PROVE  Tidy(f, w, t, e, v)
<1>1. Own(f, w, t, e, v)
  BY DEF Tidy, Own, NoMore, Among
<1>2. \A x, q : ~ ReadsOf(f, t, e, x, q)
  BY DEF ReadsOf, Ready
<1>3. Go(f, w, t, e, v) /\ LateDown(f, w, t, e, v)
  BY <1>2 DEF Go, LateDown
<1> QED
  BY <1>1, <1>3, UpNoMore DEF Tidy

LEMMA MainReads ==
  ASSUME NEW f, NEW s, s.phase = "MAIN", NEW d
  PROVE  \A t, q : ReadsOf(f, s, d, t, q) <=> t = s /\ q = d
BY DEF ReadsOf, Ready

LEMMA MainTidy ==
  ASSUME NEW f, NEW w, NEW s, s.phase = "MAIN", NEW d, NEW u
  PROVE  /\ LateDown(f, w, s, d, u) <=> Late(w, u, s, d)
         /\ Go(f, w, s, d, u) <=>
              (w.mode = "wait" => Played(u, w.c) \/ Open(After(s, d)))
<1>1. \A t, q : ReadsOf(f, s, d, t, q) <=> t = s /\ q = d
  BY MainReads
<1>2. s.phase # "WAIT_MSG"
  OBVIOUS
<1> QED
  BY <1>1, <1>2 DEF LateDown, Go

(* A popup comes or goes. *)
LEMMA TidyPopup ==
  ASSUME NEW f, NEW w, NEW s \in Sessions, s.phase = "MAIN", NEW d \in Seq(DownMsgs), NEW u,
         Tidy(f, w, s, d, u),
         NEW t \in Sessions, t.phase = "MAIN", t.key = s.key, t.chid = s.chid,
         SamePoints(s, t), Open(t) <=> Open(s), NEW v, NoMore(u, v), NoLess(u, v)
  PROVE  Tidy(f, w, t, d, v)
<1>1. Own(f, w, t, d, v)
  BY DEF Tidy, Own, NoMore
<1>2. \A c : Played(v, c) <=> Played(u, c)
  BY UpNoMore, UpNoLess
<1>3. Go(f, w, s, d, u) => Go(f, w, t, d, v)
  BY <1>2, MainTidy, OpenTrails
<1>4. LateDown(f, w, s, d, u) => LateDown(f, w, t, d, v)
  BY <1>2, MainTidy, LateTrails
<1> QED
  BY <1>1, <1>3, <1>4, UpNoMore DEF Tidy

(* The session takes a message. *)
LEMMA TidyReceives ==
  ASSUME NEW f, NEW w, NEW s \in Sessions, s.phase = "MAIN", NEW d \in Seq(DownMsgs),
         d # <<>>, NEW u, Tidy(f, w, s, d, u),
         NEW t, t = Handled(s, Head(d)), t.phase = "MAIN", t.key = s.key,
         NEW v, NoMore(u, v), NoLess(u, v)
  PROVE  Tidy(f, w, t, Tail(d), v)
<1>1. PICK e, m : e = Tail(d) /\ m = Head(d)
  OBVIOUS
<1>2. /\ e \in Seq(DownMsgs) /\ m \in DownMsgs
      /\ \A i \in DOMAIN e : i + 1 \in DOMAIN d /\ e[i] = d[i + 1]
  BY <1>1
<1>3. t \in Sessions
  BY <1>1, <1>2, HandledType
<1>4. Own(f, w, t, e, v)
  BY <1>2 DEF Tidy, Own, NoMore
<1>5. \A c : Played(v, c) <=> Played(u, c)
  BY UpNoMore, UpNoLess
<1>6. After(s, d) = After(t, e)
  BY <1>1, AfterHead
<1>7. Go(f, w, s, d, u) => Go(f, w, t, e, v)
  BY <1>5, <1>6, MainTidy
<1>8. GoesOn(w, w)
  BY DEF GoesOn
<1>9. Late(w, u, s, d) => Late(w, v, t, e)
  BY <1>1, <1>5, <1>8, LateHead, LateGoesOn
<1>10. LateDown(f, w, s, d, u) => LateDown(f, w, t, e, v)
  BY <1>9, MainTidy
<1> QED
  BY <1>1, <1>4, <1>7, <1>10, UpNoMore DEF Tidy

(* The nickname is entered, and answered. *)
LEMMA TidyLogin ==
  ASSUME NEW f, NEW w, NEW s, NEW u, Tidy(f, w, s, <<>>, u), w.mode = "none",
         NEW t, t.phase = "WAIT_MSG", NEW v, NoMore(u, v)
  PROVE  Tidy(f, w, t, <<>>, v)
<1>1. Own(f, w, t, <<>>, v)
  BY DEF Tidy, Own, NoMore
<1>2. \A x, q : ~ ReadsOf(f, t, <<>>, x, q)
  BY DEF ReadsOf
<1>3. Go(f, w, t, <<>>, v) /\ LateDown(f, w, t, <<>>, v)
  BY <1>2 DEF Go, LateDown
<1> QED
  BY <1>1, <1>3, UpNoMore DEF Tidy

LEMMA TidyAnswered ==
  ASSUME NEW f \in Fds, NEW w, NEW s, s.phase = "WAIT_MSG",
         NEW d \in Seq(DownMsgs), d # <<>>, NEW u, Tidy(f, w, s, d, u),
         NEW r, r = Head(d), r.kind = "JOIN_R", r.error = "ME_OK",
         NEW acted \in UnsetActed, NEW state \in UserStates,
         NEW t, t = New(f, r.key, acted, state)
  PROVE  Tidy(f, w, t, Tail(d), u)
<1>1. PICK e : e = Tail(d)
  OBVIOUS
<1>2. /\ e \in Seq(DownMsgs) /\ 1 \in DOMAIN d /\ d[1] = r /\ r \in DownMsgs
      /\ \A i \in DOMAIN e : i + 1 \in DOMAIN d /\ e[i] = d[i + 1]
  BY <1>1
<1>3. r.key = f /\ f \in AnyKey
  BY <1>2 DEF Tidy, Own, AnyKey
<1>4. t.phase = "MAIN" /\ t.key = f
  BY <1>3, NewIs DEF New, NewSession
<1>5. acted \in BOOLEAN
  BY UnsetAssumption
<1>6. ReadsOf(f, s, d, t, e)
  BY <1>1, <1>3, <1>5, Zenon DEF ReadsOf, Ready
<1>7. Own(f, w, t, e, u)
  BY <1>2, <1>4 DEF Tidy, Own
<1>8. Go(f, w, t, e, u)
  BY <1>4, <1>6, MainTidy DEF Tidy, Go
<1>9. f \notin w.hasty => LateDown(f, w, t, e, u)
  BY <1>4, <1>6, MainTidy DEF Tidy, LateDown
<1> QED
  BY <1>1, <1>7, <1>8, <1>9 DEF Tidy

(* Messages that keep the turn, of a session that knows its battle. *)
LEMMA FirmStill ==
  ASSUME NEW q \in Seq(DownMsgs), Firm(q),
         ~ \E i \in DOMAIN q : q[i].kind = "TURN_R" \/ Seals(q[i])
  PROVE  Still(q, 0)
<1>1. PICK k \in 0 .. Len(q) : FirmFrom(q, k)
  BY DEF Firm
<1>2. k = 0
  <2>1. k # 0 => k \in DOMAIN q
    OBVIOUS
  <2> QED
    BY <1>1, <2>1 DEF FirmFrom
<1>3. \A i \in DOMAIN q : i > 0
  OBVIOUS
<1> QED
  BY <1>1, <1>2, <1>3 DEF FirmFrom, Still, Mild

(* The player acts. *)
LEMMA TidyActs ==
  ASSUME NEW f, NEW w, NEW s \in Sessions, s.phase = "MAIN", NEW d \in Seq(DownMsgs),
         NEW u \in Seq(UpMsgs), Tidy(f, w, s, d, u), Open(s),
         w.mode = "wait" => /\ w.c \in w.live /\ Firm(d)
                            /\ After(s, d).chid = w.c /\ After(s, d).turn_no = w.n,
         s.hp = 0 => f \in w.hasty,
         NEW t \in Sessions, t.phase = "MAIN", t.key = s.key, t.chid = s.chid, ~ Open(t),
         SamePoints(s, t), NEW m \in UpMsgs, m.kind = "TURN", m.user = f, m.key = f,
         m.chid = s.chid, m.turn_no = s.turn_no
  PROVE  Tidy(f, w, t, d, Append(u, m))
<1>1. PICK v, n : v = Append(u, m) /\ n = Len(u) + 1
  OBVIOUS
<1>2. /\ DOMAIN v = DOMAIN u \cup {n} /\ v[n] = m /\ n \notin DOMAIN u
      /\ \A i \in DOMAIN u : v[i] = u[i]
  BY <1>1
<1>3. \A i \in DOMAIN v : v[i].kind = "TURN" => v[i].user = f /\ v[i].key = f
  BY <1>2 DEF Tidy, Own
<1>4. Own(f, w, t, d, v)
  BY <1>3 DEF Tidy, Own
<1>5. /\ \A c : Played(v, c) => Played(u, c) \/ c = s.chid
      /\ \A c : Played(u, c) \/ c = s.chid => Played(v, c)
  BY <1>2 DEF Played
<1>6. ASSUME w.mode = "wait", ~ Played(v, w.c) PROVE Open(After(t, d))
  <2>1. ~ Played(u, w.c) /\ w.c # s.chid
    BY <1>5, <1>6
  <2>2. Open(After(s, d))
    BY <1>6, <2>1, MainTidy DEF Tidy
  <2>3. \E i \in DOMAIN d : d[i].kind = "TURN_R" \/ Seals(d[i])
    <3>1. ~ Still(d, 0)
      BY <1>6, <2>1, OpenStill
    <3> QED
      BY <1>6, <3>1, FirmStill
  <2> QED
    BY <2>2, <2>3, OpenTrails
<1>7. Go(f, w, t, d, v)
  BY <1>6, MainTidy
<1>8. ASSUME f \notin w.hasty PROVE Late(w, u, s, d) /\ LateUp(w, u) /\ Aware(s)
  BY <1>8, MainTidy DEF Tidy, Aware
<1>9. f \notin w.hasty => Late(w, v, t, d)
  BY <1>5, <1>8, LateTrails
<1>10. ASSUME f \notin w.hasty PROVE LateUp(w, v)
  <2>1. 0 \in 0 .. Len(d) /\ SubSeq(d, 1, 0) = <<>> /\ After(s, <<>>) = s
    BY AfterEmpty
  <2>2. May(w, u, d, 0, <<>>, s)
    BY <1>8, <1>10, <2>1 DEF Late
  <2>3. /\ m.chid \in w.drawn
        /\ m.chid \in w.live =>
             w.mode = "wait" /\ m.chid = w.c /\ ~ Played(u, w.c) /\ Still(d, 0)
    BY <1>8, <1>10, <2>2 DEF May
  <2>4. m.chid \in w.live => m.turn_no = w.n
    BY <2>3, OpenStill
  <2>5. Prompt(w, m)
    BY <2>3, <2>4 DEF Prompt
  <2>6. \A i \in DOMAIN v : v[i].kind = "TURN" => Prompt(w, v[i])
    BY <1>2, <1>8, <1>10, <2>5 DEF LateUp
  <2>7. ASSUME NEW i \in DOMAIN v, NEW j \in DOMAIN v, v[i].kind = "TURN", v[j].kind = "TURN",
               v[i].chid = v[j].chid, v[i].chid \in w.live
        PROVE  i = j
    <3>1. CASE i \in DOMAIN u /\ j \in DOMAIN u
      BY <1>2, <1>8, <1>10, <2>7, <3>1 DEF LateUp
    <3>2. ASSUME NEW k \in DOMAIN u, u[k].kind = "TURN", u[k].chid = m.chid, m.chid \in w.live
          PROVE  FALSE
      BY <2>3, <3>2 DEF Played
    <3> QED
      BY <1>2, <2>7, <3>1, <3>2
  <2> QED
    BY <2>6, <2>7 DEF LateUp
<1>11. f \notin w.hasty => LateDown(f, w, t, d, v)
  BY <1>9, MainTidy
<1> QED
  BY <1>1, <1>4, <1>7, <1>10, <1>11 DEF Tidy

TurnsInv(H) ==
  \A f \in Fds :
    Tidy(f, World(H, f, user_by_id, ch_by_id, drawn), session[f], down[f], up[f])

(* The same after the step; H stays as it is. *)
TurnsKept(H) ==
  \A f \in Fds :
    Tidy(f, World(H, f, user_by_id', ch_by_id', drawn'), session'[f], down'[f], up'[f])

(* What a handler has left so far: d on its way to the clients, v from     *)
(* them, and users, challenges and ids as given. *)
Kept(H, d, v, users, chs, dr) ==
  /\ d \in [Fds -> Seq(DownMsgs)]
  /\ \A f \in Fds : Tidy(f, World(H, f, users, chs, dr), session[f], d[f], v[f])

LEMMA KeptTurns ==
  ASSUME NEW H, UNCHANGED session, Kept(H, down', up', user_by_id', ch_by_id', drawn')
  PROVE  TurnsKept(H)
BY DEF Kept, TurnsKept

LEMMA KeptTakes ==
  ASSUME NEW H, LoginInv, TurnsInv(H), NEW fd \in Fds, NEW kind, Takes(fd, kind),
         LET w == World(H, fd, user_by_id, ch_by_id, drawn) IN
         ~ (kind = "TURN" /\ w.mode = "wait" /\ Head(up[fd]).chid = w.c)
  PROVE  Kept(H, down, up', user_by_id, ch_by_id, drawn)
<1>1. up \in [Fds -> Seq(UpMsgs)] /\ down \in [Fds -> Seq(DownMsgs)]
  BY DEF LoginInv, TypeOK, ChannelsTypeOK
<1>2. PICK u \in Seq(UpMsgs) : u = up[fd] /\ u # <<>> /\ Head(u).kind = kind
  BY <1>1 DEF Takes
<1>3. up'[fd] = Tail(u) /\ \A f \in Fds \ {fd} : up'[f] = up[f]
  BY <1>1, <1>2 DEF Takes
<1>4. PICK w : w = World(H, fd, user_by_id, ch_by_id, drawn)
  OBVIOUS
<1>5. Tidy(fd, w, session[fd], down[fd], u)
  BY <1>2, <1>4 DEF TurnsInv
<1>6. Tidy(fd, w, session[fd], down[fd], Tail(u))
  BY <1>2, <1>4, <1>5, TidyTakes
<1>7. ASSUME NEW f \in Fds
      PROVE  Tidy(f, World(H, f, user_by_id, ch_by_id, drawn), session[f], down[f], up'[f])
  <2>1. f # fd => up'[f] = up[f]
    BY <1>3
  <2> QED
    BY <1>3, <1>4, <1>6, <2>1 DEF TurnsInv
<1> QED
  BY <1>1, <1>7 DEF Kept

LEMMA KeptMild ==
  ASSUME NEW H, LoginInv, NEW d, NEW v, NEW users, NEW chs, NEW dr, Kept(H, d, v, users, chs, dr),
         NEW to \in Fds, NEW fds, NEW m \in DownMsgs, Mild(m),
         m.kind = "JOIN_R" => m.error # "ME_OK"
  PROVE  /\ Kept(H, Send(d, to, m), v, users, chs, dr)
         /\ Kept(H, SendAll(d, fds, m), v, users, chs, dr)
<1>0. d \in [Fds -> Seq(DownMsgs)] /\ session \in [Fds -> Sessions]
  BY DEF Kept, LoginInv, TypeOK, ClientTypeOK
<1>1. ASSUME NEW S PROVE Kept(H, SendAll(d, S, m), v, users, chs, dr)
  <2>1. PICK e : e = SendAll(d, S, m)
    OBVIOUS
  <2>2. e \in [Fds -> Seq(DownMsgs)]
    BY <1>0, <2>1, SendAllType
  <2>3. ASSUME NEW f \in Fds PROVE Tidy(f, World(H, f, users, chs, dr), session[f], e[f], v[f])
    <3>1. PICK w : w = World(H, f, users, chs, dr)
      OBVIOUS
    <3>2. PICK s \in Sessions, q \in Seq(DownMsgs) : s = session[f] /\ q = d[f]
      BY <1>0
    <3>3. PICK u : u = v[f]
      OBVIOUS
    <3>4. Tidy(f, w, s, q, u)
      BY <3>1, <3>2, <3>3 DEF Kept
    <3>5. Tidy(f, w, s, Append(q, m), u)
      BY <3>4, TidyMild
    <3>6. e[f] = Append(q, m) \/ e[f] = q
      BY <2>1, <3>2 DEF SendAll
    <3> QED
      BY <3>1, <3>2, <3>3, <3>4, <3>5, <3>6
  <2> QED
    BY <2>1, <2>2, <2>3 DEF Kept
<1> QED
  BY <1>0, <1>1, SendIsAll

LEMMA KeptBroadcast ==
  ASSUME NEW H, LoginInv, NEW d, NEW v, NEW users, NEW chs, NEW dr, Kept(H, d, v, users, chs, dr),
         NEW all, IsTree(all, Ids, UserInfos), NEW ids \in SUBSET DOMAIN all
  PROVE  Kept(H, broadcast_user_changes(d, all, ids), v, users, chs, dr)
<1>1. PICK m : m = Uchange(Part(all, ids))
  OBVIOUS
<1>2. Part(all, ids) \in SUBSET Infos
  BY InfoType DEF Part
<1>3. m \in DownMsgs /\ m.kind = "UCHANGE"
  BY <1>1, <1>2, UchangeType DEF Uchange
<1>4. Mild(m)
  BY <1>3 DEF Mild, Seals
<1>5. Kept(H, SendAll(d, FdsOf(all), m), v, users, chs, dr)
  <2>1. CASE Fds = {}
    <3>1. SendAll(d, FdsOf(all), m) = d
      BY <2>1 DEF SendAll, Kept
    <3> QED
      BY <3>1
  <2>2. CASE Fds # {}
    BY <1>3, <1>4, <2>2, KeptMild
  <2> QED
    BY <2>1, <2>2
<1> QED
  BY <1>1, <1>5 DEF broadcast_user_changes, Part

(* A player's battle stays, and challenges come and go. *)
Stays(f, users, chs, users2, chs2) ==
  /\ f \in DOMAIN users2 <=> f \in DOMAIN users
  /\ f \in DOMAIN users =>
       /\ users2[f].key = users[f].key
       /\ users2[f].state = "UBATTLING" <=> users[f].state = "UBATTLING"
       /\ users[f].state = "UBATTLING" =>
            LET ch == chs[users[f].chid]
                ch2 == chs2[users[f].chid]
            IN  /\ users2[f].chid = users[f].chid
                /\ ch2.turn_no = ch.turn_no /\ ActIn(ch2, f) = ActIn(ch, f)

LEMMA StaysGoesOn ==
  ASSUME NEW H, NEW f, NEW users, NEW chs, NEW dr, NEW users2, NEW chs2, NEW dr2,
         Stays(f, users, chs, users2, chs2), Moves(chs, dr, chs2, dr2)
  PROVE  GoesOn(World(H, f, users, chs, dr), World(H, f, users2, chs2, dr2))
<1>1. PICK w, w2 : w = World(H, f, users, chs, dr) /\ w2 = World(H, f, users2, chs2, dr2)
  OBVIOUS
<1>2. w2.mode = w.mode
  BY <1>1 DEF Stays, World, Place
<1>3. w.mode # "none" => w2.key = w.key
  BY <1>1 DEF Stays, World, Place
<1>4. w.mode = "wait" => w2.c = w.c /\ w2.n = w.n
  BY <1>1 DEF Stays, World, Place
<1>5. /\ w.drawn \subseteq w2.drawn /\ w2.live \cap w.drawn \subseteq w.live
      /\ w.hasty \subseteq w2.hasty
  BY <1>1 DEF Moves, World
<1> QED
  BY <1>1, <1>2, <1>3, <1>4, <1>5 DEF GoesOn

LEMMA KeptGoesOn ==
  ASSUME NEW H, NEW d, NEW v, NEW users, NEW chs, NEW dr, Kept(H, d, v, users, chs, dr),
         NEW users2, NEW chs2, NEW dr2, Moves(chs, dr, chs2, dr2),
         \A f \in Fds : Stays(f, users, chs, users2, chs2)
  PROVE  Kept(H, d, v, users2, chs2, dr2)
<1>1. ASSUME NEW f \in Fds
      PROVE  Tidy(f, World(H, f, users2, chs2, dr2), session[f], d[f], v[f])
  <2>1. PICK w, w2 : w = World(H, f, users, chs, dr) /\ w2 = World(H, f, users2, chs2, dr2)
    OBVIOUS
  <2>2. GoesOn(w, w2)
    BY <2>1, StaysGoesOn
  <2>3. Tidy(f, w, session[f], d[f], v[f])
    BY <2>1 DEF Kept
  <2> QED
    BY <2>1, <2>2, <2>3, TidyGoesOn
<1> QED
  BY <1>1 DEF Kept

(* What the server knows of who it waits for, and of an action it takes.   *)
LEMMA WaitsFor ==
  ASSUME NEW H, LoginInv, BattleInv, NEW f \in Fds,
         World(H, f, user_by_id, ch_by_id, drawn).mode \in {"wait", "noted"}
  PROVE  LET c == user_by_id[f].chid IN
         /\ f \in DOMAIN user_by_fd /\ f \in DOMAIN user_by_id
         /\ user_by_id[f].state = "UBATTLING"
         /\ c \in DOMAIN ch_by_id /\ ch_by_id[c].state = "STARTED"
         /\ f \in {ch_by_id[c].user1, ch_by_id[c].user2}
<1>1. f \in DOMAIN user_by_id /\ user_by_id[f].state = "UBATTLING"
  BY DEF World, Place
<1>2. f \in DOMAIN user_by_fd
  BY <1>1, KnownFds
<1> QED
  BY <1>1, <1>2, Fighter

LEMMA TurnTakes ==
  ASSUME NEW H, LoginInv, TurnsInv(H), NEW fd \in Fds, Takes(fd, "TURN")
  PROVE  LET m == Head(up[fd]) IN
         /\ m.user = fd /\ m.key = fd
         /\ fd \in DOMAIN user_by_id => user_by_id[fd].key = fd
<1>1. PICK u \in Seq(UpMsgs) : u = up[fd] /\ u # <<>> /\ Head(u).kind = "TURN"
  BY DEF LoginInv, TypeOK, ChannelsTypeOK, Takes
<1>2. PICK w : w = World(H, fd, user_by_id, ch_by_id, drawn)
  OBVIOUS
<1>3. Own(fd, w, session[fd], down[fd], u)
  BY <1>1, <1>2 DEF TurnsInv, Tidy
<1>4. 1 \in DOMAIN u /\ u[1] = Head(u)
  BY <1>1, TailUp
<1>5. fd \in DOMAIN user_by_id => w.mode # "none" /\ w.key = user_by_id[fd].key
  BY <1>2 DEF World, Place
<1> QED
  BY <1>1, <1>3, <1>4, <1>5 DEF Own

(* The handlers that judge no turn.  An action that is waited for is not   *)
(* ignored. *)
LEMMA SilentTurns ==
  ASSUME NEW H, LoginInv, BattleInv, TurnsInv(H), NEW fd \in Fds, UNCHANGED session,
         \/ HandleChallengeIgnored(fd) \/ HandleStartNoId(fd)
         \/ HandleDisconnectUnknown(fd) \/ HandleTurnIgnored(fd)
         \/ HandleQuit(fd) /\ ~ Known(Head(up[fd]).id, Head(up[fd]).key)
  PROVE  TurnsKept(H)
<1>1. UNCHANGED <<down, user_by_id, ch_by_id, drawn>>
  BY DEF HandleChallengeIgnored, HandleStartNoId, HandleDisconnectUnknown,
         HandleTurnIgnored, HandleQuit, serverVars, trees
<1>2. ASSUME NEW kind, Takes(fd, kind), kind # "TURN" PROVE TurnsKept(H)
  <2>1. Kept(H, down, up', user_by_id, ch_by_id, drawn)
    BY <1>2, KeptTakes
  <2> QED
    BY <1>1, <2>1, KeptTurns
<1>3. CASE HandleTurnIgnored(fd)
  <2>1. Takes(fd, "TURN") /\ ~ TurnTaken(Head(up[fd]))
    BY <1>3 DEF HandleTurnIgnored
  <2>2. PICK m : m = Head(up[fd])
    OBVIOUS
  <2>3. PICK w : w = World(H, fd, user_by_id, ch_by_id, drawn)
    OBVIOUS
  <2>4. ~ (w.mode = "wait" /\ m.chid = w.c)
    <3>1. SUFFICES ASSUME w.mode = "wait", m.chid = w.c PROVE FALSE
      OBVIOUS
    <3>2. fd \in DOMAIN user_by_id /\ user_by_id[fd].chid \in DOMAIN ch_by_id
      BY <2>3, <3>1, WaitsFor
    <3>3. w.c = user_by_id[fd].chid
      BY <2>3 DEF World
    <3>4. m.user = fd /\ m.key = fd /\ user_by_id[fd].key = fd
      BY <2>1, <2>2, <3>2, TurnTakes
    <3> QED
      BY <2>1, <2>2, <3>1, <3>2, <3>3, <3>4 DEF TurnTaken, Known
  <2>5. Kept(H, down, up', user_by_id, ch_by_id, drawn)
    BY <2>1, <2>2, <2>3, <2>4, KeptTakes
  <2> QED
    BY <1>1, <2>5, KeptTurns
<1> QED
  BY <1>2, <1>3 DEF HandleChallengeIgnored, HandleStartNoId, HandleDisconnectUnknown, HandleQuit

LEMMA AnswerTurns ==
  ASSUME NEW H, LoginInv, TurnsInv(H), NEW fd \in Fds, UNCHANGED session,
         HandleChallengeError(fd) \/ HandleSendmsg(fd) \/ HandleJoinRefused(fd)
  PROVE  TurnsKept(H)
<1>0. TypeOK
  BY DEF LoginInv
<1>1. UNCHANGED <<user_by_id, ch_by_id, drawn>>
  BY DEF HandleChallengeError, HandleSendmsg, HandleJoinRefused, serverVars, trees
<1>2. Kept(H, down, up', user_by_id, ch_by_id, drawn)
  <2>1. Takes(fd, "CHALLENGE") \/ Takes(fd, "SENDMSG") \/ Takes(fd, "JOIN")
    BY DEF HandleChallengeError, HandleSendmsg, HandleJoinRefused
  <2> QED
    BY <2>1, KeptTakes
<1>3. ASSUME NEW m \in DownMsgs, NEW fds, Mild(m), m.kind = "JOIN_R" => m.error # "ME_OK",
             down' = Send(down, fd, m) \/ down' = SendAll(down, fds, m)
      PROVE  TurnsKept(H)
  <2>1. Kept(H, down', up', user_by_id, ch_by_id, drawn)
    BY <1>2, <1>3, KeptMild
  <2> QED
    BY <1>1, <2>1, KeptTurns
<1>4. CASE HandleChallengeError(fd)
  <2>1. PICK m \in Challenges : m = Head(up[fd])
    BY <1>0, <1>4, ChallengeFacts DEF HandleChallengeError
  <2>2. ChallengeError(m) \in {"NXID", "ICKEY", "ENGAGED", "CHLSELF", "NXCHID",
                               "CANCELLED", "REJECTED"}
    <3>1. ChallengeError(m) # "ME_OK"
      BY <1>4, <2>1 DEF HandleChallengeError
    <3>2. ChallengeError(m) \in {"ME_OK", "NXID", "ICKEY", "ENGAGED", "CHLSELF", "NXCHID",
                                 "CANCELLED", "REJECTED"}
      BY <2>1 DEF ChallengeError, Challenges
    <3> QED
      BY <3>1, <3>2
  <2>3. PICK r : r = ChallengeR(ChallengeError(m), m, FALSE)
    OBVIOUS
  <2>4. r \in DownMsgs /\ r.kind = "CHALLENGE_R" /\ down' = Send(down, fd, r)
    BY <1>4, <2>1, <2>2, <2>3, RefusalPlain DEF HandleChallengeError, ChallengeR
  <2>5. Mild(r)
    <3>1. r.kind = "CHALLENGE_R" /\ r.error # "ME_OK"
      BY <2>2, <2>3 DEF ChallengeR
    <3> QED
      BY <3>1 DEF Mild, Seals
  <2> QED
    BY <1>3, <2>4, <2>5
<1>5. CASE HandleSendmsg(fd)
  <2>1. PICK h \in SendMsgs : h = Head(up[fd])
    BY <1>0, <1>5, TakesType, UpKinds DEF HandleSendmsg, TypeOK
  <2>2. PICK m : m = [h EXCEPT !.key = 0]
    OBVIOUS
  <2>3. m \in DownMsgs /\ m.kind = "SENDMSG"
    BY <2>2 DEF SendMsgs, DownMsgs, AnyKey
  <2>4. down' = SendAll(down, FdsOf(user_by_id), m) \/ down' = down
    BY <1>5, <2>1, <2>2 DEF HandleSendmsg
  <2>5. Mild(m)
    BY <2>3 DEF Mild, Seals
  <2> QED
    BY <1>1, <1>2, <1>3, <2>3, <2>4, <2>5, KeptTurns
<1>6. CASE HandleJoinRefused(fd)
  <2>1. PICK stale \in Fds \cup {NoId} : \E err :
           /\ err = JoinError(Head(up[fd]).nick, stale) /\ err # "ME_OK"
           /\ down' = Send(down, fd, JoinR(err, NoId, 0))
    BY <1>6 DEF HandleJoinRefused
  <2>2. PICK err, r : /\ err = JoinError(Head(up[fd]).nick, stale) /\ r = JoinR(err, NoId, 0)
                      /\ down' = Send(down, fd, r) /\ err # "ME_OK"
    BY <2>1
  <2>3. err \in {"ME_OK", "TOOMANYUSER", "JOINTWICE", "DUPNICK", "ME_OTHER"}
    BY <2>2 DEF JoinError
  <2>4. r \in DownMsgs /\ r.kind = "JOIN_R" /\ r.error # "ME_OK"
    BY <2>2, <2>3 DEF JoinR, DownMsgs, AnyId, AnyKey
  <2>5. Mild(r)
    BY <2>4 DEF Mild, Seals
  <2> QED
    BY <1>3, <2>2, <2>4, <2>5
<1> QED
  BY <1>4, <1>5, <1>6

(* Challenges that nobody fights are withdrawn. *)
LEMMA WithdrawTurns ==
  ASSUME NEW H, LoginInv, BattleInv, TurnsInv(H), NEW fd \in Fds, UNCHANGED session,
         HandleCancel(fd) \/ HandleReject(fd)
  PROVE  TurnsKept(H)
<1>0. TypeOK
  BY DEF LoginInv
<1>1. Takes(fd, "CHALLENGE") /\ UNCHANGED drawn
  BY DEF HandleCancel, HandleReject
<1>2. PICK m \in Challenges : m = Head(up[fd])
  BY <1>0, <1>1, ChallengeFacts
<1>3. Kept(H, down, up', user_by_id, ch_by_id, drawn)
  BY <1>1, KeptTakes
<1>4. PICK c : /\ c \in DOMAIN ch_by_id => ch_by_id[c].state = "ASKING"
               /\ ch_by_id' = tdelete(ch_by_id, c)
               /\ \/ user_by_id' = user_by_id
                  \/ /\ m.id1 \in DOMAIN user_by_id /\ user_by_id[m.id1].state = "UONLINE"
                     /\ user_by_id' = [user_by_id EXCEPT ![m.id1].chid = NoId]
  <2>1. CASE HandleCancel(fd)
    <3>1. m.id1 \in DOMAIN user_by_id
      BY <1>0, <1>1, <1>2, <2>1, ChallengeFacts DEF HandleCancel, Valid
    <3> QED
      BY <1>2, <2>1, <3>1 DEF HandleCancel, Cancels
  <2>2. CASE HandleReject(fd)
    BY <1>2, <2>2 DEF HandleReject, Rejects, trees
  <2> QED
    BY <2>1, <2>2
<1>5. Moves(ch_by_id, drawn, ch_by_id', drawn')
  BY <1>1, <1>4, MovesDelete
<1>6. ASSUME NEW f \in Fds PROVE Stays(f, user_by_id, ch_by_id, user_by_id', ch_by_id')
  <2>1. DOMAIN user_by_id' = DOMAIN user_by_id
    BY <1>4
  <2>2. ASSUME f \in DOMAIN user_by_id
        PROVE  /\ user_by_id'[f].key = user_by_id[f].key
               /\ user_by_id'[f].state = user_by_id[f].state
               /\ user_by_id[f].state = "UBATTLING" => user_by_id'[f].chid = user_by_id[f].chid
    <3>1. user_by_id[f] \in UserInfos
      BY <1>0, <2>2 DEF TypeOK, ServerTypeOK, IsTree
    <3> QED
      BY <1>4, <2>2, <3>1 DEF UserInfos
  <2>3. ASSUME f \in DOMAIN user_by_id, user_by_id[f].state = "UBATTLING"
        PROVE  ch_by_id'[user_by_id[f].chid] = ch_by_id[user_by_id[f].chid]
    <3>1. f \in DOMAIN user_by_fd
      BY <2>3, KnownFds
    <3>2. user_by_id[f].chid \in DOMAIN ch_by_id /\ ch_by_id[user_by_id[f].chid].state = "STARTED"
      BY <2>3, <3>1, Fighter
    <3> QED
      BY <1>4, <3>2 DEF tdelete
  <2> QED
    BY <2>1, <2>2, <2>3 DEF Stays
<1>7. Kept(H, down, up', user_by_id', ch_by_id', drawn')
  BY <1>3, <1>5, <1>6, KeptGoesOn
<1>8. PICK r, to : /\ r \in DownMsgs /\ Mild(r) /\ r.kind # "JOIN_R"
                   /\ down' = down \/ (to \in Fds /\ down' = Send(down, to, r))
  <2>1. \A error \in {"CANCELLED", "REJECTED"} :
          LET r == ChallengeR(error, m, FALSE) IN
          r \in DownMsgs /\ Mild(r) /\ r.kind # "JOIN_R"
    BY RefusalPlain DEF ChallengeR, Mild, Seals
  <2>2. CASE HandleCancel(fd)
    <3>1. PICK user2 : user2 = ch_by_id[user_by_id[m.id1].chid].user2
      OBVIOUS
    <3>2. down' = IF user2 \in DOMAIN user_by_id
                    THEN Send(down, user_by_id[user2].fd, ChallengeR("CANCELLED", m, FALSE))
                    ELSE down
      BY <1>2, <2>2, <3>1 DEF HandleCancel
    <3>3. user2 \in DOMAIN user_by_id => user_by_id[user2].fd \in Fds
      BY KnownFds
    <3> QED
      BY <2>1, <3>2, <3>3
  <2>3. CASE HandleReject(fd)
    <3>1. m.id1 \in DOMAIN user_by_id
      BY <1>0, <1>1, <1>2, <2>3, ChallengeFacts DEF HandleReject, Rejects, Valid
    <3>2. user_by_id[m.id1].fd \in Fds
      BY <3>1, KnownFds
    <3>3. down' = Send(down, user_by_id[m.id1].fd, ChallengeR("REJECTED", m, FALSE))
      BY <1>2, <2>3 DEF HandleReject
    <3> QED
      BY <2>1, <3>2, <3>3
  <2> QED
    BY <2>2, <2>3
<1> QED
  BY <1>7, <1>8, KeptMild, KeptTurns

LEMMA KeptSend ==
  ASSUME NEW H, NEW d, NEW v, NEW users, NEW chs, NEW dr, Kept(H, d, v, users, chs, dr),
         NEW to \in Fds, NEW m \in DownMsgs,
         Tidy(to, World(H, to, users, chs, dr), session[to], Append(d[to], m), v[to])
  PROVE  Kept(H, Send(d, to, m), v, users, chs, dr)
<1>1. d \in [Fds -> Seq(DownMsgs)]
  BY DEF Kept
<1>2. PICK e : e = Send(d, to, m)
  OBVIOUS
<1>3. /\ e \in [Fds -> Seq(DownMsgs)] /\ e[to] = Append(d[to], m)
      /\ \A f \in Fds \ {to} : e[f] = d[f]
  BY <1>1, <1>2, SendType DEF Send
<1>4. ASSUME NEW f \in Fds PROVE Tidy(f, World(H, f, users, chs, dr), session[f], e[f], v[f])
  <2>1. CASE f = to
    BY <1>3, <2>1
  <2>2. CASE f # to
    BY <1>3, <2>2 DEF Kept
  <2> QED
    BY <2>1, <2>2
<1> QED
  BY <1>2, <1>3, <1>4 DEF Kept

(* The free user a challenge is sent to. *)
LEMMA StartTurns ==
  ASSUME NEW H, FreshIds, LoginInv, BattleInv, TurnsInv(H), NEW fd \in Fds, UNCHANGED session,
         HandleStart(fd)
  PROVE  TurnsKept(H)
<1>0. TypeOK /\ Takes(fd, "CHALLENGE") /\ session \in [Fds -> Sessions]
  BY DEF LoginInv, HandleStart, TypeOK, ClientTypeOK
<1>1. PICK m \in Challenges : m = Head(up[fd]) /\ Valid(m, "C_START")
                              /\ m.id1 \in DOMAIN user_by_id /\ m.id2 \in DOMAIN user_by_id
  BY <1>0, ChallengeFacts DEF HandleStart, Valid
<1>2. BothOnline(m)
  BY <1>1 DEF Valid, ChallengeError
<1>3. PICK c \in FreeChIds :
        /\ ch_by_id' = Put(ch_by_id, c, add_challenge(m))
        /\ user_by_id' = [user_by_id EXCEPT ![m.id1].chid = c]
        /\ down' = Send(down, user_by_id[m.id2].fd, [m EXCEPT !.chid = c])
  BY <1>1 DEF HandleStart
<1>4. Kept(H, down, up', user_by_id, ch_by_id, drawn)
  BY <1>0, KeptTakes
<1>5. Moves(ch_by_id, drawn, ch_by_id', drawn')
  BY StartFair DEF HandledFair
<1>6. /\ DOMAIN user_by_id' = DOMAIN user_by_id
      /\ \A f \in DOMAIN user_by_id : /\ user_by_id'[f].key = user_by_id[f].key
                                      /\ user_by_id'[f].state = user_by_id[f].state
                                      /\ f # m.id1 => user_by_id'[f] = user_by_id[f]
  <2>1. \A f \in DOMAIN user_by_id : user_by_id[f] \in UserInfos
    BY <1>0 DEF TypeOK, ServerTypeOK, IsTree
  <2> QED
    BY <1>1, <1>3, <2>1 DEF UserInfos
<1>7. ASSUME NEW f \in Fds PROVE Stays(f, user_by_id, ch_by_id, user_by_id', ch_by_id')
  <2>1. ASSUME f \in DOMAIN user_by_id, user_by_id[f].state = "UBATTLING"
        PROVE  /\ user_by_id'[f].chid = user_by_id[f].chid
               /\ ch_by_id'[user_by_id[f].chid] = ch_by_id[user_by_id[f].chid]
    <3>1. f \in DOMAIN user_by_fd
      BY <2>1, KnownFds
    <3>2. user_by_id[f].chid \in DOMAIN ch_by_id
      BY <2>1, <3>1, Fighter
    <3>3. user_by_id[f].chid # c
      BY <3>2 DEF FreeChIds
    <3>4. f # m.id1
      BY <1>2, <2>1 DEF BothOnline
    <3> QED
      BY <1>3, <1>6, <2>1, <3>2, <3>3, <3>4 DEF Put
  <2> QED
    BY <1>6, <2>1 DEF Stays
<1>8. Kept(H, down, up', user_by_id', ch_by_id', drawn')
  BY <1>4, <1>5, <1>7, KeptGoesOn
<1>9. PICK to, r : to = m.id2 /\ r = [m EXCEPT !.chid = c]
  OBVIOUS
<1>10. to \in Fds /\ to \in DOMAIN user_by_id /\ user_by_id[m.id2].fd = to
  BY <1>1, <1>9, KnownFds
<1>11. r \in DownMsgs /\ r.kind = "CHALLENGE"
  BY <1>9 DEF Challenges, DownMsgs, FreeChIds, AnyChId
<1>12. PICK w : w = World(H, to, user_by_id', ch_by_id', drawn')
  OBVIOUS
<1>13. w.mode = "idle"
  <2>1. user_by_id'[to].state = "UONLINE" /\ to \in DOMAIN user_by_id'
    BY <1>2, <1>6, <1>9, <1>10 DEF BothOnline
  <2> QED
    BY <1>12, <2>1 DEF World, Place
<1>14. PICK s, q, u : /\ s \in Sessions /\ q \in Seq(DownMsgs)
                      /\ s = session[to] /\ q = down[to] /\ u = up'[to]
  BY <1>0, <1>10, <1>4 DEF Kept
<1>15. Tidy(to, w, s, q, u)
  BY <1>8, <1>10, <1>12, <1>14 DEF Kept
<1>16. Tidy(to, w, s, Append(q, r), u)
  BY <1>10, <1>11, <1>13, <1>14, <1>15, TidyInvited
<1>17. Kept(H, Send(down, to, r), up', user_by_id', ch_by_id', drawn')
  BY <1>8, <1>10, <1>11, <1>12, <1>14, <1>16, KeptSend
<1> QED
  BY <1>3, <1>9, <1>10, <1>17, KeptTurns

(* A player joins, whose session may not act before it is invited. *)
LEMMA JoinOkTurns ==
  ASSUME NEW H, LoginInv, RosterInv, BattleInv, TurnsInv(H), NEW fd \in Fds, HandleJoinOk(fd),
         UNCHANGED session
  PROVE  TurnsKept(H)
<1>1. /\ down \in [Fds -> Seq(DownMsgs)] /\ Takes(fd, "JOIN") /\ TypeOK
      /\ IsTree(user_by_id, Ids, UserInfos) /\ Awake(user_by_id)
      /\ session \in [Fds -> Sessions] /\ UNCHANGED <<ch_by_id, drawn>>
  BY DEF LoginInv, TypeOK, ChannelsTypeOK, ServerTypeOK, ClientTypeOK, HandleJoinOk, RosterInv
<1>2. PICK nick \in Nicks : nick = Head(up[fd]).nick
  BY <1>1, TakesType, UpKinds DEF TypeOK
<1>3. PICK new \in UserInfos : new = user_create(fd, nick)
  BY NewUserType
<1>4. PICK users : users = Put(user_by_id, fd, new)
  OBVIOUS
<1>5. PICK j, m, told : /\ j = JoinR("ME_OK", fd, fd)
                        /\ m = Uchange({Info(fd, users[fd])})
                        /\ told = [down EXCEPT ![fd] = (@ \o <<j>>) \o AllUsers(users)]
  OBVIOUS
<1>6. down' = SendAll(told, FdsOf(users) \ {fd}, m) /\ user_by_id' = users
  BY <1>2, <1>3, <1>4, <1>5, IdFacts DEF HandleJoinOk
<1>7. fd \notin DOMAIN user_by_fd /\ down[fd] = <<>> /\ session[fd].phase \in {"WAIT_MSG", "GONE"}
  BY <1>1, JoinWaits
<1>8. fd \notin DOMAIN user_by_id /\ fd \in Ids
  BY <1>7, KnownFds, IdFacts
<1>9. /\ IsTree(users, Ids, UserInfos) /\ Awake(users)
      /\ fd \in DOMAIN users /\ users[fd].state = "UONLINE" /\ users[fd].key = fd
      /\ \A f \in Fds \ {fd} : /\ f \in DOMAIN users <=> f \in DOMAIN user_by_id
                               /\ f \in DOMAIN users => users[f] = user_by_id[f]
  <2>1. IsTree(users, Ids, UserInfos)
    BY <1>1, <1>4, <1>8, PutTree
  <2>2. new.state = "UONLINE" /\ new.key = fd
    BY <1>3 DEF user_create
  <2> QED
    BY <1>1, <1>4, <1>8, <2>1, <2>2 DEF Put, Awake
<1>10. j \in DownMsgs /\ j.kind = "JOIN_R" /\ j.key = fd
  BY <1>5, <1>8 DEF JoinR, DownMsgs, AnyId, AnyKey
<1>11. PICK q : q = <<j>> \o AllUsers(users)
  OBVIOUS
<1>12. q # <<>> /\ q \in Seq(DownMsgs) /\ \A i \in DOMAIN q : q[i] = j \/ q[i].kind = "UCHANGE"
  <2>1. Welcomes(fd, j, q, users)
    BY <1>9, <1>10, <1>11, FirstList
  <2> QED
    BY <2>1 DEF Welcomes
<1>13. Still(Tail(q), 0)
  <2>1. \A i \in DOMAIN q : Mild(q[i])
    BY <1>10, <1>12 DEF Mild, Seals
  <2>2. \A i \in DOMAIN Tail(q) : \E k \in DOMAIN q : Tail(q)[i] = q[k]
    BY <1>12, TailView
  <2> QED
    BY <2>1, <2>2 DEF Still
<1>14. told = [down EXCEPT ![fd] = q]
  <2>1. down[fd] \o <<j>> = <<j>>
    BY <1>7, <1>10
  <2> QED
    BY <1>1, <1>5, <1>11, <2>1
<1>15. Kept(H, down, up', user_by_id, ch_by_id, drawn)
  BY <1>1, KeptTakes
<1>16. PICK w, w2 : /\ w = World(H, fd, user_by_id, ch_by_id, drawn)
                    /\ w2 = World(H, fd, users, ch_by_id, drawn)
  OBVIOUS
<1>17. /\ w.mode = "none" /\ w2.mode = "idle" /\ w2.key = fd
       /\ w2.live = w.live /\ w2.drawn = w.drawn /\ w2.hasty = w.hasty
  BY <1>8, <1>9, <1>16 DEF World, Place
<1>18. Tidy(fd, w2, session[fd], q, up'[fd])
  <2>1. PICK s, d, u : /\ s \in Sessions
                       /\ s = session[fd] /\ d = down[fd] /\ u = up'[fd]
    BY <1>1
  <2>2. Tidy(fd, w, s, d, u)
    BY <1>15, <1>16, <2>1 DEF Kept
  <2>3. s.phase # "MAIN"
    BY <1>7, <2>1
  <2>4. \A i \in DOMAIN q : q[i].kind = "JOIN_R" => q[i].key = fd
    BY <1>10, <1>12
  <2>5. Tidy(fd, w2, s, q, u)
    BY <1>12, <1>13, <1>17, <2>1, <2>2, <2>3, <2>4, TidyJoins
  <2> QED
    BY <2>1, <2>5
<1>19. Kept(H, told, up', users, ch_by_id, drawn)
  <2>1. told \in [Fds -> Seq(DownMsgs)] /\ \A f \in Fds : told[f] = IF f = fd THEN q ELSE down[f]
    BY <1>1, <1>12, <1>14
  <2>2. ASSUME NEW f \in Fds, f # fd
        PROVE  Tidy(f, World(H, f, users, ch_by_id, drawn), session[f], down[f], up'[f])
    <3>1. Stays(f, user_by_id, ch_by_id, users, ch_by_id)
      BY <1>9, <2>2 DEF Stays
    <3>2. GoesOn(World(H, f, user_by_id, ch_by_id, drawn), World(H, f, users, ch_by_id, drawn))
      BY <3>1, MovesSame, StaysGoesOn
    <3>3. PICK z : z = World(H, f, user_by_id, ch_by_id, drawn)
      OBVIOUS
    <3>4. Tidy(f, z, session[f], down[f], up'[f])
      BY <1>15, <3>3 DEF Kept
    <3> QED
      BY <3>2, <3>3, <3>4, TidyGoesOn
  <2> QED
    BY <1>16, <1>18, <2>1, <2>2 DEF Kept
<1>20. m \in DownMsgs /\ Mild(m) /\ m.kind # "JOIN_R"
  <2>1. {Info(fd, users[fd])} \in SUBSET Infos
    BY <1>9, InfoType
  <2>2. m \in DownMsgs /\ m.kind = "UCHANGE"
    BY <1>5, <2>1, UchangeType DEF Uchange
  <2> QED
    BY <2>2 DEF Mild, Seals
<1> QED
  BY <1>1, <1>6, <1>19, <1>20, KeptMild, KeptTurns
----------------------------------------------------------------------------
(* The handler notes an action. *)
LEMMA NotedAct ==
  ASSUME NEW ch \in ChallengeRecs, NEW user, NEW action \in Acts, ch.user1 # ch.user2,
         NEW n, n = Noted(ch, user, action)
  PROVE  /\ n.turn_no = ch.turn_no
         /\ \A f \in {ch.user1, ch.user2} \ {user} : ActIn(n, f) = ActIn(ch, f)
         /\ user \in {ch.user1, ch.user2} /\ ActIn(ch, user) # NoAct => n = ch
         /\ user \in {ch.user1, ch.user2} /\ ActIn(ch, user) = NoAct => ActIn(n, user) # NoAct
<1>1. action # NoAct
  BY ActsAssumption DEF NoAct
<1> QED
  BY <1>1 DEF Noted, ActIn, ChallengeRecs

LEMMA TurnNoted ==
  ASSUME NEW H, LoginInv, BattleInv, TurnsInv(H), NEW fd \in Fds, Takes(fd, "TURN"),
         TurnTaken(Head(up[fd]))
  PROVE  LET m == Head(up[fd])
         IN  Kept(H, down, up', user_by_id, Put(ch_by_id, m.chid, NotedBy(m)), drawn)
<1>0. /\ TypeOK /\ up \in [Fds -> Seq(UpMsgs)] /\ down \in [Fds -> Seq(DownMsgs)]
      /\ session \in [Fds -> Sessions]
  BY DEF LoginInv, TypeOK, ChannelsTypeOK, ClientTypeOK
<1>1. PICK u \in Seq(UpMsgs) : u = up[fd] /\ u # <<>> /\ Head(u).kind = "TURN"
  BY <1>0 DEF Takes
<1>2. PICK m : m = Head(up[fd])
  OBVIOUS
<1>3. up'[fd] = Tail(u) /\ \A f \in Fds \ {fd} : up'[f] = up[f]
  BY <1>0, <1>1 DEF Takes
<1>4. m.user = fd /\ m.kind = "TURN" /\ m.action \in Acts
  <2>1. m \in UpMsgs /\ m.kind = "TURN"
    BY <1>0, <1>2, TakesType DEF TypeOK
  <2>2. m.action \in Acts
    BY <2>1, UpKinds
  <2> QED
    BY <1>2, <2>1, <2>2, TurnTakes
<1>5. PICK c, ch : c = m.chid /\ ch = NotedBy(m)
  OBVIOUS
<1>6. c \in DOMAIN ch_by_id /\ ch_by_id[c] \in ChallengeRecs /\ ch_by_id[c].user1 # ch_by_id[c].user2
  BY <1>0, <1>2, <1>5 DEF TurnTaken, TypeOK, ServerTypeOK, IsTree, BattleInv, Arena, Rest, AtRest
<1>7. PICK chs : chs = Put(ch_by_id, c, ch)
  OBVIOUS
<1>8. DOMAIN chs = DOMAIN ch_by_id /\ chs[c] = ch
      /\ \A x \in DOMAIN ch_by_id \ {c} : chs[x] = ch_by_id[x]
  BY <1>6, <1>7 DEF Put
<1>9. Moves(ch_by_id, drawn, chs, drawn)
  <2>1. ch.user1 = ch_by_id[c].user1 /\ ch.user2 = ch_by_id[c].user2 /\ ch.state = ch_by_id[c].state
    BY <1>0, <1>2, <1>5, NotedFacts
  <2> QED
    BY <1>6, <1>7, <2>1, MovesUpdate
<1>10. /\ ch.turn_no = ch_by_id[c].turn_no
       /\ \A f \in {ch_by_id[c].user1, ch_by_id[c].user2} \ {fd} : ActIn(ch, f) = ActIn(ch_by_id[c], f)
       /\ fd \in {ch_by_id[c].user1, ch_by_id[c].user2} /\ ActIn(ch_by_id[c], fd) # NoAct => ch = ch_by_id[c]
       /\ fd \in {ch_by_id[c].user1, ch_by_id[c].user2} /\ ActIn(ch_by_id[c], fd) = NoAct
            => ActIn(ch, fd) # NoAct
  <2>1. ch = Noted(ch_by_id[c], fd, m.action)
    BY <1>4, <1>5 DEF NotedBy
  <2> QED
    BY <1>4, <1>6, <2>1, NotedAct
<1>11. PICK w, w2 : /\ w = World(H, fd, user_by_id, ch_by_id, drawn)
                    /\ w2 = World(H, fd, user_by_id, chs, drawn)
  OBVIOUS
<1>12. ASSUME NEW f \in Fds, ~ (f = fd /\ w.mode = "wait" /\ w.c = c)
       PROVE  Stays(f, user_by_id, ch_by_id, user_by_id, chs)
  <2>1. SUFFICES ASSUME f \in DOMAIN user_by_id, user_by_id[f].state = "UBATTLING",
                        user_by_id[f].chid = c
                 PROVE  ch.turn_no = ch_by_id[c].turn_no /\ ActIn(ch, f) = ActIn(ch_by_id[c], f)
    <3>1. ASSUME f \in DOMAIN user_by_id, user_by_id[f].state = "UBATTLING"
          PROVE  user_by_id[f].chid \in DOMAIN ch_by_id
      <4>1. f \in DOMAIN user_by_fd
        BY <3>1, KnownFds
      <4> QED
        BY <3>1, <4>1, Fighter
    <3> QED
      BY <1>8, <2>1, <3>1 DEF Stays
  <2>2. f \in {ch_by_id[c].user1, ch_by_id[c].user2}
    <3>1. f \in DOMAIN user_by_fd
      BY <2>1, KnownFds
    <3> QED
      BY <2>1, <3>1, Fighter
  <2>3. f = fd => ActIn(ch_by_id[c], fd) # NoAct
    BY <1>11, <1>12, <2>1 DEF World, Place
  <2> QED
    BY <1>10, <2>2, <2>3
<1>13. Tidy(fd, w, session[fd], down[fd], u)
  BY <1>1, <1>11 DEF TurnsInv
<1>14. ASSUME w.mode = "wait", w.c = c
       PROVE  Tidy(fd, w2, session[fd], down[fd], Tail(u))
  <2>1. /\ fd \in DOMAIN user_by_id /\ user_by_id[fd].state = "UBATTLING"
        /\ user_by_id[fd].chid = c /\ ActIn(ch_by_id[c], fd) = NoAct
    BY <1>11, <1>14 DEF World, Place
  <2>2. fd \in {ch_by_id[c].user1, ch_by_id[c].user2}
    BY <1>11, <1>14, <2>1, WaitsFor
  <2>3. ActIn(ch, fd) # NoAct
    BY <1>10, <2>1, <2>2
  <2>4. /\ w2.mode = "noted" /\ w2.key = w.key /\ w2.live = w.live /\ w2.drawn = w.drawn
        /\ w2.hasty = w.hasty
    BY <1>8, <1>11, <2>1, <2>3 DEF World, Place
  <2>5. w.c \in w.live
    BY <1>6, <1>11, <1>14 DEF World
  <2>6. Head(u).chid = w.c
    BY <1>1, <1>2, <1>5, <1>14
  <2> QED
    BY <1>1, <1>13, <1>14, <2>4, <2>5, <2>6, TidyNotes
<1>15. ASSUME ~ (w.mode = "wait" /\ w.c = c)
       PROVE  Tidy(fd, w2, session[fd], down[fd], Tail(u))
  <2>1. ~ (Head(u).kind = "TURN" /\ w.mode = "wait" /\ Head(u).chid = w.c)
    BY <1>1, <1>2, <1>5, <1>15
  <2>2. Tidy(fd, w, session[fd], down[fd], Tail(u))
    BY <1>1, <1>13, <2>1, TidyTakes
  <2>3. GoesOn(w, w2)
    BY <1>9, <1>11, <1>12, <1>15, StaysGoesOn
  <2> QED
    BY <2>2, <2>3, TidyGoesOn
<1>16. ASSUME NEW f \in Fds
       PROVE  Tidy(f, World(H, f, user_by_id, chs, drawn), session[f], down[f], up'[f])
  <2>1. CASE f = fd
    BY <1>3, <1>11, <1>14, <1>15, <2>1
  <2>2. CASE f # fd
    <3>1. PICK x, x2 : /\ x = World(H, f, user_by_id, ch_by_id, drawn)
                       /\ x2 = World(H, f, user_by_id, chs, drawn)
      OBVIOUS
    <3>2. GoesOn(x, x2)
      BY <1>9, <1>12, <2>2, <3>1, StaysGoesOn
    <3>3. Tidy(f, x, session[f], down[f], up'[f])
      BY <1>3, <2>2, <3>1 DEF TurnsInv
    <3> QED
      BY <3>1, <3>2, <3>3, TidyGoesOn
  <2> QED
    BY <2>1, <2>2
<1>17. Kept(H, down, up', user_by_id, chs, drawn)
  BY <1>0, <1>16 DEF Kept
<1> QED
  BY <1>2, <1>5, <1>7, <1>17

LEMMA TurnFirstTurns ==
  ASSUME NEW H, LoginInv, BattleInv, TurnsInv(H), NEW fd \in Fds, HandleTurnFirst(fd),
         UNCHANGED session
  PROVE  TurnsKept(H)
<1>1. PICK m : m = Head(up[fd])
  OBVIOUS
<1>2. /\ Takes(fd, "TURN") /\ TurnTaken(m) /\ ch_by_id' = Put(ch_by_id, m.chid, NotedBy(m))
      /\ UNCHANGED <<down, user_by_id, drawn>>
  BY <1>1 DEF HandleTurnFirst, trees
<1>3. Kept(H, down, up', user_by_id, ch_by_id', drawn)
  BY <1>1, <1>2, TurnNoted
<1> QED
  BY <1>2, <1>3, KeptTurns

(* judge_turn, on a battle whose players have both acted or which one of   *)
(* them has left. *)
LEMMA EndBattleKeys ==
  ASSUME TypeOK, NEW ch \in ChallengeRecs, NEW winner, NEW bonus \in Bonuses,
         NEW penalty \in Penalties, ch.user1 \in DOMAIN user_by_id,
         ch.user2 \in DOMAIN user_by_id, winner = ch.user1 \/ winner = ch.user2,
         NEW users, users = EndBattle(user_by_id, ch, winner, bonus, penalty)
  PROVE  \A id \in DOMAIN user_by_id : users[id].key = user_by_id[id].key
<1>1. PICK loser : loser = IF winner = ch.user1 THEN ch.user2 ELSE ch.user1
  OBVIOUS
<1>2. PICK won : won = [user_by_id EXCEPT ![winner] = Settle(user_by_id[winner], bonus)]
  OBVIOUS
<1>3. users = [won EXCEPT ![loser] = Settle(won[loser], - penalty)]
  BY <1>1, <1>2 DEF EndBattle
<1>4. \A id \in DOMAIN user_by_id : user_by_id[id] \in UserInfos
  BY DEF TypeOK, ServerTypeOK, IsTree
<1>5. bonus \in Int /\ - penalty \in Int
  BY RuleAssumption
<1>6. \A u \in UserInfos, p \in Int : Settle(u, p) \in UserInfos /\ Settle(u, p).key = u.key
  <2>1. ASSUME NEW u \in UserInfos, NEW p \in Int
        PROVE  Settle(u, p) \in UserInfos /\ Settle(u, p).key = u.key
    BY SettleType DEF Settle, UserInfos
  <2> QED
    BY <2>1
<1>7. /\ DOMAIN won = DOMAIN user_by_id
      /\ \A id \in DOMAIN user_by_id : won[id] \in UserInfos /\ won[id].key = user_by_id[id].key
  BY <1>2, <1>4, <1>5, <1>6
<1> QED
  BY <1>3, <1>5, <1>6, <1>7

LEMMA JudgeTurns ==
  ASSUME NEW H, LoginInv, BattleInv, DuelInv,
         NEW c \in DOMAIN ch_by_id, ch_by_id[c].state = "STARTED",
         NEW ch \in ChallengeRecs, ch.user1 = ch_by_id[c].user1,
         ch.user2 = ch_by_id[c].user2, ch.state = "STARTED",
         NEW force_lose_id \in {NoId, ch.user1, ch.user2},
         NEW damage \in Damages \cup {0}, force_lose_id = NoId => Acted(ch),
         NEW bonus \in Bonuses, NEW penalty \in Penalties,
         NEW left, left = judge_turn(c, ch, force_lose_id, damage, bonus, penalty),
         NEW v, Kept(H, down, v, user_by_id, Put(ch_by_id, c, ch), drawn)
  PROVE  Kept(H, left.down, v, left.users, left.chs, drawn)
<1>0. /\ TypeOK /\ OwnIds /\ Arena /\ damage \in Nat /\ c \in ChIds
      /\ session \in [Fds -> Sessions]
  BY DamageNat DEF LoginInv, BattleInv, TypeOK, ServerTypeOK, ClientTypeOK, IsTree
<1>1. PICK after : after = AfterTurn(ch, damage)
  OBVIOUS
<1>2. PICK winner : winner = Winner(after, force_lose_id)
  OBVIOUS
<1>3. PICK r : r = TurnR(ch, after, winner)
  OBVIOUS
<1>4. PICK users : users = EndBattle(user_by_id, after, winner, bonus, penalty)
  OBVIOUS
<1>5. PICK a, b : a = ch.user1 /\ b = ch.user2
  OBVIOUS
<1>6. /\ {a, b} \subseteq DOMAIN user_by_id /\ a # b /\ c \in drawn
      /\ \A id \in {a, b} : user_by_id[id].state = "UBATTLING" /\ user_by_id[id].chid = c
  BY <1>0, <1>5 DEF Arena, Paired, Rest, AtRest
<1>7. /\ user_by_id[a].fd = a /\ user_by_id[b].fd = b /\ a \in Fds /\ b \in Fds
      /\ a \in DOMAIN user_by_fd /\ b \in DOMAIN user_by_fd
  BY <1>6, KnownFds
<1>8. /\ after \in ChallengeRecs /\ after.user1 = a /\ after.user2 = b
      /\ after.act1 = NoAct /\ after.act2 = NoAct /\ after.state = "STARTED"
  <2>1. after \in ChallengeRecs /\ after.user1 = a /\ after.user2 = b
    BY <1>0, <1>1, <1>5, AfterTurnType
  <2>2. after.act1 = NoAct /\ after.act2 = NoAct /\ after.state = ch.state
    BY <1>0, <1>1, <1>5, <1>6, AfterTurnRests
  <2> QED
    BY <2>1, <2>2
<1>9. winner \in {a, b, NoId}
  BY <1>2, <1>8, WinnerType
<1>10. r \in DownMsgs /\ r.kind = "TURN_R" /\ (r.fin <=> winner # NoId)
  <2>1. winner \in AnyId
    BY <1>8, <1>9 DEF ChallengeRecs, AnyId
  <2>2. r \in DownMsgs
    BY <1>3, <1>8, <2>1, TurnRType
  <2> QED
    BY <1>3, <2>2 DEF TurnR
<1>11. PICK sent : sent = Send(Send(down, a, r), b, r)
  OBVIOUS
<1>12. Serves(down, sent, a, b, r) /\ down \in [Fds -> Seq(DownMsgs)]
  <2>1. down \in [Fds -> Seq(DownMsgs)]
    BY KnownFds
  <2> QED
    BY <1>6, <1>7, <1>10, <1>11, <2>1, ServesBoth
<1>13. PICK chs : chs = Put(ch_by_id, c, ch)
  OBVIOUS
<1>14. /\ DOMAIN chs = DOMAIN ch_by_id /\ chs[c] = ch
       /\ \A x \in DOMAIN ch_by_id \ {c} : chs[x] = ch_by_id[x]
  BY <1>13 DEF Put
<1>15. ASSUME NEW f \in {a, b}, NEW w, w = World(H, f, user_by_id, chs, drawn)
       PROVE  /\ w.mode \in {"wait", "noted"} /\ w.c = c /\ w.live = DOMAIN ch_by_id
              /\ w.drawn = drawn /\ w.key = user_by_id[f].key /\ w.hasty = H
              /\ Acted(ch) => w.mode = "noted"
  <2>1. /\ f \in DOMAIN user_by_id /\ user_by_id[f].state = "UBATTLING"
        /\ user_by_id[f].chid = c
    BY <1>6, <1>15
  <2>2. w.mode = IF ActIn(ch, f) = NoAct THEN "wait" ELSE "noted"
    BY <1>14, <1>15, <2>1 DEF World, Place
  <2>3. Acted(ch) => ActIn(ch, f) # NoAct
    BY DEF Acted, ActIn
  <2> QED
    BY <1>14, <1>15, <2>1, <2>2, <2>3 DEF World
<1>16. ASSUME NEW f \in Fds, f \notin {a, b}, f \in DOMAIN user_by_id,
              user_by_id[f].state = "UBATTLING"
       PROVE  user_by_id[f].chid # c /\ user_by_id[f].chid \in DOMAIN ch_by_id
  <2>1. f \in DOMAIN user_by_fd
    BY <1>16, KnownFds
  <2> QED
    BY <1>5, <1>16, <2>1, Fighter
<1>17. CASE winner = NoId
  <2>1. PICK chs2 : chs2 = Put(ch_by_id, c, after)
    OBVIOUS
  <2>2. left.down = sent /\ left.users = user_by_id /\ left.chs = chs2
    BY <1>1, <1>2, <1>3, <1>5, <1>6, <1>7, <1>11, <1>17, <2>1 DEF judge_turn
  <2>3. /\ DOMAIN chs2 = DOMAIN ch_by_id /\ chs2[c] = after
        /\ \A x \in DOMAIN ch_by_id \ {c} : chs2[x] = ch_by_id[x]
    BY <2>1 DEF Put
  <2>4. Acted(ch)
    <3>1. a # NoId /\ b # NoId
      BY <1>7, FdsAssumption DEF NoId
    <3> QED
      BY <1>2, <1>5, <1>8, <1>17, <3>1 DEF Winner
  <2>5. ASSUME NEW f \in {a, b}
        PROVE  Tidy(f, World(H, f, user_by_id, chs2, drawn), session[f], Append(down[f], r), v[f])
    <3>1. PICK w, w2 : /\ w = World(H, f, user_by_id, chs, drawn)
                       /\ w2 = World(H, f, user_by_id, chs2, drawn)
      OBVIOUS
    <3>2. f \in Fds /\ f \in DOMAIN user_by_fd /\ f \in DOMAIN user_by_id
      BY <1>6, <1>7
    <3>3. PICK s, q, u : /\ s \in Sessions /\ q \in Seq(DownMsgs)
                         /\ s = session[f] /\ q = down[f] /\ u = v[f]
      BY <1>0, <1>12, <3>2
    <3>4. /\ w.mode = "noted" /\ w.c = c /\ w.live = DOMAIN ch_by_id
          /\ w.drawn = drawn /\ w.key = user_by_id[f].key /\ w.hasty = H
      BY <1>15, <2>4, <3>1
    <3>5. /\ w2.mode = "wait" /\ w2.c = c /\ w2.live = DOMAIN ch_by_id
          /\ w2.drawn = drawn /\ w2.key = user_by_id[f].key /\ w2.hasty = H
      <4>1. ActIn(chs2[c], f) = NoAct
        BY <1>8, <2>3 DEF ActIn
      <4> QED
        BY <1>6, <2>3, <3>1, <3>2, <4>1 DEF World, Place
    <3>6. Bygone(w, w2)
      BY <3>4, <3>5 DEF Bygone
    <3>7. Tidy(f, w, s, q, u)
      BY <1>13, <3>1, <3>2, <3>3 DEF Kept
    <3>8. ASSUME NEW t \in Sessions, NEW p \in Seq(DownMsgs), ReadsOf(f, s, q, t, p)
          PROVE  Firm(p) /\ After(t, p).chid = w2.c
      <4>1. Tracks(f, s, q, "all", c, ch_by_id[c])
        BY <1>6, <3>2, <3>3 DEF DuelInv, DuelAt, Mode
      <4>2. Claim(f, p, After(t, p), "all", c, ch_by_id[c])
        BY <3>8, <4>1 DEF Tracks, ReadsOf
      <4> QED
        BY <3>5, <4>2 DEF Claim, Knows
    <3>9. ~ r.fin
      BY <1>10, <1>17
    <3>10. w2.c \in w2.drawn /\ w2.key = w.key
      BY <1>6, <3>4, <3>5
    <3>11. Tidy(f, w2, s, Append(q, r), u)
      BY <1>10, <3>2, <3>3, <3>4, <3>5, <3>6, <3>7, <3>8, <3>9, <3>10, TidyTurn
    <3> QED
      BY <3>1, <3>3, <3>11
  <2>6. Moves(chs, drawn, chs2, drawn)
    BY <1>5, <1>8, <1>14, <2>3 DEF Moves
  <2>7. ASSUME NEW f \in Fds, f \notin {a, b}
        PROVE  Tidy(f, World(H, f, user_by_id, chs2, drawn), session[f], down[f], v[f])
    <3>1. PICK w, w2 : /\ w = World(H, f, user_by_id, chs, drawn)
                       /\ w2 = World(H, f, user_by_id, chs2, drawn)
      OBVIOUS
    <3>2. Stays(f, user_by_id, chs, user_by_id, chs2)
      BY <1>14, <1>16, <2>3, <2>7 DEF Stays
    <3>3. GoesOn(w, w2)
      BY <2>6, <3>1, <3>2, StaysGoesOn
    <3>4. Tidy(f, w, session[f], down[f], v[f])
      BY <1>13, <3>1 DEF Kept
    <3> QED
      BY <3>1, <3>3, <3>4, TidyGoesOn
  <2>8. ASSUME NEW f \in Fds
        PROVE  Tidy(f, World(H, f, user_by_id, chs2, drawn), session[f], sent[f], v[f])
    <3>1. sent[f] = IF f \in {a, b} THEN Append(down[f], r) ELSE down[f]
      BY <1>12 DEF Serves
    <3> QED
      BY <2>5, <2>7, <3>1
  <2> QED
    BY <1>12, <2>2, <2>8 DEF Kept, Serves
<1>18. CASE winner # NoId
  <2>1. PICK chs2 : chs2 = tdelete(ch_by_id, c)
    OBVIOUS
  <2>2. PICK ids \in SUBSET DOMAIN user_by_id : ids = {a, b}
    BY <1>6
  <2>3. /\ left.users = users /\ left.chs = chs2
        /\ left.down = broadcast_user_changes(sent, users, ids)
    BY <1>1, <1>2, <1>3, <1>4, <1>5, <1>6, <1>7, <1>11, <1>18, <2>1, <2>2 DEF judge_turn
  <2>4. IsTree(users, Ids, UserInfos) /\ DOMAIN users = DOMAIN user_by_id
    <3>1. JudgedOK(left) /\ JudgedSame(left)
      BY <1>0, JudgeType, JudgeSame
    <3> QED
      BY <2>3, <3>1 DEF JudgedOK, JudgedSame, SameUsers
  <2>5. /\ \A id \in {a, b} : users[id].state = "UONLINE"
        /\ \A id \in DOMAIN user_by_id \ {a, b} : users[id] = user_by_id[id]
        /\ \A id \in DOMAIN user_by_id : users[id].key = user_by_id[id].key
    <3>1. winner = after.user1 \/ winner = after.user2
      BY <1>8, <1>9, <1>18
    <3> QED
      BY <1>0, <1>4, <1>6, <1>8, <3>1, EndBattleFree, EndBattleKeys
  <2>6. /\ DOMAIN chs2 = DOMAIN ch_by_id \ {c}
        /\ \A x \in DOMAIN ch_by_id \ {c} : chs2[x] = ch_by_id[x]
    BY <2>1 DEF tdelete
  <2>7. ASSUME NEW f \in {a, b}
        PROVE  Tidy(f, World(H, f, users, chs2, drawn), session[f], Append(down[f], r), v[f])
    <3>1. PICK w, w2 : /\ w = World(H, f, user_by_id, chs, drawn)
                       /\ w2 = World(H, f, users, chs2, drawn)
      OBVIOUS
    <3>2. f \in Fds /\ f \in DOMAIN user_by_id
      BY <1>6, <1>7
    <3>3. PICK s, q, u : /\ s \in Sessions /\ q \in Seq(DownMsgs)
                         /\ s = session[f] /\ q = down[f] /\ u = v[f]
      BY <1>0, <1>12, <3>2
    <3>4. /\ w.mode \in {"wait", "noted"} /\ w.c = c /\ w.live = DOMAIN ch_by_id
          /\ w.drawn = drawn /\ w.key = user_by_id[f].key /\ w.hasty = H
      BY <1>15, <3>1
    <3>5. /\ w2.mode = "idle" /\ w2.live = DOMAIN ch_by_id \ {c}
          /\ w2.drawn = drawn /\ w2.key = user_by_id[f].key /\ w2.hasty = H
      BY <2>4, <2>5, <2>6, <3>1, <3>2 DEF World, Place
    <3>6. Bygone(w, w2) /\ w2.key = w.key
      BY <3>4, <3>5 DEF Bygone
    <3>7. Tidy(f, w, s, q, u)
      BY <1>13, <3>1, <3>2, <3>3 DEF Kept
    <3>8. r.fin
      BY <1>10, <1>18
    <3>9. Tidy(f, w2, s, Append(q, r), u)
      BY <1>10, <3>2, <3>3, <3>4, <3>5, <3>6, <3>7, <3>8, TidyEnd
    <3> QED
      BY <3>1, <3>3, <3>9
  <2>8. Moves(chs, drawn, chs2, drawn)
    BY <1>14, <2>6 DEF Moves
  <2>9. ASSUME NEW f \in Fds, f \notin {a, b}
        PROVE  Tidy(f, World(H, f, users, chs2, drawn), session[f], down[f], v[f])
    <3>1. PICK w, w2 : /\ w = World(H, f, user_by_id, chs, drawn)
                       /\ w2 = World(H, f, users, chs2, drawn)
      OBVIOUS
    <3>2. f \in DOMAIN user_by_id => users[f] = user_by_id[f]
      BY <2>5, <2>9
    <3>3. Stays(f, user_by_id, chs, users, chs2)
      BY <1>14, <1>16, <2>4, <2>6, <2>9, <3>2 DEF Stays
    <3>4. GoesOn(w, w2)
      BY <2>8, <3>1, <3>3, StaysGoesOn
    <3>5. Tidy(f, w, session[f], down[f], v[f])
      BY <1>13, <3>1 DEF Kept
    <3> QED
      BY <3>1, <3>4, <3>5, TidyGoesOn
  <2>10. ASSUME NEW f \in Fds
         PROVE  Tidy(f, World(H, f, users, chs2, drawn), session[f], sent[f], v[f])
    <3>1. sent[f] = IF f \in {a, b} THEN Append(down[f], r) ELSE down[f]
      BY <1>12 DEF Serves
    <3> QED
      BY <2>7, <2>9, <3>1
  <2>11. Kept(H, sent, v, users, chs2, drawn)
    BY <1>12, <2>10 DEF Kept, Serves
  <2>12. ids \in SUBSET DOMAIN users
    BY <2>4
  <2> QED
    BY <2>3, <2>4, <2>11, <2>12, KeptBroadcast
<1> QED
  BY <1>17, <1>18

LEMMA TurnJudgedTurns ==
  ASSUME NEW H, LoginInv, BattleInv, DuelInv, TurnsInv(H), NEW fd \in Fds, HandleTurnJudged(fd),
         UNCHANGED session
  PROVE  TurnsKept(H)
<1> DEFINE m == Head(up[fd])
           Left(damage, bonus, penalty) ==
             judge_turn(m.chid, NotedBy(m), NoId, damage, bonus, penalty)
<1>1. TypeOK /\ Takes(fd, "TURN") /\ TurnTaken(m) /\ Acted(NotedBy(m)) /\ drawn' = drawn
  BY DEF HandleTurnJudged, LoginInv
<1>2. PICK damage \in Damages, bonus \in Bonuses, penalty \in Penalties :
        LET left == Left(damage, bonus, penalty)
        IN  user_by_id' = left.users /\ ch_by_id' = left.chs /\ down' = left.down
  BY DEF HandleTurnJudged
<1>3. PICK c, ch : c = m.chid /\ ch = NotedBy(m)
  OBVIOUS
<1>4. /\ c \in DOMAIN ch_by_id /\ ch \in ChallengeRecs
      /\ ch.user1 = ch_by_id[c].user1 /\ ch.user2 = ch_by_id[c].user2
      /\ ch.state = "STARTED" /\ ch_by_id[c].state = "STARTED"
  BY <1>1, <1>3, NotedFacts
<1>5. PICK left : left = judge_turn(c, ch, NoId, damage, bonus, penalty)
  OBVIOUS
<1>6. user_by_id' = left.users /\ ch_by_id' = left.chs /\ down' = left.down
  BY <1>2, <1>3, <1>5
<1>7. Acted(ch)
  BY <1>1, <1>3
<1>8. Kept(H, down, up', user_by_id, Put(ch_by_id, c, ch), drawn)
  BY <1>1, <1>3, TurnNoted
<1> HIDE DEF m, Left
<1>9. PICK v : v = up'
  OBVIOUS
<1>10. Kept(H, left.down, v, left.users, left.chs, drawn)
  BY <1>4, <1>5, <1>7, <1>8, <1>9, JudgeTurns
<1> QED
  BY <1>1, <1>6, <1>9, <1>10, KeptTurns

(* A user that is in no battle, or in none any more, is deleted. *)
LEMMA LeavesTurns ==
  ASSUME NEW H, LoginInv, NEW d, NEW v, NEW users, NEW chs, Kept(H, d, v, users, chs, drawn),
         IsTree(users, Ids, UserInfos), NEW u \in DOMAIN users,
         users[u].state # "UBATTLING", NEW off, off = [users EXCEPT ![u].state = "UOFFLINE"]
  PROVE  Kept(H, broadcast_user_changes(d, off, {u}), v, tdelete(off, u), chs, drawn)
<1>1. PICK x \in UserInfos : x = users[u]
  BY DEF IsTree
<1>2. PICK y : y = [x EXCEPT !.state = "UOFFLINE"]
  OBVIOUS
<1>3. y \in UserInfos /\ y.state = "UOFFLINE" /\ y.key = x.key
  BY <1>1, <1>2 DEF UserInfos, UserStates
<1>4. off = [users EXCEPT ![u] = y]
  BY <1>1, <1>2
<1>5. IsTree(off, Ids, UserInfos) /\ u \in DOMAIN off
  BY <1>3, <1>4, UpdateTree DEF IsTree
<1>6. /\ DOMAIN off = DOMAIN users /\ off[u] = y
      /\ \A f \in DOMAIN users \ {u} : off[f] = users[f]
  BY <1>4 DEF IsTree
<1>7. Moves(chs, drawn, chs, drawn)
  BY MovesSame
<1>8. ASSUME NEW f \in Fds PROVE Stays(f, users, chs, off, chs)
  <2>1. CASE f = u
    BY <1>1, <1>3, <1>6, <2>1 DEF Stays
  <2>2. CASE f # u
    BY <1>6, <2>2 DEF Stays
  <2> QED
    BY <2>1, <2>2
<1>9. Kept(H, d, v, off, chs, drawn)
  BY <1>7, <1>8, KeptGoesOn
<1>10. PICK ids \in SUBSET DOMAIN off : ids = {u}
  BY <1>5
<1>11. PICK e : e = broadcast_user_changes(d, off, ids)
  OBVIOUS
<1>12. Kept(H, e, v, off, chs, drawn)
  BY <1>5, <1>9, <1>11, KeptBroadcast
<1>13. PICK left : left = tdelete(off, u)
  OBVIOUS
<1>14. /\ DOMAIN left = DOMAIN off \ {u}
       /\ \A f \in DOMAIN left : left[f] = off[f]
  BY <1>13 DEF tdelete
<1>15. ASSUME NEW f \in Fds
       PROVE  Tidy(f, World(H, f, left, chs, drawn), session[f], e[f], v[f])
  <2>1. PICK w, w2 : w = World(H, f, off, chs, drawn) /\ w2 = World(H, f, left, chs, drawn)
    OBVIOUS
  <2>2. Tidy(f, w, session[f], e[f], v[f])
    BY <1>12, <2>1 DEF Kept
  <2>3. CASE f = u
    <3>1. /\ w.mode = "idle" /\ w.live = w2.live /\ w.drawn = w2.drawn
          /\ w2.hasty = w.hasty
      BY <1>3, <1>5, <1>6, <2>1, <2>3 DEF World, Place
    <3>2. w2.mode = "none"
      BY <1>14, <2>1, <2>3 DEF World, Place
    <3> QED
      BY <2>1, <2>2, <3>1, <3>2, TidyGone
  <2>4. CASE f # u
    <3>1. Stays(f, off, chs, left, chs)
      BY <1>14, <2>4 DEF Stays
    <3>2. GoesOn(w, w2)
      BY <1>7, <2>1, <3>1, StaysGoesOn
    <3> QED
      BY <2>1, <2>2, <3>2, TidyGoesOn
  <2> QED
    BY <2>3, <2>4
<1> QED
  BY <1>10, <1>11, <1>12, <1>13, <1>15 DEF Kept

LEMMA QuitUserTurns ==
  ASSUME NEW H, LoginInv, BattleInv, DuelInv, NEW u \in DOMAIN user_by_id, quit_user(u),
         UNCHANGED session, Kept(H, down, up', user_by_id, ch_by_id, drawn)
  PROVE  TurnsKept(H)
<1>1. TypeOK /\ Words /\ Arena /\ u \in Fds /\ u \in DOMAIN user_by_fd
  BY KnownFds DEF LoginInv, BattleInv
<1>2. PICK user : user = user_by_id[u]
  OBVIOUS
<1> DEFINE Left(bonus, penalty) ==
             IF Fights(u)
               THEN judge_turn(user.chid, ch_by_id[user.chid], u, 0, bonus, penalty)
               ELSE [users |-> user_by_id, chs |-> ch_by_id, down |-> down,
                     server |-> server]
<1>3. PICK bonus \in Bonuses, penalty \in Penalties :
        LET left == Left(bonus, penalty)
            users == [left.users EXCEPT ![u].state = "UOFFLINE"]
        IN  /\ ch_by_id' = left.chs /\ drawn' = drawn
            /\ down' = broadcast_user_changes(left.down, users, {u})
            /\ user_by_id' = tdelete(users, u)
  BY <1>2 DEF quit_user
<1>4. PICK left : left = Left(bonus, penalty)
  OBVIOUS
<1>5. PICK off : off = [left.users EXCEPT ![u].state = "UOFFLINE"]
  OBVIOUS
<1>6. /\ ch_by_id' = left.chs /\ drawn' = drawn
      /\ down' = broadcast_user_changes(left.down, off, {u})
      /\ user_by_id' = tdelete(off, u)
  BY <1>3, <1>4, <1>5
<1>7. PICK v : v = up'
  OBVIOUS
<1>8. /\ Kept(H, left.down, v, left.users, left.chs, drawn)
      /\ IsTree(left.users, Ids, UserInfos) /\ DOMAIN left.users = DOMAIN user_by_id
      /\ left.users[u].state # "UBATTLING"
  <2>1. CASE Fights(u)
    <3>1. PICK c \in ChIds, ch \in ChallengeRecs : c = user.chid /\ ch = ch_by_id[user.chid]
      BY <1>1, <1>2, <2>1 DEF Fights, TypeOK, ServerTypeOK, IsTree
    <3>2. left = judge_turn(c, ch, u, 0, bonus, penalty)
      BY <1>4, <2>1, <3>1
    <3>3. JudgedOK(left) /\ JudgedSame(left)
      BY <1>1, <3>2, JudgeType, JudgeSame
    <3>4. /\ c \in DOMAIN ch_by_id /\ ch_by_id[c].state = "STARTED" /\ ch.state = "STARTED"
          /\ ch.user1 = ch_by_id[c].user1 /\ ch.user2 = ch_by_id[c].user2
          /\ u \in {NoId, ch.user1, ch.user2}
      BY <1>2, <2>1, <3>1, Fighter, KnownFds DEF Fights
    <3>5. u # NoId
      BY <1>1, FdsAssumption DEF NoId
    <3>6. Put(ch_by_id, c, ch) = ch_by_id
      BY <1>1, <1>2, <3>1, <3>4 DEF Put, TypeOK, ServerTypeOK, IsTree
    <3>7. Kept(H, down, v, user_by_id, Put(ch_by_id, c, ch), drawn)
      BY <1>7, <3>6
    <3>8. Kept(H, left.down, v, left.users, left.chs, drawn)
      BY <3>2, <3>4, <3>5, <3>7, JudgeTurns
    <3>9. left.users[u].state # "UBATTLING"
      BY <1>1, <3>2, <3>4, <3>5, JudgeFair
    <3> QED
      BY <3>3, <3>8, <3>9 DEF JudgedOK, JudgedSame, SameUsers
  <2>2. CASE ~ Fights(u)
    <3>1. left.users = user_by_id /\ left.down = down /\ left.chs = ch_by_id
      BY <1>4, <2>2
    <3>2. IsTree(user_by_id, Ids, UserInfos)
      BY <1>1 DEF TypeOK, ServerTypeOK
    <3>3. user_by_id[u].state # "UBATTLING"
      BY <1>1, <2>2, Fighter DEF Fights
    <3> QED
      BY <1>7, <3>1, <3>2, <3>3
  <2> QED
    BY <2>1, <2>2
<1> HIDE DEF Left
<1>9. Kept(H, broadcast_user_changes(left.down, off, {u}), v, tdelete(off, u), left.chs, drawn)
  BY <1>5, <1>8, LeavesTurns
<1> QED
  BY <1>6, <1>7, <1>9, KeptTurns

(* The battle of C_ACCEPT and its first turn. *)
LEMMA TidyOpens ==
  ASSUME NEW f \in Fds, NEW w, NEW s \in Sessions, NEW d \in Seq(DownMsgs), NEW u,
         Tidy(f, w, s, d, u), w.mode = "idle",
         NEW ok \in DownMsgs, Seals(ok),
         NEW r \in DownMsgs, r.kind = "TURN_R", ~ r.fin,
         NEW w2, w2.mode = "wait", w2.key = w.key, Bygone(w, w2),
         w2.c = ok.chid, w2.c \in w2.drawn
  PROVE  Tidy(f, w2, s, Append(Append(d, ok), r), u)
<1>1. PICK w1 : w1 = [mode |-> "noted", c |-> w2.c, n |-> 0, key |-> w.key,
                      live |-> w2.live, drawn |-> w2.drawn, hasty |-> w2.hasty]
  OBVIOUS
<1>2. /\ w1.mode = "noted" /\ w1.key = w.key /\ w1.live = w2.live /\ w1.drawn = w2.drawn
      /\ w1.hasty = w2.hasty
  BY <1>1
<1>3. Bygone(w, w1) /\ Bygone(w1, w2) /\ w2.key = w1.key
  BY <1>2 DEF Bygone
<1>4. PICK e : e = Append(d, ok)
  OBVIOUS
<1>5. e \in Seq(DownMsgs)
  BY <1>4
<1>6. Tidy(f, w1, s, e, u)
  BY <1>2, <1>3, <1>4, TidySealed
<1>7. ASSUME NEW t \in Sessions, NEW q \in Seq(DownMsgs), ReadsOf(f, s, e, t, q)
      PROVE  Firm(q) /\ After(t, q).chid = w2.c
  <2>1. ~ (s.phase = "WAIT_MSG" /\ d = <<>>)
    BY DEF Tidy, Own
  <2>2. PICK p \in Seq(DownMsgs) : ReadsOf(f, s, d, t, p) /\ q = Append(p, ok)
    BY <1>4, <1>7, <2>1, ReadsAppend
  <2>3. Firm(q)
    BY <2>2, FirmAppend
  <2>4. PICK y : y = After(t, p)
    OBVIOUS
  <2>5. y \in Sessions /\ After(t, q) = Handled(y, ok)
    BY <2>2, <2>4, AfterType, AfterAppend
  <2> QED
    BY <2>3, <2>5, OpenSeals
<1> QED
  BY <1>2, <1>3, <1>4, <1>5, <1>6, <1>7, TidyTurn

LEMMA BattlingKeys ==
  ASSUME NEW users, IsTree(users, Ids, UserInfos), NEW id1 \in DOMAIN users,
         NEW id2 \in DOMAIN users, NEW c
  PROVE  \A id \in DOMAIN users : Battling(users, id1, id2, c)[id].key = users[id].key
<1> DEFINE B(u) == [u EXCEPT !.state = "UBATTLING", !.chid = c]
           one == [users EXCEPT ![id1] = B(@)]
           two == [one EXCEPT ![id2] = B(@)]
<1>1. \A u \in UserInfos : B(u).key = u.key /\ B(B(u)) = B(u)
  BY DEF UserInfos
<1>2. Battling(users, id1, id2, c) = two
  BY DEF Battling, IsTree, UserInfos
<1>3. \A id \in DOMAIN users : users[id] \in UserInfos
  BY DEF IsTree
<1> HIDE DEF B
<1>4. /\ two[id1] = B(users[id1]) /\ two[id2] = B(users[id2])
      /\ \A id \in DOMAIN users \ {id1, id2} : two[id] = users[id]
  <2>1. CASE id1 = id2
    BY <1>1, <1>3, <2>1
  <2>2. CASE id1 # id2
    BY <2>2
  <2> QED
    BY <2>1, <2>2
<1> HIDE DEF two
<1> QED
  BY <1>1, <1>2, <1>3, <1>4

LEMMA AcceptTurns ==
  ASSUME NEW H, LoginInv, BattleInv, TurnsInv(H), NEW fd \in Fds, HandleAccept(fd),
         UNCHANGED session
  PROVE  TurnsKept(H)
<1>1. TypeOK /\ Words /\ Arena /\ IsTree(user_by_id, Ids, UserInfos) /\ Takes(fd, "CHALLENGE")
  BY DEF LoginInv, BattleInv, TypeOK, ServerTypeOK, HandleAccept
<1> DEFINE m == Head(up[fd])
           c == m.chid
           ch == [ch_by_id[c] EXCEPT !.state = "STARTED", !.turn_no = 0]
           users == Battling(user_by_id, m.id1, m.id2, c)
           after == AfterTurn(ch, 0)
           r == TurnR(ch, after, Winner(after, NoId))
           ok1 == ChallengeR("ME_OK", m, TRUE)
           ok2 == ChallengeR("ME_OK", m, FALSE)
           told == broadcast_user_changes(down, users, {m.id1, m.id2})
           replied1 == Send(told, users[m.id1].fd, ok1)
           replied == Send(replied1, users[m.id2].fd, ok2)
           turned1 == Send(replied, users[ch.user1].fd, r)
           turned == Send(turned1, users[ch.user2].fd, r)
<1>2. /\ m \in Challenges /\ m.kind = "CHALLENGE" /\ Valid(m, "C_ACCEPT")
      /\ m.id1 \in DOMAIN user_by_id /\ m.id2 \in DOMAIN user_by_id
      /\ c \in ChIds /\ c \in DOMAIN ch_by_id /\ ch_by_id[c] \in ChallengeRecs
      /\ ch_by_id[c].state = "ASKING"
  BY <1>1, ChallengeFacts DEF HandleAccept, Valid, Takes
<1>3. /\ user_by_id' = users /\ drawn' = drawn
      /\ ch_by_id' = Put(ch_by_id, c, after)
      /\ {ch.user1, ch.user2} \subseteq DOMAIN users => down' = turned
  BY DEF HandleAccept, Battling
<1>4. UpOK(ch_by_id, drawn, m)
  BY <1>1, HeadOK
<1>5. HandledFair
  BY AcceptFair
<1>6. PICK v : v = up'
  OBVIOUS
<1>7. Kept(H, down, v, user_by_id, ch_by_id, drawn)
  BY <1>1, <1>6, KeptTakes
<1> HIDE DEF m
<1>8. ok1 \in DownMsgs /\ ok2 \in DownMsgs
  BY <1>2, ChallengeRType
<1>9. Seals(ok1) /\ Seals(ok2) /\ ok1.chid = c /\ ok2.chid = c
  BY DEF Seals, ChallengeR
<1>10. /\ ch \in ChallengeRecs /\ ch.turn_no = 0
       /\ ch.user1 = ch_by_id[c].user1 /\ ch.user2 = ch_by_id[c].user2
       /\ ch.hp1 = ch_by_id[c].hp1 /\ ch.hp2 = ch_by_id[c].hp2
  BY <1>2 DEF ChallengeRecs
<1>11. ch.user1 = m.id1 /\ ch.user2 = m.id2
  BY <1>2, <1>4, <1>10 DEF UpOK, Names, Valid
<1>12. ch.user1 # ch.user2 /\ ch.hp1 > 0 /\ ch.hp2 > 0 /\ c \in drawn
  BY <1>1, <1>2, <1>10 DEF Arena, Rest, AtRest
<1> HIDE DEF ch
<1>13. /\ after \in ChallengeRecs /\ after.user1 = ch.user1 /\ after.user2 = ch.user2
       /\ after.act1 = NoAct /\ after.act2 = NoAct
  BY <1>10, <1>12, AfterTurnType, AfterTurnRests
<1>14. after.hp1 = ch.hp1 /\ after.hp2 = ch.hp2
  BY <1>10 DEF AfterTurn, ChallengeRecs
<1> HIDE DEF after
<1>15. Winner(after, NoId) = NoId
  BY <1>12, <1>13, <1>14, NoWinner
<1>16. r \in DownMsgs /\ r.kind = "TURN_R" /\ ~ r.fin
  <2>1. r = TurnR(ch, after, NoId) /\ r \in DownMsgs
    BY <1>10, <1>13, <1>15, TurnRType DEF AnyId
  <2> QED
    BY <2>1 DEF TurnR
<1> HIDE DEF r
<1>17. /\ IsTree(users, Ids, UserInfos) /\ DOMAIN users = DOMAIN user_by_id
       /\ \A id \in DOMAIN user_by_id : users[id].fd = user_by_id[id].fd
       /\ \A id \in {m.id1, m.id2} : users[id].state = "UBATTLING" /\ users[id].chid = c
       /\ \A id \in DOMAIN user_by_id \ {m.id1, m.id2} : users[id] = user_by_id[id]
       /\ \A id \in DOMAIN user_by_id : users[id].key = user_by_id[id].key
  <2>1. /\ IsTree(users, Ids, UserInfos) /\ DOMAIN users = DOMAIN user_by_id
        /\ \A id \in DOMAIN user_by_id : users[id].fd = user_by_id[id].fd
    BY <1>1, <1>2, BattlingType
  <2>2. /\ \A id \in {m.id1, m.id2} : users[id].state = "UBATTLING" /\ users[id].chid = c
        /\ \A id \in DOMAIN user_by_id \ {m.id1, m.id2} : users[id] = user_by_id[id]
    BY <1>1, <1>2, BattlingStates
  <2>3. \A id \in DOMAIN user_by_id : users[id].key = user_by_id[id].key
    BY <1>1, <1>2, BattlingKeys
  <2> QED
    BY <2>1, <2>2, <2>3
<1> HIDE DEF users
<1>18. /\ users[m.id1].fd = m.id1 /\ users[m.id2].fd = m.id2 /\ m.id1 \in Fds /\ m.id2 \in Fds
       /\ users[ch.user1].fd = m.id1 /\ users[ch.user2].fd = m.id2
  BY <1>2, <1>11, <1>17, KnownFds
<1>19. down' = turned
  BY <1>2, <1>3, <1>11, <1>17
<1>20. PICK ids \in SUBSET DOMAIN users : ids = {m.id1, m.id2}
  BY <1>2, <1>17
<1>21. Kept(H, told, v, user_by_id, ch_by_id, drawn) /\ told \in [Fds -> Seq(DownMsgs)]
  <2>1. Kept(H, broadcast_user_changes(down, users, ids), v, user_by_id, ch_by_id, drawn)
    BY <1>7, <1>17, KeptBroadcast
  <2> QED
    BY <1>20, <2>1 DEF Kept
<1> HIDE DEF ok1, ok2, told
<1>22. turned = Send(Send(Send(Send(told, m.id1, ok1), m.id2, ok2), m.id1, r), m.id2, r)
  BY <1>18
<1> HIDE DEF replied1, replied, turned1, turned
<1>23. Deals(told, turned, m.id1, m.id2, ok1, ok2, r)
  <2>1. m.id1 \in Fds /\ m.id2 \in Fds /\ m.id1 # m.id2 /\ r \in DownMsgs
    BY <1>11, <1>12, <1>16, <1>18
  <2> QED
    BY <1>8, <1>21, <1>22, <2>1, DealsAre
<1>24. PICK chs : chs = ch_by_id'
  OBVIOUS
<1>25. /\ DOMAIN chs = DOMAIN ch_by_id /\ chs[c] = after
       /\ \A x \in DOMAIN ch_by_id : x # c => chs[x] = ch_by_id[x]
  BY <1>2, <1>3, <1>24 DEF Put
<1>26. Moves(ch_by_id, drawn, chs, drawn)
  BY <1>3, <1>5, <1>24 DEF HandledFair
<1>27. ASSUME NEW f \in Fds
       PROVE  Tidy(f, World(H, f, users, chs, drawn), session[f], turned[f], v[f])
  <2>1. PICK w, w2 : /\ w = World(H, f, user_by_id, ch_by_id, drawn)
                     /\ w2 = World(H, f, users, chs, drawn)
    OBVIOUS
  <2>2. PICK s, d, u : /\ s \in Sessions /\ d \in Seq(DownMsgs)
                       /\ s = session[f] /\ d = told[f] /\ u = v[f]
    BY <1>1, <1>21 DEF TypeOK, ClientTypeOK
  <2>3. Tidy(f, w, s, d, u)
    BY <1>21, <2>1, <2>2 DEF Kept
  <2>4. CASE f \in {m.id1, m.id2}
    <3>1. PICK ok \in DownMsgs : /\ Seals(ok) /\ ok.chid = c
                                 /\ turned[f] = Append(Append(d, ok), r)
      BY <1>8, <1>9, <1>23, <2>2, <2>4 DEF Deals
    <3>2. f \in DOMAIN user_by_id /\ user_by_id[f].state = "UONLINE"
      BY <1>2, <2>4 DEF Valid, ChallengeError, BothOnline
    <3>3. /\ w.mode = "idle" /\ w.live = DOMAIN ch_by_id /\ w.drawn = drawn
          /\ w.key = user_by_id[f].key /\ w.hasty = H
      BY <2>1, <3>2 DEF World, Place
    <3>4. ActIn(chs[c], f) = NoAct
      BY <1>13, <1>25 DEF ActIn
    <3>5. /\ w2.mode = "wait" /\ w2.live = DOMAIN ch_by_id /\ w2.drawn = drawn
          /\ w2.key = user_by_id[f].key /\ w2.c = c /\ w2.hasty = H
      BY <1>17, <1>25, <2>1, <2>4, <3>2, <3>4 DEF World, Place
    <3>6. Bygone(w, w2) /\ w2.key = w.key /\ w2.c \in w2.drawn /\ w2.c = ok.chid
      BY <1>12, <3>1, <3>3, <3>5 DEF Bygone
    <3>7. Tidy(f, w2, s, Append(Append(d, ok), r), u)
      BY <1>16, <2>2, <2>3, <3>1, <3>3, <3>5, <3>6, TidyOpens
    <3> QED
      BY <2>1, <2>2, <3>1, <3>7
  <2>5. CASE f \notin {m.id1, m.id2}
    <3>1. turned[f] = d
      BY <1>23, <2>2, <2>5 DEF Deals
    <3>2. ASSUME f \in DOMAIN user_by_id, user_by_id[f].state = "UBATTLING"
          PROVE  chs[user_by_id[f].chid] = ch_by_id[user_by_id[f].chid]
      <4>1. f \in DOMAIN user_by_fd
        BY <3>2, KnownFds
      <4>2. /\ user_by_id[f].chid \in DOMAIN ch_by_id
            /\ ch_by_id[user_by_id[f].chid].state = "STARTED"
        BY <3>2, <4>1, Fighter
      <4> QED
        BY <1>2, <1>25, <4>2
    <3>3. Stays(f, user_by_id, ch_by_id, users, chs)
      BY <1>17, <2>5, <3>2 DEF Stays
    <3>4. GoesOn(w, w2)
      BY <1>26, <2>1, <3>3, StaysGoesOn
    <3>5. Tidy(f, w2, s, d, u)
      BY <2>3, <3>4, TidyGoesOn
    <3> QED
      BY <2>1, <2>2, <3>1, <3>5
  <2> QED
    BY <2>4, <2>5
<1>28. Kept(H, turned, v, users, chs, drawn)
  BY <1>23, <1>27 DEF Kept, Deals
<1> QED
  BY <1>3, <1>6, <1>19, <1>24, <1>28, KeptTurns

LEMMA HandlerTurns ==
  ASSUME NEW H, FreshIds, LoginInv, RosterInv, BattleInv, DuelInv, TurnsInv(H), NEW fd \in Fds,
         pkt_handler(fd), UNCHANGED clientVars
  PROVE  TurnsKept(H)
<1>1. UNCHANGED session /\ IndexesAgree
  BY DEF clientVars, LoginInv
<1>2. CASE HandleJoinOk(fd)
  BY <1>1, <1>2, JoinOkTurns
<1>3. CASE HandleQuit(fd)
  <2>1. CASE Known(Head(up[fd]).id, Head(up[fd]).key)
    <3>1. PICK u \in DOMAIN user_by_id : quit_user(u)
      BY <1>3, <2>1 DEF HandleQuit, Known
    <3>2. Takes(fd, "QUIT")
      BY <1>3 DEF HandleQuit
    <3>3. Kept(H, down, up', user_by_id, ch_by_id, drawn)
      BY <3>2, KeptTakes
    <3> QED
      BY <1>1, <3>1, <3>3, QuitUserTurns
  <2>2. CASE ~ Known(Head(up[fd]).id, Head(up[fd]).key)
    BY <1>1, <1>3, <2>2, SilentTurns
  <2> QED
    BY <2>1, <2>2
<1>4. CASE HandleDisconnect(fd)
  <2>1. PICK u \in DOMAIN user_by_id : quit_user(u)
    BY <1>1, <1>4 DEF HandleDisconnect, IndexesAgree
  <2>2. Takes(fd, "EDISCONN")
    BY <1>4 DEF HandleDisconnect
  <2>3. Kept(H, down, up', user_by_id, ch_by_id, drawn)
    BY <2>2, KeptTakes
  <2> QED
    BY <1>1, <2>1, <2>3, QuitUserTurns
<1>5. CASE \/ HandleDisconnectUnknown(fd) \/ HandleChallengeIgnored(fd)
           \/ HandleStartNoId(fd) \/ HandleTurnIgnored(fd)
  BY <1>1, <1>5, SilentTurns
<1>6. CASE HandleChallengeError(fd) \/ HandleSendmsg(fd) \/ HandleJoinRefused(fd)
  BY <1>1, <1>6, AnswerTurns
<1>7. CASE HandleCancel(fd) \/ HandleReject(fd)
  BY <1>1, <1>7, WithdrawTurns
<1>8. CASE HandleStart(fd)
  BY <1>1, <1>8, StartTurns
<1>9. CASE HandleAccept(fd)
  BY <1>1, <1>9, AcceptTurns
<1>10. CASE HandleTurnFirst(fd)
  BY <1>1, <1>10, TurnFirstTurns
<1>11. CASE HandleTurnJudged(fd)
  BY <1>1, <1>11, TurnJudgedTurns
<1> QED
  BY <1>2, <1>3, <1>4, <1>5, <1>6, <1>7, <1>8, <1>9, <1>10, <1>11 DEF pkt_handler

(* The clients' steps. *)
LEMMA SessionTurns ==
  ASSUME NEW H, TurnsInv(H), NEW fd \in Fds, UNCHANGED serverVars,
         \A f \in Fds \ {fd} : /\ down'[f] = down[f] /\ session'[f] = session[f]
                               /\ up'[f] = up[f],
         Tidy(fd, World(H, fd, user_by_id, ch_by_id, drawn), session'[fd], down'[fd], up'[fd])
  PROVE  TurnsKept(H)
<1>1. user_by_id' = user_by_id /\ ch_by_id' = ch_by_id /\ drawn' = drawn
  BY DEF serverVars, trees
<1>2. ASSUME NEW f \in Fds
      PROVE  Tidy(f, World(H, f, user_by_id, ch_by_id, drawn), session'[f], down'[f], up'[f])
  <2>1. Tidy(f, World(H, f, user_by_id, ch_by_id, drawn), session[f], down[f], up[f])
    BY DEF TurnsInv
  <2>2. CASE f = fd
    BY <2>2
  <2>3. CASE f # fd
    <3>1. down'[f] = down[f] /\ session'[f] = session[f] /\ up'[f] = up[f]
      BY <2>3
    <3> QED
      BY <2>1, <3>1
  <2> QED
    BY <2>2, <2>3
<1> QED
  BY <1>1, <1>2 DEF TurnsKept

LEMMA NoTurnAppend ==
  ASSUME NEW u \in Seq(UpMsgs), NEW m \in UpMsgs, m.kind # "TURN"
  PROVE  NoMore(u, Append(u, m)) /\ NoLess(u, Append(u, m))
BY DEF NoMore, NoLess

LEMMA NoTurnType ==
  /\ \A nick \in Nicks : Join(nick) \in UpMsgs /\ Join(nick).kind # "TURN"
  /\ Disconn \in UpMsgs /\ Disconn.kind # "TURN"
  /\ \A id \in AnyId, key \in AnyKey :
       /\ Quit(id, key) \in UpMsgs /\ Quit(id, key).kind # "TURN"
       /\ SendMsg(id, key) \in UpMsgs /\ SendMsg(id, key).kind # "TURN"
  /\ \A action \in {"C_START", "C_CANCEL", "C_ACCEPT", "C_REJECT"}, id1, id2 \in AnyId,
        chid \in AnyChId, key \in AnyKey :
       /\ Challenge(action, id1, id2, chid, key) \in UpMsgs
       /\ Challenge(action, id1, id2, chid, key).kind # "TURN"
BY DEF Join, Disconn, Quit, SendMsg, Challenge, UpMsgs, Challenges, SendMsgs

(* A key that sends something else than an action, if anything. *)
LEMMA PopupTurns ==
  ASSUME NEW H, LoginInv, TurnsInv(H), NEW fd \in Fds, UNCHANGED serverVars,
         session[fd].phase = "MAIN",
         \/ \E id \in Ids : Invite(fd, id)
         \/ Cancel(fd)
         \/ \E action \in {"C_ACCEPT", "C_REJECT"} : Answer(fd, action)
         \/ Chat(fd)
  PROVE  TurnsKept(H)
<1>1. /\ session \in [Fds -> Sessions] /\ session[fd] \in Sessions
      /\ down[fd] \in Seq(DownMsgs) /\ up \in [Fds -> Seq(UpMsgs)]
  BY DEF LoginInv, TypeOK, ClientTypeOK, ChannelsTypeOK
<1>2. PICK s \in Sessions : s = session[fd]
  BY <1>1
<1>3. PICK u \in Seq(UpMsgs) : u = up[fd]
  BY <1>1
<1>4. s.id \in AnyId /\ s.key \in AnyKey /\ s.opponent_id \in AnyId /\ s.chid \in AnyChId
  BY DEF Sessions
<1>5. Ids \subseteq AnyId /\ NoId \in AnyChId
  BY DEF AnyId, AnyChId
<1>6. PICK t : /\ session' = [session EXCEPT ![fd] = t]
               /\ \/ \E w \in {"W_NONE", "W_CANCEL", "W_ACCEPT"} : t = [s EXCEPT !.waiting_for = w]
                  \/ t = s
  <2>1. session = [session EXCEPT ![fd] = s]
    BY <1>1, <1>2
  <2> QED
    BY <1>2, <2>1, Zenon DEF Invite, Cancel, Answer, Chat, clientVars
<1>7. PICK m : m \in UpMsgs /\ m.kind # "TURN" /\ up' = [up EXCEPT ![fd] = Append(u, m)]
  <2>1. ASSUME NEW id \in Ids, Invite(fd, id)
        PROVE  \E m : m \in UpMsgs /\ m.kind # "TURN" /\ up' = [up EXCEPT ![fd] = Append(u, m)]
    <3>1. PICK m : m = Challenge("C_START", s.id, id, NoId, s.key)
      OBVIOUS
    <3>2. m \in UpMsgs /\ m.kind # "TURN"
      BY <1>4, <1>5, <3>1, NoTurnType
    <3>3. up' = [up EXCEPT ![fd] = Append(u, m)]
      BY <1>2, <1>3, <2>1, <3>1 DEF Invite, Send
    <3> QED
      BY <3>2, <3>3
  <2>2. ASSUME Cancel(fd)
        PROVE  \E m : m \in UpMsgs /\ m.kind # "TURN" /\ up' = [up EXCEPT ![fd] = Append(u, m)]
    <3>1. PICK m : m = Challenge("C_CANCEL", s.id, s.opponent_id, NoId, s.key)
      OBVIOUS
    <3>2. m \in UpMsgs /\ m.kind # "TURN"
      BY <1>4, <1>5, <3>1, NoTurnType
    <3>3. up' = [up EXCEPT ![fd] = Append(u, m)]
      BY <1>2, <1>3, <2>2, <3>1 DEF Cancel, Send
    <3> QED
      BY <3>2, <3>3
  <2>3. ASSUME NEW action \in {"C_ACCEPT", "C_REJECT"}, Answer(fd, action)
        PROVE  \E m : m \in UpMsgs /\ m.kind # "TURN" /\ up' = [up EXCEPT ![fd] = Append(u, m)]
    <3>1. PICK m : m = Challenge(action, s.opponent_id, s.id, s.chid, s.key)
      OBVIOUS
    <3>2. m \in UpMsgs /\ m.kind # "TURN"
      BY <1>4, <1>5, <3>1, NoTurnType
    <3>3. up' = [up EXCEPT ![fd] = Append(u, m)]
      BY <1>2, <1>3, <2>3, <3>1 DEF Answer, Send
    <3> QED
      BY <3>2, <3>3
  <2>4. ASSUME Chat(fd)
        PROVE  \E m : m \in UpMsgs /\ m.kind # "TURN" /\ up' = [up EXCEPT ![fd] = Append(u, m)]
    <3>1. PICK m : m = SendMsg(s.id, s.key)
      OBVIOUS
    <3>2. m \in UpMsgs /\ m.kind # "TURN"
      BY <1>4, <1>5, <3>1, NoTurnType
    <3>3. up' = [up EXCEPT ![fd] = Append(u, m)]
      BY <1>2, <1>3, <2>4, <3>1 DEF Chat, Send
    <3> QED
      BY <3>2, <3>3
  <2> QED
    BY <2>1, <2>2, <2>3, <2>4
<1>8. down' = down
  BY DEF Invite, Cancel, Answer, Chat
<1>9. /\ session'[fd] = t /\ up'[fd] = Append(u, m)
      /\ \A f \in Fds \ {fd} : session'[f] = session[f] /\ up'[f] = up[f]
  BY <1>1, <1>6, <1>7
<1>10. /\ t \in Sessions /\ t.phase = s.phase /\ t.key = s.key /\ t.chid = s.chid
       /\ SamePoints(s, t) /\ (Open(t) <=> Open(s))
  <2>1. /\ t \in Sessions /\ t.phase = s.phase /\ t.key = s.key /\ t.chid = s.chid
        /\ t.acted = s.acted
    BY <1>6 DEF Sessions
  <2>2. SamePoints(s, t)
    BY <1>6, <2>1 DEF Sessions, SamePoints
  <2> QED
    BY <2>1, <2>2 DEF Open
<1>11. PICK w, d : /\ w = World(H, fd, user_by_id, ch_by_id, drawn)
                   /\ d \in Seq(DownMsgs) /\ d = down[fd]
  BY <1>1
<1>12. Tidy(fd, w, s, d, u)
  BY <1>2, <1>3, <1>11 DEF TurnsInv
<1>13. NoMore(u, Append(u, m)) /\ NoLess(u, Append(u, m))
  BY <1>7, NoTurnAppend
<1>14. s.phase = "MAIN" /\ t.phase = "MAIN"
  BY <1>2, <1>10
<1>15. PICK v : v = Append(u, m)
  OBVIOUS
<1>16. Tidy(fd, w, t, d, v)
  BY <1>10, <1>11, <1>12, <1>13, <1>14, <1>15, TidyPopup
<1> QED
  BY <1>8, <1>9, <1>11, <1>15, <1>16, SessionTurns

(* The player acts: told, in the battle and the turn the server is at; or  *)
(* it is one of those who act untold. *)
LEMMA ActTurns ==
  ASSUME NEW H, LoginInv, BattleInv, DuelInv, TurnsInv(H), NEW fd \in Fds, UNCHANGED serverVars,
         NEW action \in Acts, Act(fd, action), Untold(fd) => fd \in H
  PROVE  TurnsKept(H)
<1>1. /\ session \in [Fds -> Sessions] /\ session[fd] \in Sessions
      /\ down[fd] \in Seq(DownMsgs) /\ up \in [Fds -> Seq(UpMsgs)]
  BY DEF LoginInv, TypeOK, ClientTypeOK, ChannelsTypeOK
<1>2. PICK s \in Sessions : s = session[fd]
  BY <1>1
<1>3. PICK u \in Seq(UpMsgs) : u = up[fd]
  BY <1>1
<1>4. PICK w, d : /\ w = World(H, fd, user_by_id, ch_by_id, drawn)
                  /\ d \in Seq(DownMsgs) /\ d = down[fd]
  BY <1>1
<1>5. PICK t : t = [s EXCEPT !.acted = TRUE]
  OBVIOUS
<1>6. PICK m : m = Turn(s.id, s.chid, s.key, s.turn_no, action)
  OBVIOUS
<1>7. /\ session' = [session EXCEPT ![fd] = t] /\ up' = [up EXCEPT ![fd] = Append(u, m)]
      /\ down' = down /\ s.phase = "MAIN" /\ ~ s.acted
  <2>1. t = [session[fd] EXCEPT !.acted = TRUE]
    BY <1>2, <1>5
  <2> QED
    BY <1>1, <1>2, <1>3, <1>6, <2>1 DEF Act, Send, InMain
<1>8. Tidy(fd, w, s, d, u)
  BY <1>2, <1>3, <1>4 DEF TurnsInv
<1>9. s.id = fd /\ s.key = fd
  <2>1. s.id = fd
    BY <1>2, <1>7 DEF BattleInv, Words, SessionOK
  <2> QED
    BY <1>7, <1>8, <2>1 DEF Tidy, Own
<1>10. /\ Open(s) /\ ~ Open(t) /\ t.phase = "MAIN" /\ t.key = s.key /\ t.chid = s.chid
       /\ t \in Sessions /\ SamePoints(s, t)
  <2>1. /\ t.acted = TRUE /\ t.phase = "MAIN" /\ t.key = s.key /\ t.chid = s.chid
        /\ t \in Sessions
    BY <1>5, <1>7 DEF Sessions
  <2>2. SamePoints(s, t)
    BY <1>5, <2>1 DEF Sessions, SamePoints
  <2> QED
    BY <1>7, <2>1, <2>2 DEF Open
<1>11. /\ m \in UpMsgs /\ m.kind = "TURN" /\ m.user = fd /\ m.key = fd /\ m.chid = s.chid
       /\ m.turn_no = s.turn_no
  <2>1. m \in UpMsgs
    BY <1>6 DEF Turn, UpMsgs, Sessions
  <2> QED
    BY <1>6, <1>9, <2>1 DEF Turn
<1>12. ASSUME w.mode = "wait"
       PROVE  /\ w.c \in w.live /\ Firm(d)
              /\ After(s, d).chid = w.c /\ After(s, d).turn_no = w.n
  <2>1. PICK c : c = user_by_id[fd].chid
    OBVIOUS
  <2>2. /\ fd \in DOMAIN user_by_fd /\ user_by_id[fd].state = "UBATTLING"
        /\ c \in DOMAIN ch_by_id
    BY <1>4, <1>12, <2>1, WaitsFor
  <2>3. Tracks(fd, s, d, "all", c, ch_by_id[c])
    BY <1>2, <1>4, <2>1, <2>2 DEF DuelInv, DuelAt, Mode
  <2>4. Ready(fd, s, d, s, d)
    BY <1>7 DEF Ready
  <2>5. Claim(fd, d, After(s, d), "all", c, ch_by_id[c])
    BY <2>3, <2>4 DEF Tracks
  <2>6. /\ Firm(d) /\ After(s, d).chid = c /\ After(s, d).turn_no = ch_by_id[c].turn_no
    BY <2>5 DEF Claim, Knows, Counts
  <2> QED
    BY <1>4, <2>1, <2>2, <2>6 DEF World
<1>13. PICK v : v = Append(u, m)
  OBVIOUS
<1>14. s.hp = 0 => fd \in w.hasty
  BY <1>2, <1>4 DEF World, Untold
<1>15. Tidy(fd, w, t, d, v)
  BY <1>4, <1>7, <1>8, <1>10, <1>11, <1>12, <1>13, <1>14, TidyActs
<1>16. /\ session'[fd] = t /\ up'[fd] = v
       /\ \A f \in Fds \ {fd} : session'[f] = session[f] /\ up'[f] = up[f]
  BY <1>1, <1>7, <1>13
<1> QED
  BY <1>4, <1>7, <1>15, <1>16, SessionTurns

(* The session is over, or waits for nothing. *)
LEMMA EndedTurns ==
  ASSUME NEW H, LoginInv, TurnsInv(H), NEW fd \in Fds, UNCHANGED serverVars,
         Leave(fd) \/ Lose(fd) \/ Discards(fd)
  PROVE  TurnsKept(H)
<1>1. /\ session \in [Fds -> Sessions] /\ session[fd] \in Sessions
      /\ down \in [Fds -> Seq(DownMsgs)] /\ up \in [Fds -> Seq(UpMsgs)]
  BY DEF LoginInv, TypeOK, ClientTypeOK, ChannelsTypeOK
<1>2. PICK s \in Sessions : s = session[fd]
  BY <1>1
<1>3. PICK u \in Seq(UpMsgs) : u = up[fd]
  BY <1>1
<1>4. PICK w, d : /\ w = World(H, fd, user_by_id, ch_by_id, drawn)
                  /\ d \in Seq(DownMsgs) /\ d = down[fd]
  BY <1>1
<1>5. Tidy(fd, w, s, d, u)
  BY <1>2, <1>3, <1>4 DEF TurnsInv
<1>6. CASE Leave(fd)
  <2>1. PICK t : t = [s EXCEPT !.phase = "DONE"]
    OBVIOUS
  <2>2. PICK m : m = Quit(s.id, s.key)
    OBVIOUS
  <2>3. s.id \in AnyId /\ s.key \in AnyKey /\ t.phase = "DONE"
    BY <2>1 DEF Sessions
  <2>4. m \in UpMsgs /\ m.kind # "TURN"
    BY <2>2, <2>3, NoTurnType
  <2>5. /\ session' = [session EXCEPT ![fd] = t] /\ up' = [up EXCEPT ![fd] = Append(u, m)]
        /\ down' = down
    <3>1. t = [session[fd] EXCEPT !.phase = "DONE"]
      BY <1>2, <2>1
    <3> QED
      BY <1>1, <1>2, <1>3, <1>6, <2>2, <3>1 DEF Leave, Send
  <2>6. PICK v : v = Append(u, m)
    OBVIOUS
  <2>7. NoMore(u, v)
    BY <2>4, <2>6, NoTurnAppend
  <2>8. Tidy(fd, w, t, d, v)
    BY <1>5, <2>3, <2>7, TidyEnds DEF Among
  <2>9. /\ session'[fd] = t /\ up'[fd] = v
        /\ \A f \in Fds \ {fd} : session'[f] = session[f] /\ up'[f] = up[f]
    BY <1>1, <2>5, <2>6
  <2> QED
    BY <1>4, <2>5, <2>8, <2>9, SessionTurns
<1>7. CASE Lose(fd)
  <2>1. PICK t : t = [s EXCEPT !.phase = "GONE"]
    OBVIOUS
  <2>2. t.phase = "GONE"
    BY <2>1 DEF Sessions
  <2>3. PICK n \in 0 .. Len(u) : up' = [up EXCEPT ![fd] = Append(SubSeq(u, 1, n), Disconn)]
    BY <1>1, <1>3, <1>7 DEF Lose
  <2>4. session' = [session EXCEPT ![fd] = t] /\ down' = down
    <3>1. t = [session[fd] EXCEPT !.phase = "GONE"]
      BY <1>2, <2>1
    <3> QED
      BY <1>1, <1>7, <3>1 DEF Lose
  <2>5. PICK p : p = SubSeq(u, 1, n)
    OBVIOUS
  <2>6. p \in Seq(UpMsgs) /\ Len(p) = n /\ \A i \in 1 .. n : p[i] = u[i] /\ i \in DOMAIN u
    BY <2>5
  <2>7. PICK v : v = Append(p, Disconn)
    OBVIOUS
  <2>8. NoMore(u, v)
    <3>1. NoMore(p, v)
      BY <2>6, <2>7, NoTurnType, NoTurnAppend
    <3> QED
      BY <2>6, <3>1 DEF NoMore
  <2>9. Tidy(fd, w, t, d, v)
    BY <1>5, <2>2, <2>8, TidyEnds DEF Among
  <2>10. /\ session'[fd] = t /\ up'[fd] = v
         /\ \A f \in Fds \ {fd} : session'[f] = session[f] /\ up'[f] = up[f]
    BY <1>1, <2>3, <2>4, <2>5, <2>7
  <2> QED
    BY <1>4, <2>4, <2>9, <2>10, SessionTurns
<1>8. CASE Discards(fd)
  <2>1. /\ session' = session /\ up' = up /\ down' = [down EXCEPT ![fd] = <<>>]
        /\ s.phase \notin {"WAIT_MSG", "MAIN"}
    BY <1>2, <1>8 DEF Discards, clientVars
  <2>2. NoMore(u, u)
    BY DEF NoMore
  <2>3. Tidy(fd, w, s, <<>>, u)
    BY <1>5, <2>1, <2>2, TidyEnds DEF Among
  <2>4. down'[fd] = <<>> /\ \A f \in Fds \ {fd} : down'[f] = down[f]
    BY <1>1, <2>1
  <2> QED
    BY <1>2, <1>3, <1>4, <2>1, <2>3, <2>4, SessionTurns
<1> QED
  BY <1>6, <1>7, <1>8

LEMMA LoginTurns ==
  ASSUME NEW H, LoginInv, RosterInv, TurnsInv(H), NEW fd \in Fds, UNCHANGED serverVars,
         NEW nick \in Nicks, Login(fd, nick)
  PROVE  TurnsKept(H)
<1>1. /\ session \in [Fds -> Sessions] /\ session[fd] \in Sessions
      /\ down \in [Fds -> Seq(DownMsgs)] /\ up \in [Fds -> Seq(UpMsgs)]
  BY DEF LoginInv, TypeOK, ClientTypeOK, ChannelsTypeOK
<1>2. PICK s \in Sessions : s = session[fd]
  BY <1>1
<1>3. PICK u \in Seq(UpMsgs) : u = up[fd]
  BY <1>1
<1>4. down[fd] = <<>> /\ fd \notin DOMAIN user_by_fd
  <2>1. PICK q \in Seq(DownMsgs) : q = down[fd]
    BY <1>1
  <2>2. fd \notin DOMAIN user_by_fd /\ ~ Has(q, "JOIN_R")
    BY <2>1 DEF Login, LoginInv, JoinOnce
  <2>3. \A i \in DOMAIN q : q[i].kind = "JOIN_R"
    BY <2>1, <2>2 DEF Login, RosterInv, ViewAt, Begins, Early
  <2>4. \A i \in DOMAIN q : FALSE
    BY <2>2, <2>3 DEF Has
  <2>5. q # <<>> => 1 \in DOMAIN q
    OBVIOUS
  <2> QED
    BY <2>1, <2>2, <2>4, <2>5
<1>5. PICK w : w = World(H, fd, user_by_id, ch_by_id, drawn)
  OBVIOUS
<1>6. w.mode = "none"
  <2>1. fd \notin DOMAIN user_by_id
    BY <1>4, KnownFds
  <2> QED
    BY <1>5, <2>1 DEF World, Place
<1>7. Tidy(fd, w, s, <<>>, u)
  BY <1>2, <1>3, <1>4, <1>5 DEF TurnsInv
<1>8. PICK t : t = [s EXCEPT !.phase = "WAIT_MSG"]
  OBVIOUS
<1>9. t.phase = "WAIT_MSG"
  BY <1>8 DEF Sessions
<1>10. PICK v : v = Append(u, Join(nick))
  OBVIOUS
<1>11. NoMore(u, v)
  BY <1>10, NoTurnType, NoTurnAppend
<1>12. Tidy(fd, w, t, <<>>, v)
  BY <1>6, <1>7, <1>9, <1>11, TidyLogin
<1>13. session' = [session EXCEPT ![fd] = t] /\ up' = [up EXCEPT ![fd] = v] /\ down' = down
  <2>1. t = [session[fd] EXCEPT !.phase = "WAIT_MSG"]
    BY <1>2, <1>8
  <2> QED
    BY <1>1, <1>3, <1>10, <2>1 DEF Login, Send
<1>14. /\ session'[fd] = t /\ up'[fd] = v /\ down'[fd] = <<>>
       /\ \A f \in Fds \ {fd} : session'[f] = session[f] /\ up'[f] = up[f]
  BY <1>1, <1>4, <1>13
<1> QED
  BY <1>5, <1>12, <1>13, <1>14, SessionTurns

LEMMA LoginAnsweredTurns ==
  ASSUME NEW H, LoginInv, RosterInv, NamesInv, TurnsInv(H), NEW fd \in Fds, UNCHANGED serverVars,
         LoginAnswered(fd)
  PROVE  TurnsKept(H)
<1>1. /\ down \in [Fds -> Seq(DownMsgs)] /\ down[fd] \in Seq(DownMsgs)
      /\ session \in [Fds -> Sessions] /\ session[fd] \in Sessions
  BY DEF LoginInv, TypeOK, ChannelsTypeOK, ClientTypeOK
<1>2. /\ down[fd] # <<>> /\ down' = [down EXCEPT ![fd] = Tail(down[fd])]
      /\ session[fd].phase = "WAIT_MSG" /\ up' = up
  BY DEF LoginAnswered, Receives
<1>3. PICK q \in Seq(DownMsgs) : q = down[fd] /\ q # <<>>
  BY <1>1, <1>2
<1>4. PICK r, e : r = Head(q) /\ e = Tail(q)
  OBVIOUS
<1>5. /\ down'[fd] = e
      /\ \A f \in Fds \ {fd} : down'[f] = down[f] /\ session'[f] = session[f] /\ up'[f] = up[f]
  <2>1. \A f \in Fds \ {fd} : session'[f] = session[f]
    BY <1>1 DEF LoginAnswered
  <2> QED
    BY <1>1, <1>2, <1>3, <1>4, <2>1
<1>6. /\ r \in DownMsgs /\ 1 \in DOMAIN q /\ q[1] = r
      /\ \A i \in DOMAIN e : \E j \in DOMAIN q : e[i] = q[j]
  BY <1>3, <1>4, TailView
<1>7. r.kind = "JOIN_R" /\ Head(down[fd]) = r
  BY <1>2, <1>3, <1>4, AnswerFirst
<1>8. PICK w, s, u : /\ w = World(H, fd, user_by_id, ch_by_id, drawn)
                     /\ s = session[fd] /\ u = up[fd]
  OBVIOUS
<1>9. Tidy(fd, w, s, q, u)
  BY <1>3, <1>8 DEF TurnsInv
<1>10. CASE r.error # "ME_OK"
  <2>1. session' = [session EXCEPT ![fd].phase = "RETRY"]
    BY <1>7, <1>10 DEF LoginAnswered
  <2>2. PICK t : t = session'[fd]
    OBVIOUS
  <2>3. t.phase = "RETRY"
    BY <1>1, <2>1, <2>2 DEF Sessions
  <2>4. NoMore(u, u)
    BY DEF NoMore
  <2>5. Tidy(fd, w, t, e, u)
    BY <1>6, <1>9, <2>3, <2>4, TidyEnds DEF Among
  <2> QED
    BY <1>2, <1>5, <1>8, <2>2, <2>5, SessionTurns
<1>11. CASE r.error = "ME_OK"
  <2>1. r.id = fd
    <3>1. Admits(fd, q)
      BY <1>3 DEF RosterInv, ViewAt, OwnId
    <3> QED
      BY <1>6, <1>7, <1>11, <3>1 DEF Admits
  <2>2. PICK acted \in UnsetActed, state \in UnsetState :
          session' = [session EXCEPT ![fd] = New(r.id, r.key, acted, state)]
    BY <1>7, <1>11, Zenon DEF LoginAnswered, New
  <2>3. PICK t : t = New(fd, r.key, acted, state)
    OBVIOUS
  <2>4. session'[fd] = t
    BY <1>1, <2>1, <2>2, <2>3
  <2>5. acted \in UnsetActed /\ state \in UserStates
    BY UnsetAssumption
  <2>6. Tidy(fd, w, t, e, u)
    BY <1>2, <1>3, <1>4, <1>7, <1>8, <1>9, <1>11, <2>3, <2>5, TidyAnswered
  <2> QED
    BY <1>2, <1>5, <1>8, <2>4, <2>6, SessionTurns
<1> QED
  BY <1>10, <1>11

LEMMA HandledKey ==
  ASSUME NEW s \in Sessions, NEW m \in DownMsgs PROVE Handled(s, m).key = s.key
<1>1. CASE m.kind = "TURN_R"
  <2>1. Handled(s, m) = OnTurnR(s, m)
    BY <1>1 DEF Handled
  <2> QED
    BY <2>1 DEF OnTurnR, Sessions
<1>2. CASE m.kind = "CHALLENGE"
  <2>1. Handled(s, m) = OnChallenge(s, m)
    BY <1>2 DEF Handled
  <2> QED
    BY <2>1 DEF OnChallenge, Sessions
<1>3. CASE m.kind = "CHALLENGE_R"
  <2>1. Handled(s, m) = OnChallengeR(s, m)
    BY <1>3 DEF Handled
  <2> QED
    BY <2>1 DEF OnChallengeR, Sessions
<1>4. CASE m.kind = "UCHANGE"
  <2>1. Handled(s, m) = OnUchange(s, m)
    BY <1>4 DEF Handled
  <2> QED
    BY <2>1 DEF OnUchange, Sessions
<1>5. CASE m.kind \notin {"TURN_R", "CHALLENGE", "CHALLENGE_R", "UCHANGE"}
  BY <1>5 DEF Handled
<1> QED
  BY <1>1, <1>2, <1>3, <1>4, <1>5

LEMMA AnswersNoTurn ==
  ASSUME NEW s \in Sessions, NEW m \in DownMsgs, NEW u \in Seq(UpMsgs)
  PROVE  LET v == u \o Answers(s, m) IN NoMore(u, v) /\ NoLess(u, v)
<1>1. s.id \in AnyId /\ s.key \in AnyKey
  BY DEF Sessions
<1>2. ASSUME NEW a \in UpMsgs, a.kind # "TURN"
      PROVE  NoMore(u, u \o <<a>>) /\ NoLess(u, u \o <<a>>)
  <2>1. u \o <<a>> = Append(u, a)
    OBVIOUS
  <2> QED
    BY <1>2, <2>1, NoTurnAppend
<1>3. CASE m.kind = "CHALLENGE" /\ s.waiting_for # "W_NONE"
  <2>1. PICK a : a = Challenge("C_REJECT", m.id1, m.id2, m.chid, s.key)
    OBVIOUS
  <2>2. m.id1 \in AnyId /\ m.id2 \in AnyId /\ m.chid \in AnyChId
    BY <1>3, DownKinds DEF Challenges
  <2>3. a \in UpMsgs /\ a.kind # "TURN"
    BY <1>1, <2>1, <2>2, NoTurnType
  <2>4. Answers(s, m) = <<a>>
    BY <1>3, <2>1 DEF Answers
  <2> QED
    BY <1>2, <2>3, <2>4
<1>4. CASE m.kind = "UCHANGE" /\ Handled(s, m).phase = "DONE"
  <2>1. PICK a : a = Quit(s.id, s.key)
    OBVIOUS
  <2>2. a \in UpMsgs /\ a.kind # "TURN"
    BY <1>1, <2>1, NoTurnType
  <2>3. Answers(s, m) = <<a>>
    BY <1>4, <2>1 DEF Answers
  <2> QED
    BY <1>2, <2>2, <2>3
<1>5. CASE /\ ~ (m.kind = "CHALLENGE" /\ s.waiting_for # "W_NONE")
           /\ ~ (m.kind = "UCHANGE" /\ Handled(s, m).phase = "DONE")
  <2>1. Answers(s, m) = <<>>
    BY <1>5 DEF Answers
  <2>2. u \o <<>> = u
    OBVIOUS
  <2> QED
    BY <2>1, <2>2 DEF NoMore, NoLess
<1> QED
  BY <1>3, <1>4, <1>5

LEMMA MainReceivesTurns ==
  ASSUME NEW H, LoginInv, TurnsInv(H), NEW fd \in Fds, UNCHANGED serverVars, MainReceives(fd)
  PROVE  TurnsKept(H)
<1>1. /\ down \in [Fds -> Seq(DownMsgs)] /\ down[fd] \in Seq(DownMsgs)
      /\ session \in [Fds -> Sessions] /\ session[fd] \in Sessions
      /\ up \in [Fds -> Seq(UpMsgs)] /\ up[fd] \in Seq(UpMsgs)
  BY DEF LoginInv, TypeOK, ChannelsTypeOK, ClientTypeOK
<1>2. PICK s \in Sessions : s = session[fd]
  BY <1>1
<1>3. PICK q \in Seq(DownMsgs) : q = down[fd]
  BY <1>1
<1>4. PICK u \in Seq(UpMsgs) : u = up[fd]
  BY <1>1
<1>5. PICK m, e : m = Head(q) /\ e = Tail(q)
  OBVIOUS
<1>6. PICK t, v : t = Handled(s, m) /\ v = u \o Answers(s, m)
  OBVIOUS
<1>7. /\ q # <<>> /\ down' = [down EXCEPT ![fd] = e] /\ s.phase = "MAIN"
      /\ session' = [session EXCEPT ![fd] = t] /\ up' = [up EXCEPT ![fd] = v]
  BY <1>2, <1>3, <1>4, <1>5, <1>6 DEF MainReceives, Receives
<1>8. /\ down'[fd] = e /\ session'[fd] = t /\ up'[fd] = v
      /\ \A f \in Fds \ {fd} : /\ down'[f] = down[f] /\ session'[f] = session[f]
                               /\ up'[f] = up[f]
  BY <1>1, <1>7
<1>9. PICK w : w = World(H, fd, user_by_id, ch_by_id, drawn)
  OBVIOUS
<1>10. Tidy(fd, w, s, q, u)
  BY <1>2, <1>3, <1>4, <1>9 DEF TurnsInv
<1>11. m \in DownMsgs /\ \A i \in DOMAIN e : \E j \in DOMAIN q : e[i] = q[j]
  BY <1>5, <1>7, TailView
<1>12. NoMore(u, v) /\ NoLess(u, v)
  BY <1>6, <1>11, AnswersNoTurn
<1>13. CASE t.phase = "MAIN"
  <2>1. t.key = s.key /\ t = Handled(s, Head(q))
    BY <1>5, <1>6, <1>11, HandledKey
  <2>2. Tidy(fd, w, t, e, v)
    BY <1>5, <1>7, <1>10, <1>12, <1>13, <2>1, TidyReceives
  <2> QED
    BY <1>8, <1>9, <2>2, SessionTurns
<1>14. CASE t.phase # "MAIN"
  <2>1. t.phase = "DONE"
    BY <1>6, <1>7, <1>11, <1>14 DEF Handled, OnTurnR, OnChallenge, OnChallengeR, OnUchange, Sessions
  <2>2. t.phase \notin {"WAIT_MSG", "MAIN"}
    BY <2>1
  <2>3. NoMore(u, v) /\ Among(e, q)
    BY <1>11, <1>12 DEF Among
  <2>4. Tidy(fd, w, t, e, v)
    BY <1>10, <2>2, <2>3, TidyEnds
  <2> QED
    BY <1>8, <1>9, <2>4, SessionTurns
<1> QED
  BY <1>13, <1>14

LEMMA InitTurns == ASSUME NEW H PROVE Init => TurnsInv(H)
<1>1. SUFFICES ASSUME Init, NEW f \in Fds
               PROVE  Tidy(f, World(H, f, user_by_id, ch_by_id, drawn), session[f], down[f], up[f])
  BY DEF TurnsInv
<1>2. /\ session[f].phase = "LOGIN" /\ down[f] = <<>> /\ up[f] = <<>>
      /\ f \notin DOMAIN user_by_id
  BY <1>1 DEF Init, ChannelsInit, ClientInit, NewSession, model_init, Empty
<1>3. PICK w, s : w = World(H, f, user_by_id, ch_by_id, drawn) /\ s = session[f]
  OBVIOUS
<1>4. w.mode = "none" /\ s.phase = "LOGIN"
  BY <1>2, <1>3 DEF World, Place
<1>5. Own(f, w, s, <<>>, <<>>) /\ Go(f, w, s, <<>>, <<>>) /\ LateUp(w, <<>>)
  BY <1>4 DEF Own, Go, LateUp
<1>6. LateDown(f, w, s, <<>>, <<>>)
  BY <1>4 DEF LateDown, ReadsOf, Ready
<1> QED
  BY <1>2, <1>3, <1>5, <1>6 DEF Tidy

(* A step, with every player in H who acts untold in it. *)
LEMMA NextTurns ==
  ASSUME NEW H, FreshIds, LoginInv, RosterInv, NamesInv, BattleInv, DuelInv, TurnsInv(H),
         [Next]_vars,
         \A fd \in Fds : Untold(fd) /\ (\E action \in Acts : Act(fd, action)) => fd \in H
  PROVE  TurnsKept(H)
<1>1. ASSUME NEW fd \in Fds, pkt_handler(fd), UNCHANGED clientVars PROVE TurnsKept(H)
  BY <1>1, HandlerTurns
<1>2. ASSUME NEW fd \in Fds, Key(fd), UNCHANGED serverVars PROVE TurnsKept(H)
  <2>1. CASE \E nick \in Nicks : Login(fd, nick)
    BY <1>2, <2>1, LoginTurns
  <2>2. CASE \E action \in Acts : Act(fd, action)
    <3>1. PICK action \in Acts : Act(fd, action)
      BY <2>2
    <3>2. Untold(fd) => fd \in H
      BY <2>2
    <3> QED
      BY <1>2, <3>1, <3>2, ActTurns
  <2>3. CASE Leave(fd)
    BY <1>2, <2>3, EndedTurns
  <2>4. CASE \/ \E id \in Ids : Invite(fd, id)
             \/ Cancel(fd)
             \/ \E action \in {"C_ACCEPT", "C_REJECT"} : Answer(fd, action)
             \/ Chat(fd)
    <3>1. session[fd].phase = "MAIN"
      BY <2>4 DEF Invite, Cancel, Answer, Chat, InMain
    <3> QED
      BY <1>2, <2>4, <3>1, PopupTurns
  <2> QED
    BY <1>2, <2>1, <2>2, <2>3, <2>4 DEF Key
<1>3. ASSUME NEW fd \in Fds, Receive(fd) \/ Lose(fd), UNCHANGED serverVars PROVE TurnsKept(H)
  BY <1>3, LoginAnsweredTurns, MainReceivesTurns, EndedTurns DEF Receive
<1>4. ASSUME UNCHANGED vars PROVE TurnsKept(H)
  <2>1. UNCHANGED <<up, down, session, user_by_id, ch_by_id, drawn>>
    BY <1>4 DEF vars, channels, clientVars, serverVars, trees
  <2> QED
    BY <2>1 DEF TurnsInv, TurnsKept
<1> QED
  BY <1>1, <1>2, <1>3, <1>4 DEF Next

(* What is said of the players outside H is said of fewer. *)
LEMMA TurnsMore ==
  ASSUME NEW H, NEW H2, H \subseteq H2, TurnsInv(H) PROVE TurnsInv(H2)
<1>1. ASSUME NEW f \in Fds
      PROVE  Tidy(f, World(H2, f, user_by_id, ch_by_id, drawn), session[f], down[f], up[f])
  <2>1. PICK w, w2 : /\ w = World(H, f, user_by_id, ch_by_id, drawn)
                     /\ w2 = World(H2, f, user_by_id, ch_by_id, drawn)
    OBVIOUS
  <2>2. GoesOn(w, w2)
    BY <2>1 DEF GoesOn, World
  <2>3. Tidy(f, w, session[f], down[f], up[f])
    BY <2>1 DEF TurnsInv
  <2> QED
    BY <2>1, <2>2, <2>3, TidyGoesOn
<1> QED
  BY <1>1 DEF TurnsInv

(* The invariant of who may act holds of the whole game, given that a      *)
(* challenge's id is not drawn twice: where everyone may have acted untold *)
(* already, *)
EveryTurnsInv == TurnsInv(Fds)

LEMMA EveryTurnsNext == TurnsKept(Fds) => EveryTurnsInv'
BY Zenon DEF EveryTurnsInv, TurnsInv, TurnsKept, Tidy, World, Place, ActIn, Own, Go,
       LateDown, LateUp, Late, May, Prompt, Played, ReadsOf, Ready, Aware, Open, Still, Firm,
       FirmFrom, Mild, Seals, After

THEOREM TurnsInvariant == ASSUME FreshIds PROVE Spec => []EveryTurnsInv
<1>1. Init => EveryTurnsInv
  BY InitTurns DEF EveryTurnsInv
<1>2. LoginInv /\ RosterInv /\ NamesInv /\ BattleInv /\ DuelInv /\ EveryTurnsInv /\ [Next]_vars
        => EveryTurnsInv'
  BY NextTurns, EveryTurnsNext DEF EveryTurnsInv
<1> QED
  BY <1>1, <1>2, JankenInvariant, RosterInvariant, NamesInvariant, BattleInvariant,
     DuelInvariant, PTL DEF Spec

(* and beside the history of those who have. *)
HastyTurnsInv == TurnsInv(hasty)

LEMMA HastyTurnsNext == TurnsKept(hasty') => HastyTurnsInv'
BY Zenon DEF HastyTurnsInv, TurnsInv, TurnsKept, Tidy, World, Place, ActIn, Own, Go,
       LateDown, LateUp, Late, May, Prompt, Played, ReadsOf, Ready, Aware, Open, Still, Firm,
       FirmFrom, Mild, Seals, After

LEMMA TurnsIsGame == TurnsSpec => Spec
<1>1. TurnsInit => Init
  BY DEF TurnsInit
<1>2. [TurnsNext]_turnVars => [Next]_vars
  BY DEF TurnsNext, turnVars
<1> QED
  BY <1>1, <1>2, PTL DEF TurnsSpec, Spec

LEMMA HastyStep ==
  ASSUME FreshIds, LoginInv, RosterInv, NamesInv, BattleInv, DuelInv, HastyTurnsInv,
         [TurnsNext]_turnVars
  PROVE  HastyTurnsInv'
<1>1. CASE TurnsNext
  <2>1. PICK H : H = hasty'
    OBVIOUS
  <2>2. /\ hasty \subseteq H
        /\ \A fd \in Fds : Untold(fd) /\ (\E action \in Acts : Act(fd, action)) => fd \in H
    BY <1>1, <2>1 DEF TurnsNext, Remember
  <2>3. TurnsInv(H)
    BY <2>2, TurnsMore DEF HastyTurnsInv
  <2>4. TurnsKept(H)
    BY <1>1, <2>2, <2>3, NextTurns DEF TurnsNext
  <2> QED
    BY <2>1, <2>4, HastyTurnsNext
<1>2. CASE UNCHANGED turnVars
  <2>1. UNCHANGED <<up, down, session, user_by_id, ch_by_id, drawn>> /\ hasty' = hasty
    BY <1>2 DEF turnVars, vars, channels, clientVars, serverVars, trees
  <2>2. TurnsKept(hasty')
    BY <2>1 DEF HastyTurnsInv, TurnsInv, TurnsKept
  <2> QED
    BY <2>2, HastyTurnsNext
<1> QED
  BY <1>1, <1>2

THEOREM HastyInvariant == ASSUME FreshIds PROVE TurnsSpec => []HastyTurnsInv
<1>1. TurnsInit => HastyTurnsInv
  BY InitTurns DEF TurnsInit, HastyTurnsInv
<1>2. LoginInv /\ RosterInv /\ NamesInv /\ BattleInv /\ DuelInv /\ HastyTurnsInv
        /\ [TurnsNext]_turnVars => HastyTurnsInv'
  BY HastyStep
<1> QED
  BY <1>1, <1>2, TurnsIsGame, JankenInvariant, RosterInvariant, NamesInvariant,
     BattleInvariant, DuelInvariant, PTL DEF TurnsSpec

LEMMA TurnsInvGo == ASSUME NEW H PROVE LoginInv /\ TurnsInv(H) => NobodyStuck
<1>1. SUFFICES ASSUME LoginInv, TurnsInv(H), NEW fd \in Fds, Joined(fd),
                      user_by_id[user_by_fd[fd]].state = "UBATTLING"
               PROVE  LET u == user_by_id[user_by_fd[fd]] IN
                      \/ ActionOf(u.chid, user_by_fd[fd]) # NoAct
                      \/ Sent(fd, u.chid)
                      \/ ~ Settled(fd).acted
  BY DEF NobodyStuck
<1>2. fd \in DOMAIN user_by_fd /\ session[fd].phase = "MAIN"
  BY <1>1 DEF Joined, Present
<1>3. user_by_fd[fd] = fd /\ fd \in DOMAIN user_by_id
  BY <1>1, <1>2, IdFacts DEF LoginInv, OwnIds, IndexesAgree
<1>4. PICK w, c : w = World(H, fd, user_by_id, ch_by_id, drawn) /\ c = user_by_id[fd].chid
  OBVIOUS
<1>5. CASE ActIn(ch_by_id[c], fd) # NoAct
  BY <1>3, <1>4, <1>5 DEF ActIn, ActionOf
<1>6. CASE ActIn(ch_by_id[c], fd) = NoAct
  <2>1. w.mode = "wait" /\ w.c = c
    BY <1>1, <1>3, <1>4, <1>6 DEF World, Place
  <2>2. Go(fd, w, session[fd], down[fd], up[fd])
    BY <1>1, <1>4 DEF TurnsInv, Tidy
  <2>3. ReadsOf(fd, session[fd], down[fd], session[fd], down[fd])
    BY <1>2 DEF ReadsOf, Ready
  <2>4. Played(up[fd], c) \/ Open(After(session[fd], down[fd]))
    BY <2>1, <2>2, <2>3 DEF Go
  <2> QED
    BY <1>3, <1>4, <2>4 DEF Played, Sent, Open, Settled
<1> QED
  BY <1>5, <1>6

LEMMA TurnsInvPrompt == LoginInv /\ HastyTurnsInv => ActsInTurn
<1>1. SUFFICES ASSUME LoginInv, HastyTurnsInv, NEW fd \in Fds \ hasty, up[fd] # <<>>,
                      Head(up[fd]).kind = "TURN", TurnTaken(Head(up[fd]))
               PROVE  Head(up[fd]).turn_no = ch_by_id[Head(up[fd]).chid].turn_no
  BY DEF ActsInTurn
<1>2. PICK u \in Seq(UpMsgs) : u = up[fd] /\ u # <<>>
  BY <1>1 DEF LoginInv, TypeOK, ChannelsTypeOK
<1>3. PICK m : m = Head(u)
  OBVIOUS
<1>4. PICK w : w = World(hasty, fd, user_by_id, ch_by_id, drawn)
  OBVIOUS
<1>5. 1 \in DOMAIN u /\ u[1] = m /\ m.kind = "TURN" /\ m.chid \in DOMAIN ch_by_id
  BY <1>1, <1>2, <1>3, TailUp DEF TurnTaken
<1>6. LateUp(w, u)
  <2>1. fd \notin w.hasty
    BY <1>1, <1>4 DEF World
  <2> QED
    BY <1>1, <1>2, <1>4, <2>1 DEF HastyTurnsInv, TurnsInv, Tidy
<1>7. Prompt(w, m)
  BY <1>5, <1>6 DEF LateUp
<1>8. m.chid = w.c /\ m.turn_no = w.n
  BY <1>4, <1>5, <1>7 DEF Prompt, World
<1>9. w.n = ch_by_id[w.c].turn_no
  BY <1>4 DEF World
<1> QED
  BY <1>2, <1>3, <1>8, <1>9

(* A player the server waits for is never locked out of the turn: its      *)
(* action is noted or on its way, or it is free to act once it has read    *)
(* what it was sent, whatever gs.acted held before ui_main set it, for any *)
(* set of connections and over all that quit, break or fight beside it.    *)
THEOREM JankenNobodyStuck == ASSUME FreshIds PROVE Spec => []NobodyStuck
<1>1. LoginInv /\ EveryTurnsInv => NobodyStuck
  BY TurnsInvGo DEF EveryTurnsInv
<1> QED
  BY <1>1, JankenInvariant, TurnsInvariant, PTL

(* "Expected next turn" (common.h:88): every action that handle_turn takes *)
(* for a challenge that exists, of a player who has never acted before the *)
(* first TURN_R of its session, is one for the turn the challenge is at,   *)
(* which it does not compare: whatever gs.acted held before ui_main set it *)
(* for anyone, and whatever those who have acted untold do.                *)
THEOREM JankenActsInTurn == ASSUME FreshIds PROVE TurnsSpec => []ActsInTurn
<1>1. LoginInv /\ HastyTurnsInv => ActsInTurn
  BY TurnsInvPrompt
<1> QED
  BY <1>1, TurnsIsGame, JankenInvariant, HastyInvariant, PTL
=============================================================================
