---------------------------- MODULE JankenProofs ----------------------------
(***************************************************************************)
(* Theorems about Janken, for every set of connections and nicknames and   *)
(* every value of the rules' constants.  First type correctness, step by   *)
(* step: the one step that needs more than the types is a lost connection. *)
(* Then the logins.  Last the battles, from the invitation to the points:  *)
(* who is in a battle and in which, that judge_turn finds both players,    *)
(* and that a C_ACCEPT names the players of the challenge it accepts, all  *)
(* of it as long as random() does not repeat a challenge id (FreshIds).    *)
(***************************************************************************)
EXTENDS JankenViews, TLAPS, FiniteSetTheorems, SequenceTheorems

(* An id is the descriptor it was made from, and never the zero id. *)
LEMMA IdFacts ==
  /\ \A fd \in Fds : IdOf(fd) = fd
  /\ Ids = Fds
  /\ NoId \notin Ids
  /\ IsFiniteSet(Ids)
<1>0. UINT16_MAX \in Nat
  BY UintAssumption
<1>1. \A fd \in Fds : IdOf(fd) = fd /\ fd # NoId
  BY <1>0, FdsAssumption DEF IdOf, NoId
<1>2. Ids = Fds
  BY <1>1 DEF Ids
<1> QED
  BY <1>1, <1>2, FdsAssumption

(* The search trees: insertion, update and deletion keep their types. *)
LEMMA PutTree ==
  ASSUME NEW f, NEW K, NEW V, IsTree(f, K, V), NEW k \in K, NEW v \in V
  PROVE  IsTree(Put(f, k, v), K, V)
  BY DEF IsTree, Put

LEMMA DeleteTree ==
  ASSUME NEW f, NEW K, NEW V, IsTree(f, K, V), NEW k
  PROVE  IsTree(tdelete(f, k), K, V)
  BY DEF IsTree, tdelete

LEMMA UpdateTree ==
  ASSUME NEW f, NEW K, NEW V, IsTree(f, K, V), NEW k \in DOMAIN f, NEW v \in V
  PROVE  IsTree([f EXCEPT ![k] = v], K, V)
  BY DEF IsTree

LEMMA EmptyTree ==
  ASSUME NEW K, NEW V
  PROVE  IsTree(Empty, K, V)
  BY DEF IsTree, Empty

(* The channels: sending keeps the type of what is on its way. *)
LEMMA SendType ==
  ASSUME NEW M, NEW d \in [Fds -> Seq(M)], NEW fd \in Fds, NEW m \in M
  PROVE  Send(d, fd, m) \in [Fds -> Seq(M)]
<1>1. Append(d[fd], m) \in Seq(M)
  OBVIOUS
<1> QED
  BY <1>1 DEF Send

LEMMA SendAllType ==
  ASSUME NEW M, NEW d \in [Fds -> Seq(M)], NEW fds, NEW m \in M
  PROVE  SendAll(d, fds, m) \in [Fds -> Seq(M)]
<1>1. \A fd \in Fds : Append(d[fd], m) \in Seq(M)
  OBVIOUS
<1> QED
  BY <1>1 DEF SendAll

(* What the server tells of a user. *)
LEMMA InfoType ==
  ASSUME NEW users, IsTree(users, Ids, UserInfos), NEW id \in DOMAIN users
  PROVE  Info(id, users[id]) \in Infos
  BY DEF Info, Infos, IsTree, UserInfos

LEMMA UchangeType ==
  ASSUME NEW infos \in SUBSET Infos
  PROVE  Uchange(infos) \in DownMsgs
  BY DEF Uchange, DownMsgs

LEMMA BroadcastType ==
  ASSUME NEW d \in [Fds -> Seq(DownMsgs)],
         NEW users, IsTree(users, Ids, UserInfos), NEW ids \in SUBSET DOMAIN users
  PROVE  broadcast_user_changes(d, users, ids) \in [Fds -> Seq(DownMsgs)]
<1>1. {Info(id, users[id]) : id \in ids} \in SUBSET Infos
  BY InfoType
<1> QED
  BY <1>1, UchangeType, SendAllType DEF broadcast_user_changes

LEMMA AllUsersType ==
  ASSUME NEW users, IsTree(users, Ids, UserInfos)
  PROVE  AllUsers(users) \in Seq(DownMsgs)
<1>1. IsFiniteSet(DOMAIN users)
  BY IdFacts, FS_Subset DEF IsTree
<1>2. Cardinality(DOMAIN users) \in Nat
  BY <1>1, FS_CardinalityType
<1>3. ChunkCount(users) \in Nat
  BY <1>2, RoomAssumption DEF ChunkCount
<1>4. \A n : Chunk(users, n) \in SUBSET Infos
  BY InfoType DEF Chunk
<1>5. \A n : Uchange(Chunk(users, n)) \in DownMsgs
  BY <1>4, UchangeType
<1> QED
  BY <1>3, <1>5 DEF AllUsers

(* What a client sends is told apart by its kind. *)
LEMMA UpKinds ==
  ASSUME NEW m \in UpMsgs
  PROVE  /\ m.kind = "JOIN" => m.nick \in Nicks
         /\ m.kind = "QUIT" => m.id \in AnyId /\ m.key \in AnyKey
         /\ m.kind = "CHALLENGE" => m \in Challenges
         /\ m.kind = "SENDMSG" => m \in SendMsgs
         /\ m.kind = "TURN" => /\ m.user \in AnyId /\ m.chid \in AnyChId
                               /\ m.action \in Acts /\ m.turn_no \in Nat
  BY DEF UpMsgs, Challenges, SendMsgs
----------------------------------------------------------------------------
(* Type correctness of the server's handlers. *)
LEMMA TakesType ==
  ASSUME ChannelsTypeOK, NEW fd \in Fds, NEW kind, Takes(fd, kind)
  PROVE  /\ up' \in [Fds -> Seq(UpMsgs)]
         /\ Head(up[fd]) \in UpMsgs /\ Head(up[fd]).kind = kind
<1>1. up[fd] \in Seq(UpMsgs) /\ up[fd] # <<>>
  BY DEF ChannelsTypeOK, Takes
<1>2. Head(up[fd]) \in UpMsgs /\ Tail(up[fd]) \in Seq(UpMsgs)
  BY <1>1
<1> QED
  BY <1>2 DEF ChannelsTypeOK, Takes

LEMMA UnchangedServerType ==
  ASSUME ServerTypeOK, UNCHANGED serverVars
  PROVE  ServerTypeOK'
  BY DEF ServerTypeOK, serverVars, trees

LEMMA NewUserType ==
  ASSUME NEW fd \in Fds, NEW nick \in Nicks
  PROVE  user_create(fd, nick) \in UserInfos
  BY DEF user_create, UserInfos, UserStates, AnyChId

LEMMA JoinOkType ==
  ASSUME TypeOK, NEW fd \in Fds, HandleJoinOk(fd)
  PROVE  ServerTypeOK' /\ ChannelsTypeOK'
<1> DEFINE nick == Head(up[fd]).nick
           id == IdOf(fd)
           users == Put(user_by_id, id, user_create(fd, nick))
           told == [down EXCEPT ![fd] =
                      (@ \o <<JoinR("ME_OK", id, fd)>>) \o AllUsers(users)]
<1>1. /\ up' \in [Fds -> Seq(UpMsgs)]
      /\ nick \in Nicks
  BY TakesType, UpKinds DEF HandleJoinOk, TypeOK
<1>2. id \in Ids
  BY DEF Ids
<1>3. IsTree(users, Ids, UserInfos)
  BY <1>1, <1>2, NewUserType, PutTree DEF TypeOK, ServerTypeOK
<1>4. /\ IsTree(Put(user_by_fd, fd, id), Fds, Ids)
      /\ IsTree(Put(user_by_nick, nick, id), Nicks, Ids)
  BY <1>1, <1>2, PutTree DEF TypeOK, ServerTypeOK
<1>5. told \in [Fds -> Seq(DownMsgs)]
  <2>1. JoinR("ME_OK", id, fd) \in DownMsgs
    BY <1>2 DEF JoinR, DownMsgs, AnyId, AnyKey
  <2>2. AllUsers(users) \in Seq(DownMsgs)
    BY <1>3, AllUsersType
  <2>3. down \in [Fds -> Seq(DownMsgs)] /\ down[fd] \in Seq(DownMsgs)
    BY DEF TypeOK, ChannelsTypeOK
  <2> HIDE DEF id, users
  <2>4. (down[fd] \o <<JoinR("ME_OK", id, fd)>>) \o AllUsers(users) \in Seq(DownMsgs)
    BY <2>1, <2>2, <2>3
  <2> QED
    BY <2>3, <2>4
<1>6. Uchange({Info(id, users[id])}) \in DownMsgs
  <2>1. id \in DOMAIN users
    BY DEF Put
  <2> HIDE DEF id, users
  <2> QED
    BY <1>3, <2>1, InfoType, UchangeType
<1>7. SendAll(told, FdsOf(users) \ {fd}, Uchange({Info(id, users[id])}))
        \in [Fds -> Seq(DownMsgs)]
  <2> HIDE DEF id, users, told
  <2> QED
    BY <1>5, <1>6, SendAllType
<1>8. /\ user_by_id' = users
      /\ user_by_fd' = Put(user_by_fd, fd, id)
      /\ user_by_nick' = Put(user_by_nick, nick, id)
      /\ user_cnt' = user_cnt + 1
      /\ server' \in {"crashed", server}
      /\ down' = SendAll(told, FdsOf(users) \ {fd}, Uchange({Info(id, users[id])}))
      /\ UNCHANGED <<ch_by_id, drawn>>
  BY DEF HandleJoinOk
<1> HIDE DEF id, users, told, nick
<1>9. ChannelsTypeOK'
  BY <1>1, <1>7, <1>8 DEF ChannelsTypeOK
<1> QED
  BY <1>3, <1>4, <1>8, <1>9 DEF TypeOK, ServerTypeOK

LEMMA JoinRefusedType ==
  ASSUME TypeOK, NEW fd \in Fds, HandleJoinRefused(fd)
  PROVE  ServerTypeOK' /\ ChannelsTypeOK'
<1>1. up' \in [Fds -> Seq(UpMsgs)]
  BY TakesType DEF HandleJoinRefused, TypeOK
<1>2. PICK stale \in Fds \cup {NoId} :
        LET err == JoinError(Head(up[fd]).nick, stale)
        IN  err # "ME_OK" /\ down' = Send(down, fd, JoinR(err, NoId, 0))
  BY DEF HandleJoinRefused
<1>3. JoinR(JoinError(Head(up[fd]).nick, stale), NoId, 0) \in DownMsgs
  BY DEF JoinR, JoinError, DownMsgs, AnyId, AnyKey
<1>4. down' \in [Fds -> Seq(DownMsgs)]
  BY <1>2, <1>3, SendType DEF TypeOK, ChannelsTypeOK
<1> QED
  BY <1>1, <1>4, UnchangedServerType DEF HandleJoinRefused, TypeOK, ChannelsTypeOK

(* A turn keeps the type of its challenge and its users; whoever wins is   *)
(* one of the two.                                                         *)
LEMMA AfterTurnType ==
  ASSUME NEW ch \in ChallengeRecs, NEW damage \in Nat
  PROVE  /\ AfterTurn(ch, damage) \in ChallengeRecs
         /\ AfterTurn(ch, damage).user1 = ch.user1
         /\ AfterTurn(ch, damage).user2 = ch.user2
<1>1. ch.turn_no \in Nat /\ ch.hp1 \in Int /\ ch.hp2 \in Int
  BY DEF ChallengeRecs
<1>2. (ch.turn_no + 1) % (UINT16_MAX + 1) \in Nat
  <2>1. UINT16_MAX \in Nat
    BY UintAssumption
  <2> QED
    BY <1>1, <2>1
<1>3. \A b \in BOOLEAN : /\ (IF b THEN ch.hp1 - damage ELSE ch.hp1) \in Int
                         /\ (IF b THEN ch.hp2 - damage ELSE ch.hp2) \in Int
  BY <1>1
<1> QED
  BY <1>2, <1>3 DEF AfterTurn, ChallengeRecs, AnyAct, Acted

LEMMA WinnerType ==
  ASSUME NEW ch \in ChallengeRecs, NEW force_lose_id
  PROVE  Winner(ch, force_lose_id) \in {ch.user1, ch.user2, NoId}
  BY DEF Winner

LEMMA TurnRType ==
  ASSUME NEW played \in ChallengeRecs, NEW after \in ChallengeRecs,
         NEW winner \in AnyId
  PROVE  TurnR(played, after, winner) \in DownMsgs
  BY DEF TurnR, DownMsgs, ChallengeRecs

LEMMA SettleType ==
  ASSUME NEW user \in UserInfos, NEW points \in Int
  PROVE  Settle(user, points) \in UserInfos
<1>1. user.score + points \in Int
  BY DEF UserInfos
<1>2. (IF user.state = "UBATTLING" THEN "UONLINE" ELSE user.state) \in UserStates
  BY DEF UserInfos, UserStates
<1> QED
  BY <1>1, <1>2 DEF Settle, UserInfos

LEMMA EndBattleType ==
  ASSUME NEW users, IsTree(users, Ids, UserInfos),
         NEW ch \in ChallengeRecs, NEW winner,
         ch.user1 \in DOMAIN users, ch.user2 \in DOMAIN users,
         winner = ch.user1 \/ winner = ch.user2,
         NEW bonus \in Nat, NEW penalty \in Nat
  PROVE  /\ IsTree(EndBattle(users, ch, winner, bonus, penalty), Ids, UserInfos)
         /\ DOMAIN EndBattle(users, ch, winner, bonus, penalty) = DOMAIN users
<1> DEFINE loser == IF winner = ch.user1 THEN ch.user2 ELSE ch.user1
           won == [users EXCEPT ![winner] = Settle(@, bonus)]
<1>1. Settle(users[winner], bonus) \in UserInfos
  BY SettleType DEF IsTree
<1>2. IsTree(won, Ids, UserInfos) /\ DOMAIN won = DOMAIN users
  BY <1>1, UpdateTree
<1>3. loser \in DOMAIN users
  OBVIOUS
<1> HIDE DEF won, loser
<1>4. Settle(won[loser], - penalty) \in UserInfos
  BY <1>2, <1>3, SettleType DEF IsTree
<1>5. IsTree([won EXCEPT ![loser] = Settle(@, - penalty)], Ids, UserInfos)
  BY <1>2, <1>3, <1>4, UpdateTree
<1> QED
  BY <1>2, <1>5 DEF EndBattle, won, loser

(* What judge_turn leaves has its types, and as many users as before. *)
JudgedOK(left) ==
  /\ IsTree(left.users, Ids, UserInfos)
  /\ DOMAIN left.users = DOMAIN user_by_id
  /\ IsTree(left.chs, ChIds, ChallengeRecs)
  /\ left.down \in [Fds -> Seq(DownMsgs)]
  /\ left.server \in {"running", "crashed", "exhausted"}

LEMMA JudgeType ==
  ASSUME TypeOK, NEW c \in ChIds, NEW ch \in ChallengeRecs, NEW force_lose_id,
         NEW damage \in Damages \cup {0}, NEW bonus \in Bonuses,
         NEW penalty \in Penalties
  PROVE  JudgedOK(judge_turn(c, ch, force_lose_id, damage, bonus, penalty))
<1> DEFINE left == judge_turn(c, ch, force_lose_id, damage, bonus, penalty)
<1> SUFFICES JudgedOK(left)
  OBVIOUS
<1> DEFINE after == AfterTurn(ch, damage)
           winner == Winner(after, force_lose_id)
           r == TurnR(ch, after, winner)
           sent1 == Send(down, user_by_id[ch.user1].fd, r)
           sent == Send(sent1, user_by_id[ch.user2].fd, r)
           users == EndBattle(user_by_id, after, winner, bonus, penalty)
<1>0. damage \in Nat /\ bonus \in Nat /\ penalty \in Nat
  BY RuleAssumption
<1>1. /\ IsTree(user_by_id, Ids, UserInfos) /\ IsTree(ch_by_id, ChIds, ChallengeRecs)
      /\ down \in [Fds -> Seq(DownMsgs)]
      /\ server \in {"running", "crashed", "exhausted"}
  BY DEF TypeOK, ServerTypeOK, ChannelsTypeOK
<1>2. CASE ~ ({ch.user1, ch.user2} \subseteq DOMAIN user_by_id)
  BY <1>1, <1>2 DEF judge_turn, JudgedOK
<1>3. CASE {ch.user1, ch.user2} \subseteq DOMAIN user_by_id
  <2>1. /\ after \in ChallengeRecs
        /\ after.user1 = ch.user1 /\ after.user2 = ch.user2
    BY <1>0, AfterTurnType
  <2>2. winner \in {ch.user1, ch.user2, NoId} /\ winner \in AnyId
    <3> HIDE DEF after
    <3> QED
      BY <2>1, WinnerType DEF ChallengeRecs, AnyId
  <2>3. r \in DownMsgs
    <3> HIDE DEF after, winner
    <3> QED
      BY <2>1, <2>2, TurnRType
  <2>4. user_by_id[ch.user1].fd \in Fds /\ user_by_id[ch.user2].fd \in Fds
    BY <1>1, <1>3 DEF IsTree, UserInfos
  <2>5. sent \in [Fds -> Seq(DownMsgs)]
    <3> HIDE DEF r
    <3>1. sent1 \in [Fds -> Seq(DownMsgs)]
      BY <1>1, <2>3, <2>4, SendType
    <3> HIDE DEF sent1
    <3> QED
      BY <2>3, <2>4, <3>1, SendType
  <2>6. CASE winner = NoId
    <3>1. left = [users |-> user_by_id, chs |-> Put(ch_by_id, c, after),
                  down |-> sent, server |-> server]
      BY <1>3, <2>6 DEF judge_turn
    <3>2. IsTree(Put(ch_by_id, c, after), ChIds, ChallengeRecs)
      <4> HIDE DEF after
      <4> QED
        BY <1>1, <2>1, PutTree
    <3> HIDE DEF after, sent, left
    <3> QED
      BY <1>1, <2>5, <3>1, <3>2 DEF JudgedOK
  <2>7. CASE winner # NoId
    <3>1. left = [users |-> users, chs |-> tdelete(ch_by_id, c),
                  down |-> broadcast_user_changes(sent, users, {ch.user1, ch.user2}),
                  server |-> server]
      BY <1>3, <2>7 DEF judge_turn
    <3>2. IsTree(users, Ids, UserInfos) /\ DOMAIN users = DOMAIN user_by_id
      <4>1. /\ after.user1 \in DOMAIN user_by_id
            /\ after.user2 \in DOMAIN user_by_id
            /\ winner = after.user1 \/ winner = after.user2
        BY <1>3, <2>1, <2>2, <2>7
      <4> HIDE DEF after, winner
      <4> QED
        BY <1>0, <1>1, <2>1, <4>1, EndBattleType
    <3>3. IsTree(tdelete(ch_by_id, c), ChIds, ChallengeRecs)
      BY <1>1, DeleteTree
    <3>4. broadcast_user_changes(sent, users, {ch.user1, ch.user2})
            \in [Fds -> Seq(DownMsgs)]
      <4> HIDE DEF sent, users
      <4> QED
        BY <1>3, <2>5, <3>2, BroadcastType
    <3>5. /\ left.users = users /\ left.chs = tdelete(ch_by_id, c)
          /\ left.down = broadcast_user_changes(sent, users, {ch.user1, ch.user2})
          /\ left.server = server
      <4> HIDE DEF sent, users, left
      <4> QED
        BY <3>1
    <3> HIDE DEF sent, users, left
    <3> QED
      BY <1>1, <3>2, <3>3, <3>4, <3>5 DEF JudgedOK
  <2> QED
    BY <2>6, <2>7
<1> QED
  BY <1>2, <1>3

LEMMA QuitUserType ==
  ASSUME TypeOK, NEW u \in DOMAIN user_by_id, quit_user(u)
  PROVE  ServerTypeOK' /\ down' \in [Fds -> Seq(DownMsgs)]
<1> DEFINE user == user_by_id[u]
           Left(bonus, penalty) ==
             IF Fights(u)
               THEN judge_turn(user.chid, ch_by_id[user.chid], u, 0, bonus, penalty)
               ELSE [users |-> user_by_id, chs |-> ch_by_id, down |-> down,
                     server |-> server]
<1>1. PICK bonus \in Bonuses, penalty \in Penalties :
        LET left == Left(bonus, penalty)
            users == [left.users EXCEPT ![u].state = "UOFFLINE"]
        IN  /\ ch_by_id' = left.chs
            /\ down' = broadcast_user_changes(left.down, users, {u})
            /\ user_by_id' = tdelete(users, u)
            /\ user_by_nick' = tdelete(user_by_nick, user.nick)
            /\ user_by_fd' = tdelete(user_by_fd, user.fd)
            /\ user_cnt' = user_cnt - 1
            /\ server' = IF user.nick \in DOMAIN user_by_nick
                           THEN left.server ELSE "crashed"
            /\ UNCHANGED drawn
  BY DEF quit_user
<1> DEFINE left == Left(bonus, penalty)
           users == [left.users EXCEPT ![u].state = "UOFFLINE"]
<1>2. JudgedOK(left)
  <2>1. CASE Fights(u)
    <3>1. user.chid \in ChIds /\ ch_by_id[user.chid] \in ChallengeRecs
      BY <2>1 DEF Fights, TypeOK, ServerTypeOK, IsTree
    <3> HIDE DEF user
    <3> QED
      BY <2>1, <3>1, JudgeType
  <2>2. CASE ~ Fights(u)
    BY <2>2 DEF TypeOK, ServerTypeOK, ChannelsTypeOK, JudgedOK
  <2> QED
    BY <2>1, <2>2
<1>3. /\ ch_by_id' = left.chs
      /\ down' = broadcast_user_changes(left.down, users, {u})
      /\ user_by_id' = tdelete(users, u)
      /\ user_by_nick' = tdelete(user_by_nick, user.nick)
      /\ user_by_fd' = tdelete(user_by_fd, user.fd)
      /\ user_cnt' = user_cnt - 1
      /\ server' \in {left.server, "crashed"}
      /\ drawn' = drawn
  BY <1>1
<1> HIDE DEF left
<1>4. IsTree(users, Ids, UserInfos) /\ DOMAIN users = DOMAIN user_by_id
  <2>1. [left.users[u] EXCEPT !.state = "UOFFLINE"] \in UserInfos
    BY <1>2 DEF IsTree, UserInfos, UserStates, JudgedOK
  <2> QED
    BY <1>2, <2>1, UpdateTree DEF JudgedOK
<1> HIDE DEF users, user
<1>5. down' \in [Fds -> Seq(DownMsgs)]
  BY <1>2, <1>3, <1>4, BroadcastType DEF JudgedOK
<1>6. /\ IsTree(user_by_id', Ids, UserInfos)
      /\ IsTree(user_by_fd', Fds, Ids)
      /\ IsTree(user_by_nick', Nicks, Ids)
  BY <1>3, <1>4, DeleteTree DEF TypeOK, ServerTypeOK
<1>7. IsTree(ch_by_id', ChIds, ChallengeRecs)
  BY <1>2, <1>3 DEF JudgedOK
<1>8. /\ user_cnt' \in Int /\ drawn' \in SUBSET ChIds
      /\ server' \in {"running", "crashed", "exhausted"}
  BY <1>2, <1>3 DEF TypeOK, ServerTypeOK, JudgedOK
<1> QED
  BY <1>5, <1>6, <1>7, <1>8 DEF ServerTypeOK

LEMMA QuitType ==
  ASSUME TypeOK, NEW fd \in Fds, HandleQuit(fd)
  PROVE  ServerTypeOK' /\ ChannelsTypeOK'
<1>1. up' \in [Fds -> Seq(UpMsgs)]
  BY TakesType DEF HandleQuit, TypeOK
<1>2. CASE Known(Head(up[fd]).id, Head(up[fd]).key)
  BY <1>1, <1>2, QuitUserType DEF HandleQuit, Known, ChannelsTypeOK
<1>3. CASE ~ Known(Head(up[fd]).id, Head(up[fd]).key)
  BY <1>1, <1>3, UnchangedServerType DEF HandleQuit, TypeOK, ChannelsTypeOK
<1> QED
  BY <1>2, <1>3

(* handle_disconnect finds its user through user_by_fd, so its type        *)
(* correctness rests on IndexesAgree.                                      *)
LEMMA DisconnectType ==
  ASSUME TypeOK, IndexesAgree, NEW fd \in Fds,
         HandleDisconnect(fd) \/ HandleDisconnectUnknown(fd)
  PROVE  ServerTypeOK' /\ ChannelsTypeOK'
<1>1. up' \in [Fds -> Seq(UpMsgs)]
  BY TakesType DEF HandleDisconnect, HandleDisconnectUnknown, TypeOK
<1>2. CASE HandleDisconnect(fd)
  <2>1. user_by_fd[fd] \in DOMAIN user_by_id
    BY <1>2 DEF HandleDisconnect, IndexesAgree
  <2> QED
    BY <1>1, <1>2, <2>1, QuitUserType DEF HandleDisconnect, ChannelsTypeOK
<1>3. CASE HandleDisconnectUnknown(fd)
  BY <1>1, <1>3, UnchangedServerType
     DEF HandleDisconnectUnknown, TypeOK, ChannelsTypeOK
<1> QED
  BY <1>2, <1>3

(* A request taken by handle_challenge; without an error its users are     *)
(* online, and for an answer its challenge is there.                       *)
LEMMA ChallengeFacts ==
  ASSUME TypeOK, NEW fd \in Fds, Takes(fd, "CHALLENGE")
  PROVE  LET m == Head(up[fd]) IN
         /\ up' \in [Fds -> Seq(UpMsgs)]
         /\ m \in Challenges
         /\ ChallengeError(m) = "ME_OK" =>
              /\ m.id1 \in DOMAIN user_by_id /\ m.id2 \in DOMAIN user_by_id
              /\ user_by_id[m.id1] \in UserInfos /\ user_by_id[m.id2] \in UserInfos
              /\ m.action \in {"C_ACCEPT", "C_REJECT"} =>
                   /\ m.chid \in DOMAIN ch_by_id /\ m.chid \in ChIds
                   /\ ch_by_id[m.chid] \in ChallengeRecs
<1> DEFINE m == Head(up[fd])
<1>1. up' \in [Fds -> Seq(UpMsgs)] /\ m \in Challenges
  BY TakesType, UpKinds DEF TypeOK
<1> HIDE DEF m
<1>2. ASSUME ChallengeError(m) = "ME_OK"
      PROVE  /\ m.id1 \in DOMAIN user_by_id /\ m.id2 \in DOMAIN user_by_id
             /\ m.action \in {"C_ACCEPT", "C_REJECT"} => m.chid \in DOMAIN ch_by_id
  BY <1>1, <1>2 DEF ChallengeError, Challenges
<1>3. /\ \A id \in DOMAIN user_by_id : user_by_id[id] \in UserInfos
      /\ \A c \in DOMAIN ch_by_id : c \in ChIds /\ ch_by_id[c] \in ChallengeRecs
  BY DEF TypeOK, ServerTypeOK, IsTree
<1> QED
  BY <1>1, <1>2, <1>3 DEF m

LEMMA ChallengeRType ==
  ASSUME NEW m \in Challenges, NEW is_id1 \in BOOLEAN,
         NEW error \in {"ME_OK", "NXID", "ICKEY", "ENGAGED", "CHLSELF", "NXCHID",
                        "CANCELLED", "REJECTED"}
  PROVE  ChallengeR(error, m, is_id1) \in DownMsgs
  BY DEF ChallengeR, Challenges, DownMsgs

LEMMA ChallengeErrorType ==
  ASSUME TypeOK, NEW fd \in Fds, HandleChallengeError(fd)
  PROVE  ServerTypeOK' /\ ChannelsTypeOK'
<1> DEFINE m == Head(up[fd])
<1>1. up' \in [Fds -> Seq(UpMsgs)] /\ m \in Challenges
  BY ChallengeFacts DEF HandleChallengeError
<1>2. ChallengeError(m) \in {"ME_OK", "NXID", "ICKEY", "ENGAGED", "CHLSELF", "NXCHID",
                             "CANCELLED", "REJECTED"}
  <2> HIDE DEF m
  <2> QED
    BY <1>1 DEF ChallengeError, Challenges
<1>3. ChallengeR(ChallengeError(m), m, FALSE) \in DownMsgs
  <2> HIDE DEF m
  <2> QED
    BY <1>1, <1>2, ChallengeRType
<1>4. down' \in [Fds -> Seq(DownMsgs)]
  <2>1. down' = Send(down, fd, ChallengeR(ChallengeError(m), m, FALSE))
    BY DEF HandleChallengeError
  <2> HIDE DEF m
  <2> QED
    BY <1>3, <2>1, SendType DEF TypeOK, ChannelsTypeOK
<1> QED
  BY <1>1, <1>4, UnchangedServerType DEF HandleChallengeError, TypeOK, ChannelsTypeOK

LEMMA ChallengeIgnoredType ==
  ASSUME TypeOK, NEW fd \in Fds, HandleChallengeIgnored(fd)
  PROVE  ServerTypeOK' /\ ChannelsTypeOK'
<1>1. up' \in [Fds -> Seq(UpMsgs)]
  BY ChallengeFacts DEF HandleChallengeIgnored
<1> QED
  BY <1>1, UnchangedServerType DEF HandleChallengeIgnored, TypeOK, ChannelsTypeOK

(* Setting a user's challenge, or its challenge and state. *)
LEMMA SetChidType ==
  ASSUME NEW users, IsTree(users, Ids, UserInfos), NEW id \in DOMAIN users,
         NEW c \in AnyChId
  PROVE  /\ IsTree([users EXCEPT ![id].chid = c], Ids, UserInfos)
         /\ DOMAIN [users EXCEPT ![id].chid = c] = DOMAIN users
<1>1. [users[id] EXCEPT !.chid = c] \in UserInfos
  BY DEF IsTree, UserInfos
<1> QED
  BY <1>1, UpdateTree

LEMMA StartType ==
  ASSUME TypeOK, NEW fd \in Fds, HandleStart(fd)
  PROVE  ServerTypeOK' /\ ChannelsTypeOK'
<1> DEFINE m == Head(up[fd])
<1>1. /\ up' \in [Fds -> Seq(UpMsgs)] /\ m \in Challenges
      /\ m.id1 \in DOMAIN user_by_id /\ m.id2 \in DOMAIN user_by_id
      /\ user_by_id[m.id2] \in UserInfos
  BY ChallengeFacts DEF HandleStart, Valid
<1>2. PICK c \in FreeChIds :
        /\ ch_by_id' = Put(ch_by_id, c, add_challenge(m))
        /\ drawn' = drawn \cup {c}
        /\ user_by_id' = [user_by_id EXCEPT ![m.id1].chid = c]
        /\ down' = Send(down, user_by_id[m.id2].fd, [m EXCEPT !.chid = c])
  BY DEF HandleStart
<1>3. UNCHANGED <<user_by_fd, user_by_nick, user_cnt, server>>
  BY DEF HandleStart
<1> HIDE DEF m
<1>4. c \in ChIds /\ c \in AnyChId
  BY DEF FreeChIds, AnyChId
<1>5. m.id1 \in Ids /\ m.id2 \in Ids
  BY <1>1 DEF TypeOK, ServerTypeOK, IsTree
<1>6. add_challenge(m) \in ChallengeRecs
  BY <1>5, RuleAssumption DEF add_challenge, ChallengeRecs, AnyAct
<1>7. IsTree(ch_by_id', ChIds, ChallengeRecs)
  BY <1>2, <1>4, <1>6, PutTree DEF TypeOK, ServerTypeOK
<1>8. IsTree(user_by_id', Ids, UserInfos)
  BY <1>1, <1>2, <1>4, SetChidType DEF TypeOK, ServerTypeOK
<1>9. down' \in [Fds -> Seq(DownMsgs)]
  <2>1. [m EXCEPT !.chid = c] \in DownMsgs
    BY <1>1, <1>4 DEF Challenges, DownMsgs
  <2>2. user_by_id[m.id2].fd \in Fds
    BY <1>1 DEF UserInfos
  <2> QED
    BY <1>2, <2>1, <2>2, SendType DEF TypeOK, ChannelsTypeOK
<1>10. drawn' \in SUBSET ChIds
  BY <1>2, <1>4 DEF TypeOK, ServerTypeOK
<1> QED
  BY <1>1, <1>3, <1>7, <1>8, <1>9, <1>10 DEF TypeOK, ServerTypeOK, ChannelsTypeOK

LEMMA StartNoIdType ==
  ASSUME TypeOK, NEW fd \in Fds, HandleStartNoId(fd)
  PROVE  ServerTypeOK' /\ ChannelsTypeOK'
<1>1. up' \in [Fds -> Seq(UpMsgs)]
  BY ChallengeFacts DEF HandleStartNoId
<1> QED
  BY <1>1 DEF HandleStartNoId, TypeOK, ServerTypeOK, ChannelsTypeOK, trees

LEMMA CancelType ==
  ASSUME TypeOK, NEW fd \in Fds, HandleCancel(fd)
  PROVE  ServerTypeOK' /\ ChannelsTypeOK'
<1> DEFINE m == Head(up[fd])
           c == user_by_id[m.id1].chid
           user2 == ch_by_id[c].user2
<1>1. /\ up' \in [Fds -> Seq(UpMsgs)] /\ m \in Challenges
      /\ m.id1 \in DOMAIN user_by_id
  BY ChallengeFacts DEF HandleCancel, Valid
<1>2. /\ user_by_id' = [user_by_id EXCEPT ![m.id1].chid = NoId]
      /\ ch_by_id' = tdelete(ch_by_id, c)
      /\ down' = IF user2 \in DOMAIN user_by_id
                   THEN Send(down, user_by_id[user2].fd,
                             ChallengeR("CANCELLED", m, FALSE))
                   ELSE down
      /\ UNCHANGED <<user_by_fd, user_by_nick, user_cnt, drawn, server>>
  BY DEF HandleCancel
<1> HIDE DEF m, c, user2
<1>3. IsTree(user_by_id', Ids, UserInfos)
  BY <1>1, <1>2, SetChidType DEF TypeOK, ServerTypeOK, AnyChId
<1>4. IsTree(ch_by_id', ChIds, ChallengeRecs)
  BY <1>2, DeleteTree DEF TypeOK, ServerTypeOK
<1>5. down' \in [Fds -> Seq(DownMsgs)]
  <2>1. ChallengeR("CANCELLED", m, FALSE) \in DownMsgs
    BY <1>1, ChallengeRType
  <2>2. user2 \in DOMAIN user_by_id => user_by_id[user2].fd \in Fds
    BY DEF TypeOK, ServerTypeOK, IsTree, UserInfos
  <2> QED
    BY <1>2, <2>1, <2>2, SendType DEF TypeOK, ChannelsTypeOK
<1> QED
  BY <1>1, <1>2, <1>3, <1>4, <1>5 DEF TypeOK, ServerTypeOK, ChannelsTypeOK

LEMMA RejectType ==
  ASSUME TypeOK, NEW fd \in Fds, HandleReject(fd)
  PROVE  ServerTypeOK' /\ ChannelsTypeOK'
<1> DEFINE m == Head(up[fd])
<1>1. /\ up' \in [Fds -> Seq(UpMsgs)] /\ m \in Challenges
      /\ user_by_id[m.id1] \in UserInfos
  BY ChallengeFacts DEF HandleReject, Rejects, Valid
<1>2. /\ ch_by_id' = tdelete(ch_by_id, m.chid)
      /\ down' = Send(down, user_by_id[m.id1].fd, ChallengeR("REJECTED", m, FALSE))
      /\ UNCHANGED <<trees, drawn, server>>
  BY DEF HandleReject
<1> HIDE DEF m
<1>3. IsTree(ch_by_id', ChIds, ChallengeRecs)
  BY <1>2, DeleteTree DEF TypeOK, ServerTypeOK
<1>4. down' \in [Fds -> Seq(DownMsgs)]
  <2>1. ChallengeR("REJECTED", m, FALSE) \in DownMsgs
    BY <1>1, ChallengeRType
  <2>2. user_by_id[m.id1].fd \in Fds
    BY <1>1 DEF UserInfos
  <2> QED
    BY <1>2, <2>1, <2>2, SendType DEF TypeOK, ChannelsTypeOK
<1> QED
  BY <1>1, <1>2, <1>3, <1>4 DEF TypeOK, ServerTypeOK, ChannelsTypeOK, trees

(* The users a C_ACCEPT puts into battle. *)
Battling(users, id1, id2, c) ==
  [users EXCEPT ![id1].state = "UBATTLING", ![id1].chid = c,
                ![id2].state = "UBATTLING", ![id2].chid = c]

LEMMA BattlingType ==
  ASSUME NEW users, IsTree(users, Ids, UserInfos), NEW id1 \in DOMAIN users,
         NEW id2 \in DOMAIN users, NEW c \in ChIds
  PROVE  /\ IsTree(Battling(users, id1, id2, c), Ids, UserInfos)
         /\ DOMAIN Battling(users, id1, id2, c) = DOMAIN users
         /\ \A id \in DOMAIN users :
              /\ Battling(users, id1, id2, c)[id].fd = users[id].fd
              /\ Battling(users, id1, id2, c)[id].nick = users[id].nick
<1> DEFINE B(u) == [u EXCEPT !.state = "UBATTLING", !.chid = c]
           one == [users EXCEPT ![id1] = B(@)]
           two == [one EXCEPT ![id2] = B(@)]
<1>1. \A u \in UserInfos : /\ B(u) \in UserInfos
                           /\ B(u).fd = u.fd /\ B(u).nick = u.nick
  BY DEF UserInfos, UserStates, AnyChId
<1>2. Battling(users, id1, id2, c) = two
  BY DEF Battling, IsTree, UserInfos
<1>3. \A id \in DOMAIN users : users[id] \in UserInfos
  BY DEF IsTree
<1> HIDE DEF B
<1>4. /\ IsTree(one, Ids, UserInfos) /\ DOMAIN one = DOMAIN users
      /\ \A id \in DOMAIN users : one[id].fd = users[id].fd /\ one[id].nick = users[id].nick
  BY <1>1, <1>3 DEF IsTree
<1>5. \A id \in DOMAIN users : one[id] \in UserInfos
  BY <1>4 DEF IsTree
<1> HIDE DEF one
<1>6. /\ IsTree(two, Ids, UserInfos) /\ DOMAIN two = DOMAIN users
      /\ \A id \in DOMAIN users : two[id].fd = one[id].fd /\ two[id].nick = one[id].nick
  BY <1>1, <1>4, <1>5 DEF IsTree
<1> HIDE DEF two
<1> QED
  BY <1>2, <1>4, <1>6

LEMMA AcceptType ==
  ASSUME TypeOK, NEW fd \in Fds, HandleAccept(fd)
  PROVE  ServerTypeOK' /\ ChannelsTypeOK'
<1> DEFINE m == Head(up[fd])
           c == m.chid
           ch == [ch_by_id[c] EXCEPT !.state = "STARTED", !.turn_no = 0]
           users == Battling(user_by_id, m.id1, m.id2, c)
           told == broadcast_user_changes(down, users, {m.id1, m.id2})
           replied1 == Send(told, users[m.id1].fd, ChallengeR("ME_OK", m, TRUE))
           replied == Send(replied1, users[m.id2].fd, ChallengeR("ME_OK", m, FALSE))
           after == AfterTurn(ch, 0)
           r == TurnR(ch, after, Winner(after, NoId))
           turned1 == Send(replied, users[ch.user1].fd, r)
           turned == Send(turned1, users[ch.user2].fd, r)
<1>1. /\ up' \in [Fds -> Seq(UpMsgs)] /\ m \in Challenges
      /\ m.id1 \in DOMAIN user_by_id /\ m.id2 \in DOMAIN user_by_id
      /\ c \in ChIds /\ ch_by_id[c] \in ChallengeRecs
  BY ChallengeFacts DEF HandleAccept, Valid
<1>2. /\ user_by_id' = users
      /\ ch_by_id' = Put(ch_by_id, c, after)
      /\ IF {ch.user1, ch.user2} \subseteq DOMAIN users
           THEN down' = turned /\ UNCHANGED server
           ELSE down' = replied /\ server' = "crashed"
      /\ UNCHANGED <<user_by_fd, user_by_nick, user_cnt, drawn>>
  BY DEF HandleAccept, Battling
<1> HIDE DEF m
<1>3. ch \in ChallengeRecs
  BY <1>1 DEF ChallengeRecs
<1> HIDE DEF c, ch
<1>4. IsTree(users, Ids, UserInfos) /\ DOMAIN users = DOMAIN user_by_id
  BY <1>1, BattlingType DEF TypeOK, ServerTypeOK
<1> HIDE DEF users
<1>5. after \in ChallengeRecs
  BY <1>3, AfterTurnType
<1> HIDE DEF after
<1>6. r \in DownMsgs
  <2>1. Winner(after, NoId) \in AnyId
    BY <1>5, WinnerType DEF ChallengeRecs, AnyId
  <2> QED
    BY <1>3, <1>5, <2>1, TurnRType
<1> HIDE DEF r
<1>7. told \in [Fds -> Seq(DownMsgs)]
  BY <1>1, <1>4, BroadcastType DEF TypeOK, ChannelsTypeOK
<1> HIDE DEF told
<1>8. \A id \in DOMAIN users : users[id].fd \in Fds
  BY <1>4 DEF IsTree, UserInfos
<1>9. replied1 \in [Fds -> Seq(DownMsgs)]
  <2>1. ChallengeR("ME_OK", m, TRUE) \in DownMsgs
    BY <1>1, ChallengeRType
  <2> QED
    BY <1>1, <1>4, <1>7, <1>8, <2>1, SendType
<1> HIDE DEF replied1
<1>10. replied \in [Fds -> Seq(DownMsgs)]
  <2>1. ChallengeR("ME_OK", m, FALSE) \in DownMsgs
    BY <1>1, ChallengeRType
  <2> QED
    BY <1>1, <1>4, <1>8, <1>9, <2>1, SendType
<1> HIDE DEF replied
<1>11. ASSUME {ch.user1, ch.user2} \subseteq DOMAIN users
       PROVE  turned \in [Fds -> Seq(DownMsgs)]
  <2>1. users[ch.user1].fd \in Fds /\ users[ch.user2].fd \in Fds
    BY <1>8, <1>11
  <2>2. turned1 \in [Fds -> Seq(DownMsgs)]
    BY <1>6, <1>10, <2>1, SendType
  <2> HIDE DEF turned1
  <2> QED
    BY <1>6, <2>1, <2>2, SendType
<1>12. /\ down' \in [Fds -> Seq(DownMsgs)]
       /\ server' \in {"running", "crashed", "exhausted"}
  BY <1>2, <1>10, <1>11 DEF TypeOK, ServerTypeOK
<1>13. IsTree(ch_by_id', ChIds, ChallengeRecs)
  BY <1>1, <1>2, <1>5, PutTree DEF TypeOK, ServerTypeOK
<1>14. IsTree(user_by_id', Ids, UserInfos)
  BY <1>2, <1>4
<1> QED
  BY <1>1, <1>2, <1>12, <1>13, <1>14 DEF TypeOK, ServerTypeOK, ChannelsTypeOK

LEMMA NotedType ==
  ASSUME NEW ch \in ChallengeRecs, NEW user, NEW action \in Acts
  PROVE  Noted(ch, user, action) \in ChallengeRecs
  BY DEF Noted, ChallengeRecs, AnyAct

LEMMA TurnFacts ==
  ASSUME TypeOK, NEW fd \in Fds, Takes(fd, "TURN")
  PROVE  LET m == Head(up[fd]) IN
         /\ up' \in [Fds -> Seq(UpMsgs)]
         /\ TurnTaken(m) => m.chid \in ChIds /\ NotedBy(m) \in ChallengeRecs
<1> DEFINE m == Head(up[fd])
<1>1. up' \in [Fds -> Seq(UpMsgs)] /\ m.action \in Acts
  BY TakesType, UpKinds DEF TypeOK
<1> HIDE DEF m
<1>2. ASSUME TurnTaken(m)
      PROVE  m.chid \in ChIds /\ ch_by_id[m.chid] \in ChallengeRecs
  BY <1>2 DEF TurnTaken, TypeOK, ServerTypeOK, IsTree
<1>3. TurnTaken(m) => NotedBy(m) \in ChallengeRecs
  BY <1>1, <1>2, NotedType DEF NotedBy
<1> QED
  BY <1>1, <1>2, <1>3 DEF m

LEMMA TurnType ==
  ASSUME TypeOK, NEW fd \in Fds,
         HandleTurnIgnored(fd) \/ HandleTurnFirst(fd) \/ HandleTurnJudged(fd)
  PROVE  ServerTypeOK' /\ ChannelsTypeOK'
<1> DEFINE m == Head(up[fd])
<1>1. /\ up' \in [Fds -> Seq(UpMsgs)]
      /\ TurnTaken(m) => m.chid \in ChIds /\ NotedBy(m) \in ChallengeRecs
  BY TurnFacts DEF HandleTurnIgnored, HandleTurnFirst, HandleTurnJudged
<1>2. CASE HandleTurnIgnored(fd)
  BY <1>1, <1>2, UnchangedServerType DEF HandleTurnIgnored, TypeOK, ChannelsTypeOK
<1>3. CASE HandleTurnFirst(fd)
  <2>1. /\ TurnTaken(m) /\ ch_by_id' = Put(ch_by_id, m.chid, NotedBy(m))
        /\ UNCHANGED <<trees, drawn, server, down>>
    BY <1>3 DEF HandleTurnFirst
  <2> HIDE DEF m
  <2>2. IsTree(ch_by_id', ChIds, ChallengeRecs)
    BY <1>1, <2>1, PutTree DEF TypeOK, ServerTypeOK
  <2> QED
    BY <1>1, <2>1, <2>2 DEF TypeOK, ServerTypeOK, ChannelsTypeOK, trees
<1>4. CASE HandleTurnJudged(fd)
  <2> DEFINE Left(damage, bonus, penalty) ==
               judge_turn(m.chid, NotedBy(m), NoId, damage, bonus, penalty)
  <2>1. /\ TurnTaken(m)
        /\ UNCHANGED <<user_by_fd, user_by_nick, user_cnt, drawn>>
    BY <1>4 DEF HandleTurnJudged
  <2>2. PICK damage \in Damages, bonus \in Bonuses, penalty \in Penalties :
          /\ user_by_id' = Left(damage, bonus, penalty).users
          /\ ch_by_id' = Left(damage, bonus, penalty).chs
          /\ down' = Left(damage, bonus, penalty).down
          /\ server' = Left(damage, bonus, penalty).server
    BY <1>4 DEF HandleTurnJudged
  <2> DEFINE left == Left(damage, bonus, penalty)
  <2>3. JudgedOK(left)
    <3> HIDE DEF m
    <3> QED
      BY <1>1, <2>1, JudgeType
  <2> HIDE DEF left, m
  <2>4. /\ user_by_id' = left.users /\ ch_by_id' = left.chs
        /\ down' = left.down /\ server' = left.server
    BY <2>2 DEF left
  <2>5. /\ IsTree(user_by_id', Ids, UserInfos)
        /\ IsTree(ch_by_id', ChIds, ChallengeRecs)
        /\ down' \in [Fds -> Seq(DownMsgs)]
        /\ server' \in {"running", "crashed", "exhausted"}
    BY <2>3, <2>4 DEF JudgedOK
  <2> QED
    BY <1>1, <2>1, <2>5 DEF TypeOK, ServerTypeOK, ChannelsTypeOK
<1> QED
  BY <1>2, <1>3, <1>4

LEMMA SendmsgType ==
  ASSUME TypeOK, NEW fd \in Fds, HandleSendmsg(fd)
  PROVE  ServerTypeOK' /\ ChannelsTypeOK'
<1> DEFINE m == Head(up[fd])
<1>1. up' \in [Fds -> Seq(UpMsgs)] /\ m \in SendMsgs
  BY TakesType, UpKinds DEF HandleSendmsg, TypeOK
<1>2. down' = IF Known(m.id, m.key)
                THEN SendAll(down, FdsOf(user_by_id), [m EXCEPT !.key = 0]) ELSE down
  BY DEF HandleSendmsg
<1> HIDE DEF m
<1>3. [m EXCEPT !.key = 0] \in DownMsgs
  BY <1>1 DEF SendMsgs, DownMsgs, AnyKey
<1>4. down' \in [Fds -> Seq(DownMsgs)]
  BY <1>2, <1>3, SendAllType DEF TypeOK, ChannelsTypeOK
<1> QED
  BY <1>1, <1>4, UnchangedServerType DEF HandleSendmsg, TypeOK, ChannelsTypeOK

LEMMA HandlerType ==
  ASSUME TypeOK, IndexesAgree, NEW fd \in Fds, pkt_handler(fd), UNCHANGED clientVars
  PROVE  TypeOK'
<1>1. ServerTypeOK' /\ ChannelsTypeOK'
  BY JoinOkType, JoinRefusedType, QuitType, DisconnectType, ChallengeErrorType,
     ChallengeIgnoredType, StartType, StartNoIdType, CancelType, AcceptType,
     RejectType, TurnType, SendmsgType
     DEF pkt_handler
<1> QED
  BY <1>1 DEF TypeOK, ClientTypeOK, clientVars
----------------------------------------------------------------------------
(* Type correctness of the clients' steps. *)
LEMMA DownKinds ==
  ASSUME NEW m \in DownMsgs
  PROVE  /\ m.kind = "JOIN_R" => m.id \in AnyId /\ m.key \in AnyKey
         /\ m.kind = "UCHANGE" => m.users \in SUBSET Infos
         /\ m.kind = "CHALLENGE" => m \in Challenges
         /\ m.kind = "CHALLENGE_R" => /\ m.id1 \in AnyId /\ m.id2 \in AnyId
                                      /\ m.chid \in AnyChId /\ m.is_id1 \in BOOLEAN
         /\ m.kind = "TURN_R" => /\ m.turn_no \in Nat /\ m.fin \in BOOLEAN
                                 /\ m.hp1 \in Int /\ m.hp2 \in Int
  BY DEF DownMsgs, Challenges, SendMsgs

LEMMA ReceivesType ==
  ASSUME ChannelsTypeOK, NEW fd \in Fds, Receives(fd)
  PROVE  down' \in [Fds -> Seq(DownMsgs)] /\ Head(down[fd]) \in DownMsgs
<1>1. down[fd] \in Seq(DownMsgs) /\ down[fd] # <<>>
  BY DEF ChannelsTypeOK, Receives
<1>2. Head(down[fd]) \in DownMsgs /\ Tail(down[fd]) \in Seq(DownMsgs)
  BY <1>1
<1> QED
  BY <1>2 DEF ChannelsTypeOK, Receives

LEMMA SessionType ==
  ASSUME ClientTypeOK, NEW fd \in Fds, NEW s \in Sessions
  PROVE  [session EXCEPT ![fd] = s] \in [Fds -> Sessions]
  BY DEF ClientTypeOK

LEMMA HandledType ==
  ASSUME NEW s \in Sessions, NEW m \in DownMsgs
  PROVE  /\ Handled(s, m) \in Sessions
         /\ Handled(s, m).phase \in {s.phase, "DONE"}
<1>1. CASE m.kind = "TURN_R"
  <2>1. OnTurnR(s, m) \in Sessions /\ OnTurnR(s, m).phase = s.phase
    BY <1>1, DownKinds DEF OnTurnR, Sessions
  <2> QED
    BY <1>1, <2>1 DEF Handled
<1>2. CASE m.kind = "CHALLENGE"
  <2>1. OnChallenge(s, m) \in Sessions /\ OnChallenge(s, m).phase = s.phase
    BY <1>2, DownKinds DEF OnChallenge, Sessions, Challenges
  <2> QED
    BY <1>2, <2>1 DEF Handled
<1>3. CASE m.kind = "CHALLENGE_R"
  <2>1. OnChallengeR(s, m) \in Sessions /\ OnChallengeR(s, m).phase = s.phase
    BY <1>3, DownKinds DEF OnChallengeR, Sessions, UserStates
  <2> QED
    BY <1>3, <2>1 DEF Handled
<1>4. CASE m.kind = "UCHANGE"
  <2> DEFINE mine == {i \in m.users : i.id = s.id}
             listed == [s EXCEPT !.user_by_id = Updated(@, m.users)]
  <2>1. m.users \in SUBSET Infos
    BY <1>4, DownKinds
  <2>2. Updated(s.user_by_id, m.users) \in SUBSET Infos
    BY <2>1 DEF Updated, Sessions
  <2>3. listed \in Sessions /\ listed.phase = s.phase
    BY <2>2 DEF Sessions
  <2>4. mine # {} => (CHOOSE i \in mine : TRUE).state \in UserStates
    BY <2>1 DEF Infos
  <2>5. [s EXCEPT !.phase = "DONE"] \in Sessions
    BY DEF Sessions, Phases
  <2>6. OnUchange(s, m) \in Sessions /\ OnUchange(s, m).phase \in {s.phase, "DONE"}
    <3>1. CASE mine = {}
      BY <2>3, <3>1 DEF OnUchange
    <3>2. CASE mine # {} /\ \E i \in mine : i.state = "UOFFLINE"
      BY <2>5, <3>2 DEF OnUchange, Sessions
    <3>3. CASE mine # {} /\ ~ \E i \in mine : i.state = "UOFFLINE"
      <4> DEFINE st == (CHOOSE i \in mine : TRUE).state
      <4>1. OnUchange(s, m) = [listed EXCEPT !.state = st]
        BY <3>3 DEF OnUchange
      <4>2. st \in UserStates
        BY <2>4, <3>3
      <4> HIDE DEF listed, st
      <4> QED
        BY <2>3, <4>1, <4>2 DEF Sessions
    <3> QED
      BY <3>1, <3>2, <3>3
  <2> QED
    BY <1>4, <2>6 DEF Handled
<1>5. CASE m.kind \notin {"TURN_R", "CHALLENGE", "CHALLENGE_R", "UCHANGE"}
  BY <1>5 DEF Handled
<1> QED
  BY <1>1, <1>2, <1>3, <1>4, <1>5

LEMMA AnswersType ==
  ASSUME NEW s \in Sessions, NEW m \in DownMsgs
  PROVE  Answers(s, m) \in Seq(UpMsgs)
<1>1. s.key \in AnyKey /\ s.id \in AnyId
  BY DEF Sessions
<1>2. Quit(s.id, s.key) \in UpMsgs
  BY <1>1 DEF Quit, UpMsgs
<1>3. m.kind = "CHALLENGE" =>
        Challenge("C_REJECT", m.id1, m.id2, m.chid, s.key) \in UpMsgs
  BY <1>1, DownKinds DEF Challenge, Challenges, UpMsgs
<1>4. CASE m.kind = "CHALLENGE" /\ s.waiting_for # "W_NONE"
  BY <1>3, <1>4 DEF Answers
<1>5. CASE m.kind = "UCHANGE" /\ Handled(s, m).phase = "DONE"
  BY <1>2, <1>5 DEF Answers
<1>6. CASE /\ ~ (m.kind = "CHALLENGE" /\ s.waiting_for # "W_NONE")
           /\ ~ (m.kind = "UCHANGE" /\ Handled(s, m).phase = "DONE")
  BY <1>6 DEF Answers
<1> QED
  BY <1>4, <1>5, <1>6

LEMMA UpSendType ==
  ASSUME TypeOK, NEW fd \in Fds, NEW m \in UpMsgs, up' = Send(up, fd, m),
         UNCHANGED down
  PROVE  ChannelsTypeOK'
<1>1. Send(up, fd, m) \in [Fds -> Seq(UpMsgs)]
  BY SendType DEF TypeOK, ChannelsTypeOK
<1> QED
  BY <1>1 DEF TypeOK, ChannelsTypeOK

LEMMA KeyType ==
  ASSUME TypeOK, NEW fd \in Fds, Key(fd)
  PROVE  ClientTypeOK' /\ ChannelsTypeOK'
<1> DEFINE s == session[fd]
<1>1. s \in Sessions /\ session \in [Fds -> Sessions] /\ invites \in Nat
  BY DEF TypeOK, ClientTypeOK
<1>2. s.id \in AnyId /\ s.opponent_id \in AnyId /\ s.key \in AnyKey
      /\ s.chid \in AnyChId /\ s.turn_no \in Nat
  BY <1>1 DEF Sessions
<1>3. ASSUME NEW nick \in Nicks, Login(fd, nick) PROVE ClientTypeOK' /\ ChannelsTypeOK'
  <2>1. Join(nick) \in UpMsgs
    BY DEF Join, UpMsgs
  <2>2. ChannelsTypeOK'
    BY <1>3, <2>1, UpSendType DEF Login
  <2>3. [s EXCEPT !.phase = "WAIT_MSG"] \in Sessions
    BY <1>1 DEF Sessions, Phases
  <2> QED
    BY <1>1, <1>3, <2>2, <2>3 DEF Login, ClientTypeOK
<1>4. ASSUME NEW id \in Ids, Invite(fd, id) PROVE ClientTypeOK' /\ ChannelsTypeOK'
  <2>1. Challenge("C_START", s.id, id, NoId, s.key) \in UpMsgs
    BY <1>2 DEF Challenge, Challenges, UpMsgs, AnyId, AnyChId
  <2>2. ChannelsTypeOK'
    BY <1>4, <2>1, UpSendType DEF Invite
  <2>3. [s EXCEPT !.waiting_for = "W_CANCEL"] \in Sessions
    BY <1>1 DEF Sessions
  <2> QED
    BY <1>1, <1>4, <2>2, <2>3 DEF Invite, ClientTypeOK
<1>5. ASSUME Cancel(fd) PROVE ClientTypeOK' /\ ChannelsTypeOK'
  <2>1. Challenge("C_CANCEL", s.id, s.opponent_id, NoId, s.key) \in UpMsgs
    BY <1>2 DEF Challenge, Challenges, UpMsgs, AnyChId
  <2>2. ChannelsTypeOK'
    BY <1>5, <2>1, UpSendType DEF Cancel
  <2>3. [s EXCEPT !.waiting_for = "W_NONE"] \in Sessions
    BY <1>1 DEF Sessions
  <2> QED
    BY <1>1, <1>5, <2>2, <2>3 DEF Cancel, ClientTypeOK
<1>6. ASSUME NEW action \in {"C_ACCEPT", "C_REJECT"}, Answer(fd, action)
      PROVE  ClientTypeOK' /\ ChannelsTypeOK'
  <2>1. Challenge(action, s.opponent_id, s.id, s.chid, s.key) \in UpMsgs
    BY <1>2, <1>6 DEF Challenge, Challenges, UpMsgs
  <2>2. ChannelsTypeOK'
    BY <1>6, <2>1, UpSendType DEF Answer
  <2>3. [s EXCEPT !.waiting_for = "W_NONE"] \in Sessions
    BY <1>1 DEF Sessions
  <2> QED
    BY <1>1, <1>6, <2>2, <2>3 DEF Answer, ClientTypeOK
<1>7. ASSUME NEW action \in Acts, Act(fd, action)
      PROVE  ClientTypeOK' /\ ChannelsTypeOK'
  <2>1. Turn(s.id, s.chid, s.key, s.turn_no, action) \in UpMsgs
    BY <1>2 DEF Turn, UpMsgs
  <2>2. ChannelsTypeOK'
    BY <1>7, <2>1, UpSendType DEF Act
  <2>3. [s EXCEPT !.acted = TRUE] \in Sessions
    BY <1>1 DEF Sessions
  <2> QED
    BY <1>1, <1>7, <2>2, <2>3 DEF Act, ClientTypeOK
<1>8. ASSUME Chat(fd) PROVE ClientTypeOK' /\ ChannelsTypeOK'
  <2>1. SendMsg(s.id, s.key) \in UpMsgs
    BY <1>2 DEF SendMsg, SendMsgs, UpMsgs
  <2> QED
    BY <1>1, <1>8, <2>1, UpSendType DEF Chat, ClientTypeOK, clientVars
<1>9. ASSUME Leave(fd) PROVE ClientTypeOK' /\ ChannelsTypeOK'
  <2>1. Quit(s.id, s.key) \in UpMsgs
    BY <1>2 DEF Quit, UpMsgs
  <2>2. ChannelsTypeOK'
    BY <1>9, <2>1, UpSendType DEF Leave
  <2>3. [s EXCEPT !.phase = "DONE"] \in Sessions
    BY <1>1 DEF Sessions, Phases
  <2> QED
    BY <1>1, <1>9, <2>2, <2>3 DEF Leave, ClientTypeOK
<1> QED
  BY <1>3, <1>4, <1>5, <1>6, <1>7, <1>8, <1>9 DEF Key

LEMMA ReceiveType ==
  ASSUME TypeOK, NEW fd \in Fds, Receive(fd)
  PROVE  ClientTypeOK' /\ ChannelsTypeOK'
<1> DEFINE s == session[fd]
           m == Head(down[fd])
<1>1. s \in Sessions /\ session \in [Fds -> Sessions] /\ invites \in Nat
  BY DEF TypeOK, ClientTypeOK
<1>2. up \in [Fds -> Seq(UpMsgs)] /\ down \in [Fds -> Seq(DownMsgs)]
  BY DEF TypeOK, ChannelsTypeOK
<1>3. CASE LoginAnswered(fd)
  <2>1. m \in DownMsgs /\ down' \in [Fds -> Seq(DownMsgs)]
    BY <1>3, ReceivesType DEF LoginAnswered, TypeOK
  <2>2. [s EXCEPT !.phase = "RETRY"] \in Sessions
    BY <1>1 DEF Sessions, Phases
  <2>3. ASSUME m.kind = "JOIN_R", NEW acted \in UnsetActed, NEW state \in UnsetState
        PROVE  [NewSession EXCEPT !.phase = "MAIN", !.id = m.id, !.key = m.key,
                                  !.acted = acted, !.state = state] \in Sessions
    <3>1. m.id \in AnyId /\ m.key \in AnyKey
      BY <2>1, <2>3, DownKinds
    <3>2. acted \in BOOLEAN /\ state \in UserStates
      BY UnsetAssumption
    <3>3. NewSession \in Sessions
      BY DEF NewSession, Sessions, Phases, AnyId, AnyChId, AnyKey, UserStates
    <3> HIDE DEF m
    <3> QED
      BY <3>1, <3>2, <3>3 DEF Sessions, Phases
  <2>4. session' \in [Fds -> Sessions]
    <3>1. CASE m.kind # "JOIN_R"
      BY <1>1, <1>3, <3>1 DEF LoginAnswered
    <3>2. CASE m.kind = "JOIN_R" /\ m.error # "ME_OK"
      BY <1>1, <1>3, <2>2, <3>2 DEF LoginAnswered
    <3>3. CASE m.kind = "JOIN_R" /\ m.error = "ME_OK"
      <4>1. PICK acted \in UnsetActed, state \in UnsetState :
              session' = [session EXCEPT ![fd] =
                            [NewSession EXCEPT !.phase = "MAIN", !.id = m.id,
                                               !.key = m.key, !.acted = acted,
                                               !.state = state]]
        BY <1>3, <3>3 DEF LoginAnswered
      <4> DEFINE n == [NewSession EXCEPT !.phase = "MAIN", !.id = m.id,
                         !.key = m.key, !.acted = acted, !.state = state]
      <4>2. n \in Sessions
        BY <2>3, <3>3
      <4> HIDE DEF n
      <4> QED
        BY <1>1, <4>1, <4>2 DEF n
    <3> QED
      BY <3>1, <3>2, <3>3
  <2> QED
    BY <1>1, <1>2, <1>3, <2>1, <2>4 DEF LoginAnswered, ClientTypeOK, ChannelsTypeOK
<1>4. CASE MainReceives(fd)
  <2>1. m \in DownMsgs /\ down' \in [Fds -> Seq(DownMsgs)]
    BY <1>4, ReceivesType DEF MainReceives, TypeOK
  <2>2. Handled(s, m) \in Sessions /\ Answers(s, m) \in Seq(UpMsgs)
    BY <1>1, <2>1, HandledType, AnswersType
  <2>3. up[fd] \o Answers(s, m) \in Seq(UpMsgs)
    BY <1>2, <2>2
  <2>4. /\ session' = [session EXCEPT ![fd] = Handled(s, m)]
        /\ up' = [up EXCEPT ![fd] = up[fd] \o Answers(s, m)]
        /\ invites' = invites
    BY <1>4 DEF MainReceives
  <2> HIDE DEF s, m
  <2> QED
    BY <1>1, <1>2, <2>1, <2>2, <2>3, <2>4 DEF ClientTypeOK, ChannelsTypeOK
<1>5. CASE Discards(fd)
  <2>1. <<>> \in Seq(DownMsgs)
    OBVIOUS
  <2> QED
    BY <1>1, <1>2, <1>5, <2>1 DEF Discards, clientVars, ClientTypeOK, ChannelsTypeOK
<1> QED
  BY <1>3, <1>4, <1>5 DEF Receive

LEMMA LoseType ==
  ASSUME TypeOK, NEW fd \in Fds, Lose(fd)
  PROVE  ClientTypeOK' /\ ChannelsTypeOK'
<1>1. PICK n \in 0 .. Len(up[fd]) :
        up' = [up EXCEPT ![fd] = Append(SubSeq(@, 1, n), Disconn)]
  BY DEF Lose
<1>2. up \in [Fds -> Seq(UpMsgs)] /\ up[fd] \in Seq(UpMsgs)
  BY DEF TypeOK, ChannelsTypeOK
<1>3. SubSeq(up[fd], 1, n) \in Seq(UpMsgs)
  BY <1>2
<1>4. Disconn \in UpMsgs
  BY DEF Disconn, UpMsgs
<1>5. Append(SubSeq(up[fd], 1, n), Disconn) \in Seq(UpMsgs)
  BY <1>3, <1>4
<1>6. ChannelsTypeOK'
  BY <1>1, <1>2, <1>5 DEF Lose, TypeOK, ChannelsTypeOK
<1>7. [session[fd] EXCEPT !.phase = "GONE"] \in Sessions
  BY DEF TypeOK, ClientTypeOK, Sessions, Phases
<1> QED
  BY <1>6, <1>7 DEF Lose, TypeOK, ClientTypeOK

LEMMA InitType == Init => TypeOK
<1> SUFFICES ASSUME Init PROVE TypeOK
  OBVIOUS
<1>1. ChannelsTypeOK
  BY DEF Init, ChannelsInit, ChannelsTypeOK
<1>2. ServerTypeOK
  BY EmptyTree DEF Init, model_init, ServerTypeOK
<1>3. NewSession \in Sessions
  BY DEF NewSession, Sessions, Phases, AnyId, AnyChId, AnyKey, UserStates
<1> QED
  BY <1>1, <1>2, <1>3 DEF Init, ClientInit, ClientTypeOK, TypeOK

LEMMA NextType == TypeOK /\ IndexesAgree /\ [Next]_vars => TypeOK'
<1> SUFFICES ASSUME TypeOK, IndexesAgree, [Next]_vars PROVE TypeOK'
  OBVIOUS
<1>1. ASSUME NEW fd \in Fds, pkt_handler(fd) /\ UNCHANGED clientVars
      PROVE  TypeOK'
  BY <1>1, HandlerType
<1>2. ASSUME NEW fd \in Fds, Key(fd) \/ Receive(fd) \/ Lose(fd), UNCHANGED serverVars
      PROVE  TypeOK'
  <2>1. ClientTypeOK' /\ ChannelsTypeOK'
    BY <1>2, KeyType, ReceiveType, LoseType
  <2> QED
    BY <1>2, <2>1, UnchangedServerType DEF TypeOK
<1>3. CASE UNCHANGED vars
  <2>1. UNCHANGED <<channels, serverVars, clientVars>>
    BY <1>3 DEF vars
  <2> QED
    BY <2>1, UnchangedServerType
       DEF TypeOK, ChannelsTypeOK, ClientTypeOK, channels, clientVars
<1> QED
  BY <1>1, <1>2, <1>3 DEF Next

(* What is in a sequence of messages when its head is taken or a message   *)
(* is appended.                                                            *)
LEMMA TailHas ==
  ASSUME NEW S, NEW q \in Seq(S), q # <<>>, NEW kind
  PROVE  /\ Has(Tail(q), kind) => Has(q, kind)
         /\ Refused(Tail(q)) => Refused(q)
         /\ OneAtMost(q, kind) => OneAtMost(Tail(q), kind)
         /\ OneAtMost(q, kind) /\ Head(q).kind = kind => ~ Has(Tail(q), kind)
         /\ Head(q).kind = kind => Has(q, kind)
<1>1. /\ DOMAIN q = 1 .. Len(q) /\ Len(q) \in Nat /\ Len(q) > 0 /\ Head(q) = q[1]
      /\ DOMAIN Tail(q) = 1 .. Len(q) - 1
      /\ \A i \in 1 .. Len(q) - 1 : Tail(q)[i] = q[i + 1]
  OBVIOUS
<1>2. \A i \in DOMAIN Tail(q) : /\ i + 1 \in DOMAIN q /\ 1 \in DOMAIN q
                                /\ i + 1 # 1 /\ Tail(q)[i] = q[i + 1]
  BY <1>1
<1>3. \A i, j \in DOMAIN Tail(q) : i + 1 = j + 1 => i = j
  BY <1>1
<1> QED
  BY <1>1, <1>2, <1>3 DEF Has, Refused, OneAtMost

LEMMA AppendHas ==
  ASSUME NEW S, NEW q \in Seq(S), NEW m, NEW kind
  PROVE  /\ m.kind # kind => /\ Has(Append(q, m), kind) => Has(q, kind)
                             /\ OneAtMost(q, kind) => OneAtMost(Append(q, m), kind)
         /\ m.kind # "JOIN_R" \/ m.error = "ME_OK" =>
              (Refused(Append(q, m)) => Refused(q))
         /\ ~ Has(q, kind) => OneAtMost(Append(q, m), kind)
<1> DEFINE a == Append(q, m)
<1>1. /\ DOMAIN q = 1 .. Len(q) /\ Len(q) \in Nat
      /\ DOMAIN a = 1 .. Len(q) + 1
      /\ a[Len(q) + 1] = m
      /\ \A i \in 1 .. Len(q) : a[i] = q[i]
  OBVIOUS
<1> HIDE DEF a
<1>2. \A i \in DOMAIN a : \/ i \in DOMAIN q /\ a[i] = q[i]
                          \/ i = Len(q) + 1 /\ a[i] = m
  BY <1>1
<1> QED
  BY <1>2 DEF Has, Refused, OneAtMost, a

(* Quiet: what the handler adds to the down channels says nothing of joins. *)
Quiet(d, e) ==
  \A fd \in Fds :
    /\ Has(e[fd], "JOIN_R") => Has(d[fd], "JOIN_R")
    /\ Refused(e[fd]) => Refused(d[fd])
    /\ OneAtMost(d[fd], "JOIN_R") => OneAtMost(e[fd], "JOIN_R")

LEMMA QuietTrans ==
  ASSUME NEW d, NEW e, NEW f, Quiet(d, e), Quiet(e, f)
  PROVE  Quiet(d, f)
  BY DEF Quiet

LEMMA QuietSend ==
  ASSUME NEW M, NEW d \in [Fds -> Seq(M)], NEW to \in Fds, NEW m, m.kind # "JOIN_R"
  PROVE  Quiet(d, Send(d, to, m))
<1> SUFFICES ASSUME NEW fd \in Fds
             PROVE  /\ Has(Send(d, to, m)[fd], "JOIN_R") => Has(d[fd], "JOIN_R")
                    /\ Refused(Send(d, to, m)[fd]) => Refused(d[fd])
                    /\ OneAtMost(d[fd], "JOIN_R") => OneAtMost(Send(d, to, m)[fd], "JOIN_R")
  BY DEF Quiet
<1>1. Send(d, to, m)[fd] = d[fd] \/ Send(d, to, m)[fd] = Append(d[fd], m)
  BY DEF Send
<1>2. d[fd] \in Seq(M)
  OBVIOUS
<1>3. /\ Has(Append(d[fd], m), "JOIN_R") => Has(d[fd], "JOIN_R")
      /\ Refused(Append(d[fd], m)) => Refused(d[fd])
      /\ OneAtMost(d[fd], "JOIN_R") => OneAtMost(Append(d[fd], m), "JOIN_R")
  BY <1>2, AppendHas
<1> QED
  BY <1>1, <1>3

LEMMA QuietSendAll ==
  ASSUME NEW M, NEW d \in [Fds -> Seq(M)], NEW fds, NEW m, m.kind # "JOIN_R"
  PROVE  Quiet(d, SendAll(d, fds, m))
<1> SUFFICES ASSUME NEW fd \in Fds
             PROVE  /\ Has(SendAll(d, fds, m)[fd], "JOIN_R") => Has(d[fd], "JOIN_R")
                    /\ Refused(SendAll(d, fds, m)[fd]) => Refused(d[fd])
                    /\ OneAtMost(d[fd], "JOIN_R") =>
                         OneAtMost(SendAll(d, fds, m)[fd], "JOIN_R")
  BY DEF Quiet
<1>1. SendAll(d, fds, m)[fd] = d[fd] \/ SendAll(d, fds, m)[fd] = Append(d[fd], m)
  BY DEF SendAll
<1>2. d[fd] \in Seq(M)
  OBVIOUS
<1>3. /\ Has(Append(d[fd], m), "JOIN_R") => Has(d[fd], "JOIN_R")
      /\ Refused(Append(d[fd], m)) => Refused(d[fd])
      /\ OneAtMost(d[fd], "JOIN_R") => OneAtMost(Append(d[fd], m), "JOIN_R")
  BY <1>2, AppendHas
<1> QED
  BY <1>1, <1>3
----------------------------------------------------------------------------
(* OwnIds: a user's id is its descriptor (user_add, while ids do not       *)
(* collide).                                                               *)
OwnIds == \A id \in DOMAIN user_by_id : user_by_id[id].fd = id

(* The inductive invariant.  That the trees agree when a user is added     *)
(* rests on JoinOnce: the connection is not in a tree yet; and that its id *)
(* is not taken, on OwnIds.                                                *)
LoginInv == TypeOK /\ OwnIds /\ IndexesAgree /\ JoinOnce

(* The trees keep the same users, under the same descriptor and nickname. *)
SameUsers(users) ==
  /\ DOMAIN users = DOMAIN user_by_id
  /\ \A id \in DOMAIN user_by_id : /\ users[id].fd = user_by_id[id].fd
                                   /\ users[id].nick = user_by_id[id].nick

(* The step of a handler that neither adds nor removes a user. *)
Keeps ==
  /\ SameUsers(user_by_id')
  /\ UNCHANGED <<user_by_fd, user_by_nick, user_cnt>>
  /\ Quiet(down, down')

LEMMA QuietRefl == \A d : Quiet(d, d)
  BY DEF Quiet

LEMMA KeepsIndexes ==
  ASSUME OwnIds, IndexesAgree, Keeps
  PROVE  OwnIds' /\ IndexesAgree'
<1>1. OwnIds'
  BY DEF OwnIds, Keeps, SameUsers
<1>2. user_cnt' = Cardinality(DOMAIN user_by_id')
  BY DEF IndexesAgree, Keeps, SameUsers
<1>3. \A id \in DOMAIN user_by_id' :
        /\ user_by_id'[id].fd \in DOMAIN user_by_fd'
        /\ user_by_fd'[user_by_id'[id].fd] = id
        /\ user_by_id'[id].nick \in DOMAIN user_by_nick'
        /\ user_by_nick'[user_by_id'[id].nick] = id
  BY DEF IndexesAgree, Keeps, SameUsers
<1>4. /\ \A fd \in DOMAIN user_by_fd' :
           /\ user_by_fd'[fd] \in DOMAIN user_by_id'
           /\ user_by_id'[user_by_fd'[fd]].fd = fd
      /\ \A nick \in DOMAIN user_by_nick' :
           /\ user_by_nick'[nick] \in DOMAIN user_by_id'
           /\ user_by_id'[user_by_nick'[nick]].nick = nick
  BY DEF IndexesAgree, Keeps, SameUsers
<1> QED
  BY <1>1, <1>2, <1>3, <1>4 DEF IndexesAgree

(* JoinOnce for one connection, as a function of its state. *)
JoinOnceAt(u, d, phase, known) ==
  /\ OneAtMost(u, "JOIN") /\ OneAtMost(d, "JOIN_R")
  /\ phase \in {"LOGIN", "RETRY"} =>
       ~ Has(u, "JOIN") /\ ~ Has(d, "JOIN_R") /\ ~ known
  /\ Has(u, "JOIN") => ~ Has(d, "JOIN_R") /\ ~ known
  /\ Refused(d) => ~ known

LEMMA JoinOnceIsAt ==
  /\ JoinOnce <=>
       \A fd \in Fds : JoinOnceAt(up[fd], down[fd], session[fd].phase,
                                  fd \in DOMAIN user_by_fd)
  /\ JoinOnce' <=>
       \A fd \in Fds : JoinOnceAt(up'[fd], down'[fd], session'[fd].phase,
                                  fd \in DOMAIN user_by_fd')
  BY DEF JoinOnce, JoinOnceAt

LEMMA UpAfterTakes ==
  ASSUME TypeOK, NEW fd \in Fds, NEW kind, Takes(fd, kind), NEW f \in Fds
  PROVE  /\ OneAtMost(up[f], "JOIN") => OneAtMost(up'[f], "JOIN")
         /\ Has(up'[f], "JOIN") => Has(up[f], "JOIN")
         /\ f # fd => up'[f] = up[f]
         /\ kind = "JOIN" /\ OneAtMost(up[fd], "JOIN") =>
              ~ Has(up'[fd], "JOIN") /\ Has(up[fd], "JOIN")
<1>1. /\ up \in [Fds -> Seq(UpMsgs)] /\ up[fd] \in Seq(UpMsgs) /\ up[fd] # <<>>
      /\ Head(up[fd]).kind = kind
      /\ up' = [up EXCEPT ![fd] = Tail(up[fd])]
  BY DEF Takes, TypeOK, ChannelsTypeOK
<1>2. /\ Has(Tail(up[fd]), "JOIN") => Has(up[fd], "JOIN")
      /\ OneAtMost(up[fd], "JOIN") => OneAtMost(Tail(up[fd]), "JOIN")
      /\ OneAtMost(up[fd], "JOIN") /\ Head(up[fd]).kind = "JOIN" =>
           ~ Has(Tail(up[fd]), "JOIN")
      /\ Head(up[fd]).kind = "JOIN" => Has(up[fd], "JOIN")
  BY <1>1, TailHas
<1> QED
  BY <1>1, <1>2

LEMMA TakesJoinOnce ==
  ASSUME TypeOK, JoinOnce, NEW fd \in Fds, NEW kind, Takes(fd, kind),
         Quiet(down, down'), DOMAIN user_by_fd' \subseteq DOMAIN user_by_fd,
         UNCHANGED session
  PROVE  JoinOnce'
<1> SUFFICES ASSUME NEW f \in Fds
             PROVE  JoinOnceAt(up'[f], down'[f], session'[f].phase,
                               f \in DOMAIN user_by_fd')
  BY JoinOnceIsAt
<1>1. JoinOnceAt(up[f], down[f], session[f].phase, f \in DOMAIN user_by_fd)
  BY JoinOnceIsAt
<1>2. /\ OneAtMost(up[f], "JOIN") => OneAtMost(up'[f], "JOIN")
      /\ Has(up'[f], "JOIN") => Has(up[f], "JOIN")
  BY UpAfterTakes
<1>3. /\ Has(down'[f], "JOIN_R") => Has(down[f], "JOIN_R")
      /\ Refused(down'[f]) => Refused(down[f])
      /\ OneAtMost(down[f], "JOIN_R") => OneAtMost(down'[f], "JOIN_R")
  BY DEF Quiet
<1> QED
  BY <1>1, <1>2, <1>3 DEF JoinOnceAt
----------------------------------------------------------------------------
(* The joins. *)
LEMMA JoinRefusedInv ==
  ASSUME LoginInv, NEW fd \in Fds, HandleJoinRefused(fd), UNCHANGED clientVars
  PROVE  OwnIds' /\ IndexesAgree' /\ JoinOnce'
<1>1. /\ TypeOK /\ OwnIds /\ IndexesAgree /\ JoinOnce
      /\ UNCHANGED <<user_by_id, user_by_fd, user_by_nick, user_cnt, session>>
      /\ Takes(fd, "JOIN")
  BY DEF LoginInv, HandleJoinRefused, serverVars, trees, clientVars
<1>2. OwnIds' /\ IndexesAgree'
  BY <1>1 DEF OwnIds, IndexesAgree
<1>3. PICK err : down' = Send(down, fd, JoinR(err, NoId, 0))
  BY DEF HandleJoinRefused
<1>4. ASSUME NEW f \in Fds
      PROVE  JoinOnceAt(up'[f], down'[f], session'[f].phase, f \in DOMAIN user_by_fd')
  <2>1. JoinOnceAt(up[f], down[f], session[f].phase, f \in DOMAIN user_by_fd)
    BY <1>1, JoinOnceIsAt
  <2>2. CASE f # fd
    <3>1. up'[f] = up[f] /\ down'[f] = down[f]
      BY <1>1, <1>3, <2>2, UpAfterTakes DEF Send, TypeOK, ChannelsTypeOK
    <3> QED
      BY <1>1, <2>1, <3>1
  <2>3. CASE f = fd
    <3>1. ~ Has(up'[fd], "JOIN") /\ Has(up[fd], "JOIN") /\ OneAtMost(up'[fd], "JOIN")
      BY <1>1, <2>1, <2>3, UpAfterTakes DEF JoinOnceAt
    <3>2. ~ Has(down[fd], "JOIN_R") /\ fd \notin DOMAIN user_by_fd
          /\ session[fd].phase \notin {"LOGIN", "RETRY"}
      BY <2>1, <2>3, <3>1 DEF JoinOnceAt
    <3>3. down'[fd] = Append(down[fd], JoinR(err, NoId, 0)) /\ down[fd] \in Seq(DownMsgs)
      BY <1>1, <1>3 DEF Send, TypeOK, ChannelsTypeOK
    <3>4. OneAtMost(down'[fd], "JOIN_R")
      BY <3>2, <3>3, AppendHas
    <3> QED
      BY <1>1, <2>3, <3>1, <3>2, <3>4 DEF JoinOnceAt
  <2> QED
    BY <2>2, <2>3
<1> QED
  BY <1>2, <1>4, JoinOnceIsAt

LEMMA ConcatHas ==
  ASSUME NEW S, NEW q \in Seq(S), NEW r \in Seq(S),
         \A i \in DOMAIN r : r[i].kind # "JOIN_R"
  PROVE  /\ Has(q \o r, "JOIN_R") => Has(q, "JOIN_R")
         /\ Refused(q \o r) => Refused(q)
         /\ OneAtMost(q, "JOIN_R") => OneAtMost(q \o r, "JOIN_R")
<1> DEFINE a == q \o r
<1>1. /\ DOMAIN q = 1 .. Len(q) /\ Len(q) \in Nat
      /\ DOMAIN r = 1 .. Len(r) /\ Len(r) \in Nat
      /\ DOMAIN a = 1 .. Len(q) + Len(r)
      /\ \A i \in 1 .. Len(q) + Len(r) :
           a[i] = IF i <= Len(q) THEN q[i] ELSE r[i - Len(q)]
  OBVIOUS
<1> HIDE DEF a
<1>2. \A i \in DOMAIN a : a[i].kind = "JOIN_R" => i \in DOMAIN q /\ a[i] = q[i]
  <2> SUFFICES ASSUME NEW i \in DOMAIN a, a[i].kind = "JOIN_R"
               PROVE  i \in DOMAIN q /\ a[i] = q[i]
    OBVIOUS
  <2>1. CASE i <= Len(q)
    BY <1>1, <2>1
  <2>2. CASE i > Len(q)
    <3>1. i - Len(q) \in DOMAIN r /\ a[i] = r[i - Len(q)]
      BY <1>1, <2>2
    <3> QED
      BY <3>1
  <2> QED
    BY <1>1, <2>1, <2>2
<1> QED
  BY <1>2 DEF Has, Refused, OneAtMost, a

LEMMA JoinOkIndexes ==
  ASSUME LoginInv, NEW fd \in Fds, HandleJoinOk(fd)
  PROVE  /\ OwnIds' /\ IndexesAgree'
         /\ DOMAIN user_by_fd' = DOMAIN user_by_fd \cup {fd}
         /\ server' = server
<1> DEFINE nick == Head(up[fd]).nick
           new == user_create(fd, nick)
<1>1. TypeOK /\ OwnIds /\ IndexesAgree /\ JoinOnce
  BY DEF LoginInv
<1>2. IdOf(fd) = fd
  BY IdFacts
<1>3. fd \notin DOMAIN user_by_fd
  <2>1. JoinOnceAt(up[fd], down[fd], session[fd].phase, fd \in DOMAIN user_by_fd)
    BY <1>1, JoinOnceIsAt
  <2>2. Takes(fd, "JOIN")
    BY DEF HandleJoinOk
  <2>3. Has(up[fd], "JOIN")
    BY <1>1, <2>1, <2>2, UpAfterTakes DEF JoinOnceAt
  <2> QED
    BY <2>1, <2>3 DEF JoinOnceAt
<1>4. fd \notin DOMAIN user_by_id
  BY <1>1, <1>3 DEF OwnIds, IndexesAgree
<1>5. nick \notin DOMAIN user_by_nick
  <2>1. PICK stale : JoinError(nick, stale) = "ME_OK"
    BY DEF HandleJoinOk
  <2> HIDE DEF nick
  <2> QED
    BY <2>1 DEF JoinError
<1>6. /\ user_by_id' = Put(user_by_id, fd, new)
      /\ user_by_fd' = Put(user_by_fd, fd, fd)
      /\ user_by_nick' = Put(user_by_nick, nick, fd)
      /\ user_cnt' = user_cnt + 1
      /\ server' = server
  BY <1>2, <1>3, <1>4 DEF HandleJoinOk
<1>7. new.fd = fd /\ new.nick = nick
  BY DEF user_create
<1> HIDE DEF nick, new
<1>8. /\ DOMAIN user_by_id' = DOMAIN user_by_id \cup {fd}
      /\ DOMAIN user_by_fd' = DOMAIN user_by_fd \cup {fd}
      /\ DOMAIN user_by_nick' = DOMAIN user_by_nick \cup {nick}
      /\ user_by_id'[fd] = new /\ user_by_fd'[fd] = fd /\ user_by_nick'[nick] = fd
      /\ \A id \in DOMAIN user_by_id : user_by_id'[id] = user_by_id[id]
      /\ \A f \in DOMAIN user_by_fd : user_by_fd'[f] = user_by_fd[f]
      /\ \A n \in DOMAIN user_by_nick : user_by_nick'[n] = user_by_nick[n]
  BY <1>3, <1>4, <1>5, <1>6 DEF Put
<1>9. user_cnt' = Cardinality(DOMAIN user_by_id')
  <2>1. IsFiniteSet(DOMAIN user_by_id)
    BY <1>1, IdFacts, FS_Subset DEF TypeOK, ServerTypeOK, IsTree
  <2>2. Cardinality(DOMAIN user_by_id \cup {fd}) = Cardinality(DOMAIN user_by_id) + 1
    BY <1>4, <2>1, FS_AddElement
  <2> QED
    BY <1>1, <1>6, <1>8, <2>2 DEF IndexesAgree
<1>10. OwnIds'
  BY <1>1, <1>7, <1>8 DEF OwnIds
<1>11. \A id \in DOMAIN user_by_id' :
         /\ user_by_id'[id].fd \in DOMAIN user_by_fd'
         /\ user_by_fd'[user_by_id'[id].fd] = id
         /\ user_by_id'[id].nick \in DOMAIN user_by_nick'
         /\ user_by_nick'[user_by_id'[id].nick] = id
  BY <1>1, <1>7, <1>8 DEF IndexesAgree
<1>12. \A f \in DOMAIN user_by_fd' :
         user_by_fd'[f] \in DOMAIN user_by_id' /\ user_by_id'[user_by_fd'[f]].fd = f
  BY <1>1, <1>7, <1>8 DEF IndexesAgree
<1>13. \A n \in DOMAIN user_by_nick' :
         user_by_nick'[n] \in DOMAIN user_by_id' /\ user_by_id'[user_by_nick'[n]].nick = n
  BY <1>1, <1>7, <1>8 DEF IndexesAgree
<1> QED
  BY <1>6, <1>8, <1>9, <1>10, <1>11, <1>12, <1>13 DEF IndexesAgree

LEMMA JoinOkOnce ==
  ASSUME LoginInv, NEW fd \in Fds, HandleJoinOk(fd), UNCHANGED clientVars
  PROVE  JoinOnce'
<1> DEFINE nick == Head(up[fd]).nick
           id == IdOf(fd)
           users == Put(user_by_id, id, user_create(fd, nick))
           first == Append(down[fd], JoinR("ME_OK", id, fd))
           told == [down EXCEPT ![fd] =
                      (@ \o <<JoinR("ME_OK", id, fd)>>) \o AllUsers(users)]
           news == Uchange({Info(id, users[id])})
<1>1. TypeOK /\ JoinOnce /\ Takes(fd, "JOIN") /\ session' = session
  BY DEF LoginInv, HandleJoinOk, clientVars
<1>2. down' = SendAll(told, FdsOf(users) \ {fd}, news)
  BY DEF HandleJoinOk
<1>3. DOMAIN user_by_fd' = DOMAIN user_by_fd \cup {fd}
  BY JoinOkIndexes
<1>4. IsTree(users, Ids, UserInfos)
  <2>1. nick \in Nicks /\ id \in Ids
    BY <1>1, TakesType, UpKinds DEF TypeOK, Ids
  <2> QED
    BY <1>1, <2>1, NewUserType, PutTree DEF TypeOK, ServerTypeOK
<1>5. AllUsers(users) \in Seq(DownMsgs)
      /\ \A i \in DOMAIN AllUsers(users) : AllUsers(users)[i].kind # "JOIN_R"
  <2>1. AllUsers(users) \in Seq(DownMsgs)
    BY <1>4, AllUsersType
  <2>2. \A i \in DOMAIN AllUsers(users) : AllUsers(users)[i].kind # "JOIN_R"
    BY DEF AllUsers, Uchange
  <2> QED
    BY <2>1, <2>2
<1>6. news.kind # "JOIN_R"
  BY DEF Uchange
<1>7. /\ down \in [Fds -> Seq(DownMsgs)] /\ down[fd] \in Seq(DownMsgs)
      /\ JoinR("ME_OK", id, fd) \in DownMsgs
  BY <1>1 DEF TypeOK, ChannelsTypeOK, JoinR, DownMsgs, Ids, AnyId, AnyKey
<1>8. JoinR("ME_OK", id, fd).error = "ME_OK"
  BY DEF JoinR
<1> HIDE DEF id, users, news, nick
<1>9. first \in Seq(DownMsgs) /\ first = down[fd] \o <<JoinR("ME_OK", id, fd)>>
  BY <1>7
<1>10. told = [down EXCEPT ![fd] = first \o AllUsers(users)]
  BY <1>7, <1>9
<1> HIDE DEF first, told
<1>11. \A f \in Fds : JoinOnceAt(up[f], down[f], session[f].phase, f \in DOMAIN user_by_fd)
  BY <1>1, JoinOnceIsAt
<1>12. /\ ~ Has(up'[fd], "JOIN") /\ OneAtMost(up'[fd], "JOIN")
       /\ ~ Has(down[fd], "JOIN_R") /\ session[fd].phase \notin {"LOGIN", "RETRY"}
  BY <1>1, <1>11, UpAfterTakes DEF JoinOnceAt
<1>13. OneAtMost(first, "JOIN_R") /\ ~ Refused(first)
  <2>1. ~ Refused(down[fd])
    BY <1>12 DEF Has, Refused
  <2> QED
    BY <1>7, <1>8, <1>12, <2>1, AppendHas DEF first
<1>14. OneAtMost(first \o AllUsers(users), "JOIN_R") /\ ~ Refused(first \o AllUsers(users))
  BY <1>5, <1>9, <1>13, ConcatHas
<1>15. told \in [Fds -> Seq(DownMsgs)]
  BY <1>5, <1>7, <1>9, <1>10
<1>16. Quiet(told, down')
  BY <1>2, <1>6, <1>15, QuietSendAll
<1>17. ASSUME NEW f \in Fds
       PROVE  JoinOnceAt(up'[f], down'[f], session'[f].phase, f \in DOMAIN user_by_fd')
  <2>1. /\ Has(down'[f], "JOIN_R") => Has(told[f], "JOIN_R")
        /\ Refused(down'[f]) => Refused(told[f])
        /\ OneAtMost(told[f], "JOIN_R") => OneAtMost(down'[f], "JOIN_R")
    BY <1>16 DEF Quiet
  <2>2. CASE f = fd
    <3>1. told[fd] = first \o AllUsers(users)
      BY <1>7, <1>10
    <3> QED
      BY <1>1, <1>12, <1>14, <2>1, <2>2, <3>1 DEF JoinOnceAt
  <2>3. CASE f # fd
    <3>1. told[f] = down[f] /\ up'[f] = up[f]
      BY <1>1, <1>7, <1>10, <2>3, UpAfterTakes
    <3>2. (f \in DOMAIN user_by_fd') <=> (f \in DOMAIN user_by_fd)
      BY <1>3, <2>3
    <3> QED
      BY <1>1, <1>11, <2>1, <3>1, <3>2 DEF JoinOnceAt
  <2> QED
    BY <2>2, <2>3
<1> QED
  BY <1>17, JoinOnceIsAt
----------------------------------------------------------------------------
(* The end of a turn or a battle keeps who the users are. *)
LEMMA SettleSame ==
  ASSUME NEW user \in UserInfos, NEW points
  PROVE  Settle(user, points).fd = user.fd /\ Settle(user, points).nick = user.nick
  BY DEF Settle, UserInfos

LEMMA EndBattleSame ==
  ASSUME TypeOK, NEW ch \in ChallengeRecs, NEW winner, NEW bonus \in Bonuses,
         NEW penalty \in Penalties,
         ch.user1 \in DOMAIN user_by_id, ch.user2 \in DOMAIN user_by_id,
         winner = ch.user1 \/ winner = ch.user2
  PROVE  SameUsers(EndBattle(user_by_id, ch, winner, bonus, penalty))
<1> DEFINE loser == IF winner = ch.user1 THEN ch.user2 ELSE ch.user1
           won == [user_by_id EXCEPT ![winner] = Settle(@, bonus)]
           ended == [won EXCEPT ![loser] = Settle(@, - penalty)]
<1>1. winner \in DOMAIN user_by_id /\ loser \in DOMAIN user_by_id
  OBVIOUS
<1>2. \A id \in DOMAIN user_by_id : user_by_id[id] \in UserInfos
  BY DEF TypeOK, ServerTypeOK, IsTree
<1>3. bonus \in Int /\ - penalty \in Int
  BY RuleAssumption
<1>4. Settle(user_by_id[winner], bonus) \in UserInfos
  BY <1>1, <1>2, <1>3, SettleType
<1> HIDE DEF loser
<1>5. /\ DOMAIN won = DOMAIN user_by_id
      /\ \A id \in DOMAIN user_by_id :
           /\ won[id] \in UserInfos
           /\ won[id].fd = user_by_id[id].fd /\ won[id].nick = user_by_id[id].nick
  BY <1>1, <1>2, <1>4, SettleSame
<1> HIDE DEF won
<1>6. /\ Settle(won[loser], - penalty).fd = won[loser].fd
      /\ Settle(won[loser], - penalty).nick = won[loser].nick
  BY <1>1, <1>5, SettleSame
<1>7. /\ DOMAIN ended = DOMAIN user_by_id
      /\ \A id \in DOMAIN user_by_id :
           ended[id].fd = won[id].fd /\ ended[id].nick = won[id].nick
  BY <1>5, <1>6
<1>8. EndBattle(user_by_id, ch, winner, bonus, penalty) = ended
  BY DEF EndBattle, won, loser
<1> HIDE DEF ended
<1> QED
  BY <1>5, <1>7, <1>8 DEF SameUsers

LEMMA QuietBroadcast ==
  ASSUME NEW d \in [Fds -> Seq(DownMsgs)], NEW users, NEW ids
  PROVE  Quiet(d, broadcast_user_changes(d, users, ids))
<1>1. Uchange({Info(id, users[id]) : id \in ids}).kind # "JOIN_R"
  BY DEF Uchange
<1> QED
  BY <1>1, QuietSendAll DEF broadcast_user_changes

JudgedSame(left) == SameUsers(left.users) /\ Quiet(down, left.down)

LEMMA JudgeSame ==
  ASSUME TypeOK, NEW c \in ChIds, NEW ch \in ChallengeRecs, NEW force_lose_id,
         NEW damage \in Damages \cup {0}, NEW bonus \in Bonuses,
         NEW penalty \in Penalties
  PROVE  JudgedSame(judge_turn(c, ch, force_lose_id, damage, bonus, penalty))
<1> DEFINE left == judge_turn(c, ch, force_lose_id, damage, bonus, penalty)
           after == AfterTurn(ch, damage)
           winner == Winner(after, force_lose_id)
           r == TurnR(ch, after, winner)
           sent1 == Send(down, user_by_id[ch.user1].fd, r)
           sent == Send(sent1, user_by_id[ch.user2].fd, r)
           users == EndBattle(user_by_id, after, winner, bonus, penalty)
<1>1. SameUsers(user_by_id) /\ Quiet(down, down)
  BY QuietRefl DEF SameUsers
<1>2. CASE ~ ({ch.user1, ch.user2} \subseteq DOMAIN user_by_id)
  BY <1>1, <1>2 DEF judge_turn, JudgedSame
<1>3. CASE {ch.user1, ch.user2} \subseteq DOMAIN user_by_id
  <2>0. damage \in Nat
    BY RuleAssumption
  <2>1. /\ after \in ChallengeRecs
        /\ after.user1 = ch.user1 /\ after.user2 = ch.user2
    BY <2>0, AfterTurnType
  <2>2. winner \in {ch.user1, ch.user2, NoId} /\ winner \in AnyId
    <3> HIDE DEF after
    <3> QED
      BY <2>1, WinnerType DEF ChallengeRecs, AnyId
  <2>3. r \in DownMsgs /\ r.kind # "JOIN_R"
    <3>1. r.kind # "JOIN_R"
      BY DEF TurnR
    <3> HIDE DEF after, winner
    <3> QED
      BY <2>1, <2>2, <3>1, TurnRType
  <2>4. user_by_id[ch.user1].fd \in Fds /\ user_by_id[ch.user2].fd \in Fds
    BY <1>3 DEF IsTree, UserInfos, TypeOK, ServerTypeOK
  <2>5. Quiet(down, sent) /\ sent \in [Fds -> Seq(DownMsgs)]
    <3> HIDE DEF r
    <3>1. sent1 \in [Fds -> Seq(DownMsgs)] /\ Quiet(down, sent1)
      BY <2>3, <2>4, SendType, QuietSend DEF TypeOK, ChannelsTypeOK
    <3> HIDE DEF sent1
    <3>2. sent \in [Fds -> Seq(DownMsgs)] /\ Quiet(sent1, sent)
      BY <2>3, <2>4, <3>1, SendType, QuietSend
    <3> HIDE DEF sent
    <3> QED
      BY <3>1, <3>2, QuietTrans
  <2>6. CASE winner = NoId
    <3>1. left.users = user_by_id /\ left.down = sent
      BY <1>3, <2>6 DEF judge_turn
    <3> HIDE DEF left, sent
    <3>2. JudgedSame(left)
      BY <1>1, <2>5, <3>1 DEF JudgedSame
    <3> QED
      BY <3>2 DEF left
  <2>7. CASE winner # NoId
    <3>1. /\ left.users = users
          /\ left.down = broadcast_user_changes(sent, users, {ch.user1, ch.user2})
      BY <1>3, <2>7 DEF judge_turn
    <3>2. SameUsers(users)
      <4>1. /\ after.user1 \in DOMAIN user_by_id
            /\ after.user2 \in DOMAIN user_by_id
            /\ winner = after.user1 \/ winner = after.user2
        BY <1>3, <2>1, <2>2, <2>7
      <4> HIDE DEF after, winner
      <4> QED
        BY <2>1, <4>1, EndBattleSame
    <3> HIDE DEF left, sent, users
    <3>3. Quiet(sent, left.down)
      BY <2>5, <3>1, QuietBroadcast
    <3>4. Quiet(down, left.down)
      BY <2>5, <3>3, QuietTrans
    <3>5. JudgedSame(left)
      BY <3>1, <3>2, <3>4 DEF JudgedSame
    <3> QED
      BY <3>5 DEF left
  <2> QED
    BY <2>6, <2>7
<1> QED
  BY <1>2, <1>3

LEMMA QuitUserInv ==
  ASSUME LoginInv, NEW fd \in Fds, NEW kind, Takes(fd, kind),
         NEW u \in DOMAIN user_by_id, quit_user(u), UNCHANGED clientVars
  PROVE  OwnIds' /\ IndexesAgree' /\ JoinOnce'
<1> DEFINE user == user_by_id[u]
           Left(bonus, penalty) ==
             IF Fights(u)
               THEN judge_turn(user.chid, ch_by_id[user.chid], u, 0, bonus, penalty)
               ELSE [users |-> user_by_id, chs |-> ch_by_id, down |-> down,
                     server |-> server]
<1>0. TypeOK /\ OwnIds /\ IndexesAgree /\ JoinOnce
  BY DEF LoginInv
<1>1. PICK bonus \in Bonuses, penalty \in Penalties :
        LET left == Left(bonus, penalty)
            users == [left.users EXCEPT ![u].state = "UOFFLINE"]
        IN  /\ down' = broadcast_user_changes(left.down, users, {u})
            /\ user_by_id' = tdelete(users, u)
            /\ user_by_nick' = tdelete(user_by_nick, user.nick)
            /\ user_by_fd' = tdelete(user_by_fd, user.fd)
            /\ user_cnt' = user_cnt - 1
  BY DEF quit_user
<1> DEFINE left == Left(bonus, penalty)
           users == [left.users EXCEPT ![u].state = "UOFFLINE"]
<1>2. JudgedOK(left) /\ JudgedSame(left)
  <2>1. CASE Fights(u)
    <3>1. user.chid \in ChIds /\ ch_by_id[user.chid] \in ChallengeRecs
      BY <1>0, <2>1 DEF Fights, TypeOK, ServerTypeOK, IsTree
    <3> HIDE DEF user
    <3> QED
      BY <1>0, <2>1, <3>1, JudgeType, JudgeSame
  <2>2. CASE ~ Fights(u)
    <3>1. left.users = user_by_id /\ left.down = down /\ left.chs = ch_by_id
          /\ left.server = server
      BY <2>2
    <3> HIDE DEF left
    <3> QED
      BY <1>0, <3>1, QuietRefl
         DEF JudgedOK, JudgedSame, SameUsers, TypeOK, ServerTypeOK, ChannelsTypeOK
  <2> QED
    BY <2>1, <2>2
<1>3. /\ down' = broadcast_user_changes(left.down, users, {u})
      /\ user_by_id' = tdelete(users, u)
      /\ user_by_nick' = tdelete(user_by_nick, user.nick)
      /\ user_by_fd' = tdelete(user_by_fd, user.fd)
      /\ user_cnt' = user_cnt - 1
  BY <1>1
<1> HIDE DEF left
<1>4. Quiet(down, down')
  <2>1. Quiet(left.down, down')
    <3> HIDE DEF users
    <3> QED
      BY <1>2, <1>3, QuietBroadcast DEF JudgedOK
  <2> QED
    BY <1>2, <2>1, QuietTrans DEF JudgedSame
<1>5. JoinOnce'
  <2>1. DOMAIN user_by_fd' \subseteq DOMAIN user_by_fd
    BY <1>3 DEF tdelete
  <2> QED
    BY <1>0, <1>4, <2>1, TakesJoinOnce DEF clientVars
<1>6. /\ DOMAIN user_by_id' = DOMAIN user_by_id \ {u}
      /\ \A id \in DOMAIN user_by_id \ {u} :
           /\ user_by_id'[id].fd = user_by_id[id].fd
           /\ user_by_id'[id].nick = user_by_id[id].nick
  BY <1>2, <1>3 DEF JudgedSame, SameUsers, tdelete
<1>7. /\ DOMAIN user_by_fd' = DOMAIN user_by_fd \ {user.fd}
      /\ \A f \in DOMAIN user_by_fd' : user_by_fd'[f] = user_by_fd[f]
      /\ DOMAIN user_by_nick' = DOMAIN user_by_nick \ {user.nick}
      /\ \A n \in DOMAIN user_by_nick' : user_by_nick'[n] = user_by_nick[n]
  BY <1>3 DEF tdelete
<1>8. user_cnt' = Cardinality(DOMAIN user_by_id')
  <2>1. IsFiniteSet(DOMAIN user_by_id)
    BY <1>0, IdFacts, FS_Subset DEF TypeOK, ServerTypeOK, IsTree
  <2>2. Cardinality(DOMAIN user_by_id \ {u}) = Cardinality(DOMAIN user_by_id) - 1
    BY <2>1, FS_RemoveElement
  <2> QED
    BY <1>0, <1>3, <1>6, <2>2 DEF IndexesAgree
<1>9. OwnIds'
  BY <1>0, <1>6 DEF OwnIds
<1>10. \A id \in DOMAIN user_by_id' :
         /\ user_by_id'[id].fd \in DOMAIN user_by_fd'
         /\ user_by_fd'[user_by_id'[id].fd] = id
         /\ user_by_id'[id].nick \in DOMAIN user_by_nick'
         /\ user_by_nick'[user_by_id'[id].nick] = id
  BY <1>0, <1>6, <1>7 DEF IndexesAgree
<1>11. \A f \in DOMAIN user_by_fd' :
         user_by_fd'[f] \in DOMAIN user_by_id' /\ user_by_id'[user_by_fd'[f]].fd = f
  BY <1>0, <1>6, <1>7 DEF IndexesAgree
<1>12. \A n \in DOMAIN user_by_nick' :
         user_by_nick'[n] \in DOMAIN user_by_id' /\ user_by_id'[user_by_nick'[n]].nick = n
  BY <1>0, <1>6, <1>7 DEF IndexesAgree
<1> QED
  BY <1>5, <1>8, <1>9, <1>10, <1>11, <1>12 DEF IndexesAgree
----------------------------------------------------------------------------
(* The handlers that neither add nor remove a user. *)
LEMMA SetChidSame ==
  ASSUME TypeOK, NEW id \in DOMAIN user_by_id, NEW c
  PROVE  SameUsers([user_by_id EXCEPT ![id].chid = c])
<1>1. user_by_id[id] \in UserInfos
  BY DEF TypeOK, ServerTypeOK, IsTree
<1> QED
  BY <1>1 DEF SameUsers, UserInfos

LEMMA UnchangedKeeps ==
  ASSUME UNCHANGED <<trees, down>>
  PROVE  Keeps
  BY QuietRefl DEF Keeps, SameUsers, trees

LEMMA SilentKeeps ==
  ASSUME NEW fd \in Fds,
         \/ HandleChallengeIgnored(fd) \/ HandleStartNoId(fd)
         \/ HandleDisconnectUnknown(fd) \/ HandleTurnIgnored(fd) \/ HandleTurnFirst(fd)
  PROVE  Keeps
<1>1. UNCHANGED <<trees, down>>
  BY DEF HandleChallengeIgnored, HandleStartNoId, HandleDisconnectUnknown,
         HandleTurnIgnored, HandleTurnFirst, serverVars
<1> QED
  BY <1>1, UnchangedKeeps

(* A handler that sends one message, not a JOIN_R. *)
LEMMA SendKeeps ==
  ASSUME TypeOK, NEW to \in Fds, NEW m, m.kind # "JOIN_R", down' = Send(down, to, m),
         SameUsers(user_by_id'), UNCHANGED <<user_by_fd, user_by_nick, user_cnt>>
  PROVE  Keeps
<1>1. Quiet(down, Send(down, to, m))
  BY QuietSend DEF TypeOK, ChannelsTypeOK
<1> QED
  BY <1>1 DEF Keeps

LEMMA FdOfUser ==
  ASSUME TypeOK, NEW id \in DOMAIN user_by_id
  PROVE  user_by_id[id].fd \in Fds
  BY DEF TypeOK, ServerTypeOK, IsTree, UserInfos

LEMMA ChallengeErrorKeeps ==
  ASSUME TypeOK, NEW fd \in Fds, HandleChallengeError(fd)
  PROVE  Keeps
<1> DEFINE r == ChallengeR(ChallengeError(Head(up[fd])), Head(up[fd]), FALSE)
<1>1. r.kind # "JOIN_R"
  BY DEF ChallengeR
<1>2. /\ down' = Send(down, fd, r)
      /\ SameUsers(user_by_id') /\ UNCHANGED <<user_by_fd, user_by_nick, user_cnt>>
  BY DEF HandleChallengeError, serverVars, trees, SameUsers
<1> HIDE DEF r
<1> QED
  BY <1>1, <1>2, SendKeeps

LEMMA StartKeeps ==
  ASSUME TypeOK, NEW fd \in Fds, HandleStart(fd)
  PROVE  Keeps
<1> DEFINE m == Head(up[fd])
<1>1. /\ m \in Challenges
      /\ m.id1 \in DOMAIN user_by_id /\ m.id2 \in DOMAIN user_by_id
  BY ChallengeFacts DEF HandleStart, Valid
<1>2. PICK c \in FreeChIds :
        /\ user_by_id' = [user_by_id EXCEPT ![m.id1].chid = c]
        /\ down' = Send(down, user_by_id[m.id2].fd, [m EXCEPT !.chid = c])
  BY DEF HandleStart
<1>3. UNCHANGED <<user_by_fd, user_by_nick, user_cnt>>
  BY DEF HandleStart
<1> HIDE DEF m
<1>4. [m EXCEPT !.chid = c].kind # "JOIN_R"
  BY <1>1 DEF Challenges
<1>5. SameUsers(user_by_id')
  BY <1>1, <1>2, SetChidSame
<1> QED
  BY <1>1, <1>2, <1>3, <1>4, <1>5, FdOfUser, SendKeeps

LEMMA CancelKeeps ==
  ASSUME TypeOK, NEW fd \in Fds, HandleCancel(fd)
  PROVE  Keeps
<1> DEFINE m == Head(up[fd])
           user2 == ch_by_id[user_by_id[m.id1].chid].user2
           r == ChallengeR("CANCELLED", m, FALSE)
<1>1. m.id1 \in DOMAIN user_by_id
  BY ChallengeFacts DEF HandleCancel, Valid
<1>2. /\ user_by_id' = [user_by_id EXCEPT ![m.id1].chid = NoId]
      /\ down' = IF user2 \in DOMAIN user_by_id
                   THEN Send(down, user_by_id[user2].fd, r) ELSE down
      /\ UNCHANGED <<user_by_fd, user_by_nick, user_cnt>>
  BY DEF HandleCancel
<1>3. r.kind # "JOIN_R"
  BY DEF ChallengeR
<1>4. SameUsers(user_by_id')
  BY <1>1, <1>2, SetChidSame
<1> HIDE DEF m, user2, r
<1>5. CASE user2 \in DOMAIN user_by_id
  BY <1>2, <1>3, <1>4, <1>5, FdOfUser, SendKeeps
<1>6. CASE user2 \notin DOMAIN user_by_id
  BY <1>2, <1>4, <1>6, QuietRefl DEF Keeps
<1> QED
  BY <1>5, <1>6

LEMMA RejectKeeps ==
  ASSUME TypeOK, NEW fd \in Fds, HandleReject(fd)
  PROVE  Keeps
<1> DEFINE m == Head(up[fd])
           r == ChallengeR("REJECTED", m, FALSE)
<1>1. m.id1 \in DOMAIN user_by_id
  BY ChallengeFacts DEF HandleReject, Rejects, Valid
<1>2. /\ down' = Send(down, user_by_id[m.id1].fd, r)
      /\ SameUsers(user_by_id') /\ UNCHANGED <<user_by_fd, user_by_nick, user_cnt>>
  BY DEF HandleReject, trees, SameUsers
<1>3. r.kind # "JOIN_R"
  BY DEF ChallengeR
<1> HIDE DEF m, r
<1> QED
  BY <1>1, <1>2, <1>3, FdOfUser, SendKeeps

LEMMA AcceptKeeps ==
  ASSUME TypeOK, NEW fd \in Fds, HandleAccept(fd)
  PROVE  Keeps
<1> DEFINE m == Head(up[fd])
           c == m.chid
           ch == [ch_by_id[c] EXCEPT !.state = "STARTED", !.turn_no = 0]
           users == Battling(user_by_id, m.id1, m.id2, c)
           told == broadcast_user_changes(down, users, {m.id1, m.id2})
           ok1 == ChallengeR("ME_OK", m, TRUE)
           ok2 == ChallengeR("ME_OK", m, FALSE)
           replied1 == Send(told, users[m.id1].fd, ok1)
           replied == Send(replied1, users[m.id2].fd, ok2)
           after == AfterTurn(ch, 0)
           r == TurnR(ch, after, Winner(after, NoId))
           turned1 == Send(replied, users[ch.user1].fd, r)
           turned == Send(turned1, users[ch.user2].fd, r)
<1>1. /\ m \in Challenges
      /\ m.id1 \in DOMAIN user_by_id /\ m.id2 \in DOMAIN user_by_id
      /\ c \in ChIds /\ ch_by_id[c] \in ChallengeRecs
  BY ChallengeFacts DEF HandleAccept, Valid
<1>2. /\ user_by_id' = users
      /\ IF {ch.user1, ch.user2} \subseteq DOMAIN users
           THEN down' = turned ELSE down' = replied
      /\ UNCHANGED <<user_by_fd, user_by_nick, user_cnt>>
  BY DEF HandleAccept, Battling
<1>3. ok1.kind # "JOIN_R" /\ ok2.kind # "JOIN_R" /\ r.kind # "JOIN_R"
  BY DEF ChallengeR, TurnR
<1>4. ok1 \in DownMsgs /\ ok2 \in DownMsgs
  <2> HIDE DEF m
  <2> QED
    BY <1>1, ChallengeRType
<1>5. ch \in ChallengeRecs
  <2> HIDE DEF m
  <2> QED
    BY <1>1 DEF ChallengeRecs
<1>6. r \in DownMsgs
  <2> HIDE DEF ch
  <2>1. after \in ChallengeRecs
    BY <1>5, AfterTurnType
  <2> HIDE DEF after
  <2>2. Winner(after, NoId) \in AnyId
    BY <2>1, WinnerType DEF ChallengeRecs, AnyId
  <2> QED
    BY <1>5, <2>1, <2>2, TurnRType
<1> HIDE DEF m, c, ch, ok1, ok2, r
<1>7. /\ IsTree(users, Ids, UserInfos) /\ DOMAIN users = DOMAIN user_by_id
      /\ SameUsers(users)
  BY <1>1, BattlingType DEF TypeOK, ServerTypeOK, SameUsers
<1> HIDE DEF users
<1>8. \A id \in DOMAIN users : users[id].fd \in Fds
  BY <1>7 DEF IsTree, UserInfos
<1>9. told \in [Fds -> Seq(DownMsgs)] /\ Quiet(down, told)
  BY <1>1, <1>7, BroadcastType, QuietBroadcast DEF TypeOK, ChannelsTypeOK
<1> HIDE DEF told
<1>10. replied1 \in [Fds -> Seq(DownMsgs)] /\ Quiet(down, replied1)
  <2>1. replied1 \in [Fds -> Seq(DownMsgs)] /\ Quiet(told, replied1)
    BY <1>1, <1>3, <1>4, <1>7, <1>8, <1>9, SendType, QuietSend
  <2> HIDE DEF replied1
  <2> QED
    BY <1>9, <2>1, QuietTrans
<1> HIDE DEF replied1
<1>11. replied \in [Fds -> Seq(DownMsgs)] /\ Quiet(down, replied)
  <2>1. replied \in [Fds -> Seq(DownMsgs)] /\ Quiet(replied1, replied)
    BY <1>1, <1>3, <1>4, <1>7, <1>8, <1>10, SendType, QuietSend
  <2> HIDE DEF replied
  <2> QED
    BY <1>10, <2>1, QuietTrans
<1> HIDE DEF replied
<1>12. ASSUME {ch.user1, ch.user2} \subseteq DOMAIN users
       PROVE  Quiet(down, turned)
  <2>1. users[ch.user1].fd \in Fds /\ users[ch.user2].fd \in Fds
    BY <1>8, <1>12
  <2>2. turned1 \in [Fds -> Seq(DownMsgs)] /\ Quiet(replied, turned1)
    BY <1>3, <1>6, <1>11, <2>1, SendType, QuietSend
  <2> HIDE DEF turned1
  <2>3. Quiet(turned1, turned)
    BY <1>3, <2>1, <2>2, QuietSend
  <2>4. Quiet(down, turned1)
    BY <1>11, <2>2, QuietTrans
  <2> HIDE DEF turned
  <2> QED
    BY <2>3, <2>4, QuietTrans
<1> QED
  BY <1>2, <1>7, <1>11, <1>12 DEF Keeps

LEMMA TurnJudgedKeeps ==
  ASSUME TypeOK, NEW fd \in Fds, HandleTurnJudged(fd)
  PROVE  Keeps
<1> DEFINE m == Head(up[fd])
           Left(damage, bonus, penalty) ==
             judge_turn(m.chid, NotedBy(m), NoId, damage, bonus, penalty)
<1>1. /\ m.chid \in ChIds /\ NotedBy(m) \in ChallengeRecs
      /\ UNCHANGED <<user_by_fd, user_by_nick, user_cnt>>
  BY TurnFacts DEF HandleTurnJudged
<1>2. PICK damage \in Damages, bonus \in Bonuses, penalty \in Penalties :
        /\ user_by_id' = Left(damage, bonus, penalty).users
        /\ down' = Left(damage, bonus, penalty).down
  BY DEF HandleTurnJudged
<1>3. JudgedSame(Left(damage, bonus, penalty))
  <2> HIDE DEF m
  <2> QED
    BY <1>1, JudgeSame
<1> HIDE DEF Left
<1> QED
  BY <1>1, <1>2, <1>3 DEF Keeps, JudgedSame

LEMMA SendmsgKeeps ==
  ASSUME TypeOK, NEW fd \in Fds, HandleSendmsg(fd)
  PROVE  Keeps
<1> DEFINE m == [Head(up[fd]) EXCEPT !.key = 0]
<1>1. m.kind # "JOIN_R"
  <2>1. Head(up[fd]) \in SendMsgs
    BY TakesType, UpKinds DEF HandleSendmsg, TypeOK
  <2> QED
    BY <2>1 DEF SendMsgs
<1>2. /\ down' = SendAll(down, FdsOf(user_by_id), m) \/ down' = down
      /\ SameUsers(user_by_id') /\ UNCHANGED <<user_by_fd, user_by_nick, user_cnt>>
  BY DEF HandleSendmsg, serverVars, trees, SameUsers
<1> HIDE DEF m
<1>3. Quiet(down, SendAll(down, FdsOf(user_by_id), m))
  BY <1>1, QuietSendAll DEF TypeOK, ChannelsTypeOK
<1> QED
  BY <1>2, <1>3, QuietRefl DEF Keeps

(* Every handler of pkt_handler keeps the invariant. *)
LEMMA HandlerInv ==
  ASSUME LoginInv, NEW fd \in Fds, pkt_handler(fd), UNCHANGED clientVars
  PROVE  OwnIds' /\ IndexesAgree' /\ JoinOnce'
<1>0. TypeOK /\ OwnIds /\ IndexesAgree /\ JoinOnce
  BY DEF LoginInv
<1>1. ASSUME NEW kind, Takes(fd, kind), Keeps
      PROVE  OwnIds' /\ IndexesAgree' /\ JoinOnce'
  <2>1. Quiet(down, down') /\ user_by_fd' = user_by_fd
    BY <1>1 DEF Keeps
  <2>2. JoinOnce'
    BY <1>0, <1>1, <2>1, TakesJoinOnce DEF clientVars
  <2> QED
    BY <1>0, <1>1, <2>2, KeepsIndexes
<1>2. CASE HandleJoinOk(fd)
  BY <1>2, JoinOkIndexes, JoinOkOnce
<1>3. CASE HandleJoinRefused(fd)
  BY <1>3, JoinRefusedInv
<1>4. CASE HandleQuit(fd)
  <2>1. Takes(fd, "QUIT")
    BY <1>4 DEF HandleQuit
  <2>2. CASE Known(Head(up[fd]).id, Head(up[fd]).key)
    BY <1>4, <2>1, <2>2, QuitUserInv DEF HandleQuit, Known
  <2>3. CASE ~ Known(Head(up[fd]).id, Head(up[fd]).key)
    <3>1. UNCHANGED <<trees, down>>
      BY <1>4, <2>3 DEF HandleQuit, serverVars
    <3> QED
      BY <1>1, <2>1, <3>1, UnchangedKeeps
  <2> QED
    BY <2>2, <2>3
<1>5. CASE HandleDisconnect(fd)
  <2>1. user_by_fd[fd] \in DOMAIN user_by_id
    BY <1>0, <1>5 DEF HandleDisconnect, IndexesAgree
  <2> QED
    BY <1>5, <2>1, QuitUserInv DEF HandleDisconnect
<1>6. CASE \/ HandleChallengeIgnored(fd) \/ HandleStartNoId(fd)
           \/ HandleDisconnectUnknown(fd) \/ HandleTurnIgnored(fd)
           \/ HandleTurnFirst(fd)
  <2>1. Takes(fd, "CHALLENGE") \/ Takes(fd, "EDISCONN") \/ Takes(fd, "TURN")
    BY <1>6 DEF HandleChallengeIgnored, HandleStartNoId, HandleDisconnectUnknown,
                HandleTurnIgnored, HandleTurnFirst
  <2> QED
    BY <1>1, <1>6, <2>1, SilentKeeps
<1>7. CASE HandleChallengeError(fd)
  BY <1>0, <1>1, <1>7, ChallengeErrorKeeps DEF HandleChallengeError
<1>8. CASE HandleStart(fd)
  BY <1>0, <1>1, <1>8, StartKeeps DEF HandleStart
<1>9. CASE HandleCancel(fd)
  BY <1>0, <1>1, <1>9, CancelKeeps DEF HandleCancel
<1>10. CASE HandleAccept(fd)
  BY <1>0, <1>1, <1>10, AcceptKeeps DEF HandleAccept
<1>11. CASE HandleReject(fd)
  BY <1>0, <1>1, <1>11, RejectKeeps DEF HandleReject
<1>12. CASE HandleTurnJudged(fd)
  BY <1>0, <1>1, <1>12, TurnJudgedKeeps DEF HandleTurnJudged
<1>13. CASE HandleSendmsg(fd)
  BY <1>0, <1>1, <1>13, SendmsgKeeps DEF HandleSendmsg
<1> QED
  BY <1>2, <1>3, <1>4, <1>5, <1>6, <1>7, <1>8, <1>9, <1>10, <1>11, <1>12, <1>13
     DEF pkt_handler
----------------------------------------------------------------------------
(* The clients.  A step of one session leaves the trees alone, and the     *)
(* other connections.                                                      *)
LEMMA SessionStep ==
  ASSUME LoginInv, NEW fd \in Fds, UNCHANGED serverVars,
         \A f \in Fds \ {fd} : /\ up'[f] = up[f] /\ down'[f] = down[f]
                               /\ session'[f] = session[f],
         JoinOnceAt(up'[fd], down'[fd], session'[fd].phase, fd \in DOMAIN user_by_fd)
  PROVE  OwnIds' /\ IndexesAgree' /\ JoinOnce'
<1>1. UNCHANGED <<user_by_id, user_by_fd, user_by_nick, user_cnt>>
  BY DEF serverVars, trees
<1>2. OwnIds' /\ IndexesAgree'
  BY <1>1 DEF LoginInv, OwnIds, IndexesAgree
<1>3. ASSUME NEW f \in Fds
      PROVE  JoinOnceAt(up'[f], down'[f], session'[f].phase, f \in DOMAIN user_by_fd')
  <2>1. CASE f = fd
    BY <1>1, <2>1
  <2>2. CASE f # fd
    <3>1. JoinOnceAt(up[f], down[f], session[f].phase, f \in DOMAIN user_by_fd)
      BY JoinOnceIsAt DEF LoginInv
    <3> QED
      BY <1>1, <2>2, <3>1
  <2> QED
    BY <2>1, <2>2
<1> QED
  BY <1>2, <1>3, JoinOnceIsAt

(* A key of the main screen sends one message, which is no JOIN. *)
LEMMA MainSends ==
  ASSUME LoginInv, NEW fd \in Fds, NEW m, m.kind # "JOIN", up' = Send(up, fd, m),
         UNCHANGED <<down, serverVars>>,
         \A f \in Fds \ {fd} : session'[f] = session[f],
         session'[fd].phase \in {"MAIN", "DONE"}
  PROVE  OwnIds' /\ IndexesAgree' /\ JoinOnce'
<1>1. up \in [Fds -> Seq(UpMsgs)] /\ up[fd] \in Seq(UpMsgs)
  BY DEF LoginInv, TypeOK, ChannelsTypeOK
<1>2. up'[fd] = Append(up[fd], m) /\ \A f \in Fds \ {fd} : up'[f] = up[f]
  BY <1>1 DEF Send
<1>3. JoinOnceAt(up[fd], down[fd], session[fd].phase, fd \in DOMAIN user_by_fd)
  BY JoinOnceIsAt DEF LoginInv
<1>4. /\ Has(up'[fd], "JOIN") => Has(up[fd], "JOIN")
      /\ OneAtMost(up[fd], "JOIN") => OneAtMost(up'[fd], "JOIN")
  BY <1>1, <1>2, AppendHas
<1>5. JoinOnceAt(up'[fd], down'[fd], session'[fd].phase, fd \in DOMAIN user_by_fd)
  BY <1>3, <1>4 DEF JoinOnceAt
<1> QED
  BY <1>2, <1>5, SessionStep

LEMMA LoginStep ==
  ASSUME LoginInv, NEW fd \in Fds, NEW nick, Login(fd, nick), UNCHANGED serverVars
  PROVE  OwnIds' /\ IndexesAgree' /\ JoinOnce'
<1>1. up \in [Fds -> Seq(UpMsgs)] /\ up[fd] \in Seq(UpMsgs) /\ session \in [Fds -> Sessions]
  BY DEF LoginInv, TypeOK, ChannelsTypeOK, ClientTypeOK
<1>2. /\ up'[fd] = Append(up[fd], Join(nick)) /\ down' = down
      /\ \A f \in Fds \ {fd} : up'[f] = up[f] /\ session'[f] = session[f]
      /\ session[fd].phase \in {"LOGIN", "RETRY"}
  BY <1>1 DEF Login, Send
<1>3. session'[fd].phase = "WAIT_MSG"
  BY <1>1 DEF Login, Sessions
<1>4. JoinOnceAt(up[fd], down[fd], session[fd].phase, fd \in DOMAIN user_by_fd)
  BY JoinOnceIsAt DEF LoginInv
<1>5. OneAtMost(up'[fd], "JOIN")
  BY <1>1, <1>2, <1>4, AppendHas DEF JoinOnceAt
<1>6. JoinOnceAt(up'[fd], down'[fd], session'[fd].phase, fd \in DOMAIN user_by_fd)
  BY <1>2, <1>3, <1>4, <1>5 DEF JoinOnceAt
<1> QED
  BY <1>2, <1>6, SessionStep

(* The phase of a session that changes other fields, or ends. *)
LEMMA SessionPhase ==
  ASSUME NEW s \in Sessions
  PROVE  /\ \A w : [s EXCEPT !.waiting_for = w].phase = s.phase
         /\ \A a : [s EXCEPT !.acted = a].phase = s.phase
         /\ \A p : [s EXCEPT !.phase = p].phase = p
  BY DEF Sessions

LEMMA KeyInv ==
  ASSUME LoginInv, NEW fd \in Fds, Key(fd), UNCHANGED serverVars
  PROVE  OwnIds' /\ IndexesAgree' /\ JoinOnce'
<1>1. session \in [Fds -> Sessions] /\ session[fd] \in Sessions
  BY DEF LoginInv, TypeOK, ClientTypeOK
<1>2. CASE \E nick \in Nicks : Login(fd, nick)
  BY <1>2, LoginStep
<1>3. ASSUME NEW id \in Ids, Invite(fd, id)
      PROVE  OwnIds' /\ IndexesAgree' /\ JoinOnce'
  <2> DEFINE m == Challenge("C_START", session[fd].id, id, NoId, session[fd].key)
  <2>1. m.kind # "JOIN"
    BY DEF Challenge
  <2>2. /\ up' = Send(up, fd, m) /\ down' = down
        /\ session' = [session EXCEPT ![fd].waiting_for = "W_CANCEL"]
        /\ session[fd].phase = "MAIN"
    BY <1>3 DEF Invite, InMain
  <2> HIDE DEF m
  <2> QED
    BY <1>1, <2>1, <2>2, SessionPhase, MainSends
<1>4. CASE Cancel(fd)
  <2> DEFINE m == Challenge("C_CANCEL", session[fd].id, session[fd].opponent_id, NoId,
                            session[fd].key)
  <2>1. m.kind # "JOIN"
    BY DEF Challenge
  <2>2. /\ up' = Send(up, fd, m) /\ down' = down
        /\ session' = [session EXCEPT ![fd].waiting_for = "W_NONE"]
        /\ session[fd].phase = "MAIN"
    BY <1>4 DEF Cancel, InMain
  <2> HIDE DEF m
  <2> QED
    BY <1>1, <2>1, <2>2, SessionPhase, MainSends
<1>5. ASSUME NEW action \in {"C_ACCEPT", "C_REJECT"}, Answer(fd, action)
      PROVE  OwnIds' /\ IndexesAgree' /\ JoinOnce'
  <2> DEFINE m == Challenge(action, session[fd].opponent_id, session[fd].id,
                            session[fd].chid, session[fd].key)
  <2>1. m.kind # "JOIN"
    BY DEF Challenge
  <2>2. /\ up' = Send(up, fd, m) /\ down' = down
        /\ session' = [session EXCEPT ![fd].waiting_for = "W_NONE"]
        /\ session[fd].phase = "MAIN"
    BY <1>5 DEF Answer, InMain
  <2> HIDE DEF m
  <2> QED
    BY <1>1, <2>1, <2>2, SessionPhase, MainSends
<1>6. ASSUME NEW action \in Acts, Act(fd, action)
      PROVE  OwnIds' /\ IndexesAgree' /\ JoinOnce'
  <2> DEFINE m == Turn(session[fd].id, session[fd].chid, session[fd].key,
                       session[fd].turn_no, action)
  <2>1. m.kind # "JOIN"
    BY DEF Turn
  <2>2. /\ up' = Send(up, fd, m) /\ down' = down
        /\ session' = [session EXCEPT ![fd].acted = TRUE]
        /\ session[fd].phase = "MAIN"
    BY <1>6 DEF Act, InMain
  <2> HIDE DEF m
  <2> QED
    BY <1>1, <2>1, <2>2, SessionPhase, MainSends
<1>7. CASE Chat(fd)
  <2> DEFINE m == SendMsg(session[fd].id, session[fd].key)
  <2>1. m.kind # "JOIN"
    BY DEF SendMsg
  <2>2. /\ up' = Send(up, fd, m) /\ down' = down /\ session' = session
        /\ session[fd].phase = "MAIN"
    BY <1>7 DEF Chat, InMain, clientVars
  <2> HIDE DEF m
  <2> QED
    BY <2>1, <2>2, MainSends
<1>8. CASE Leave(fd)
  <2> DEFINE m == Quit(session[fd].id, session[fd].key)
  <2>1. m.kind # "JOIN"
    BY DEF Quit
  <2>2. /\ up' = Send(up, fd, m) /\ down' = down
        /\ session' = [session EXCEPT ![fd].phase = "DONE"]
    BY <1>8 DEF Leave
  <2> HIDE DEF m
  <2> QED
    BY <1>1, <2>1, <2>2, SessionPhase, MainSends
<1> QED
  BY <1>2, <1>3, <1>4, <1>5, <1>6, <1>7, <1>8 DEF Key

LEMMA LoginAnsweredInv ==
  ASSUME LoginInv, NEW fd \in Fds, LoginAnswered(fd), UNCHANGED serverVars
  PROVE  OwnIds' /\ IndexesAgree' /\ JoinOnce'
<1> DEFINE r == Head(down[fd])
<1>1. /\ down \in [Fds -> Seq(DownMsgs)] /\ down[fd] \in Seq(DownMsgs)
      /\ session \in [Fds -> Sessions] /\ session[fd] \in Sessions
  BY DEF LoginInv, TypeOK, ChannelsTypeOK, ClientTypeOK
<1>2. /\ down[fd] # <<>> /\ down' = [down EXCEPT ![fd] = Tail(down[fd])] /\ up' = up
      /\ session[fd].phase = "WAIT_MSG"
  BY DEF LoginAnswered, Receives
<1>3. JoinOnceAt(up[fd], down[fd], session[fd].phase, fd \in DOMAIN user_by_fd)
  BY JoinOnceIsAt DEF LoginInv
<1>4. /\ Has(Tail(down[fd]), "JOIN_R") => Has(down[fd], "JOIN_R")
      /\ Refused(Tail(down[fd])) => Refused(down[fd])
      /\ OneAtMost(down[fd], "JOIN_R") => OneAtMost(Tail(down[fd]), "JOIN_R")
      /\ OneAtMost(down[fd], "JOIN_R") /\ r.kind = "JOIN_R" =>
           ~ Has(Tail(down[fd]), "JOIN_R")
      /\ r.kind = "JOIN_R" => Has(down[fd], "JOIN_R")
  BY <1>1, <1>2, TailHas
<1>5. down'[fd] = Tail(down[fd]) /\ \A f \in Fds \ {fd} : down'[f] = down[f]
  BY <1>1, <1>2
<1>6. \A f \in Fds \ {fd} : session'[f] = session[f]
  BY <1>1 DEF LoginAnswered
<1>7. CASE r.kind = "JOIN_R" /\ r.error # "ME_OK"
  <2>1. session'[fd].phase = "RETRY"
    BY <1>1, <1>7, SessionPhase DEF LoginAnswered
  <2>2. Refused(down[fd])
    <3>1. 1 \in DOMAIN down[fd] /\ down[fd][1] = r
      BY <1>1, <1>2
    <3> HIDE DEF r
    <3> QED
      BY <1>7, <3>1 DEF Refused
  <2>3. /\ fd \notin DOMAIN user_by_fd /\ ~ Has(up[fd], "JOIN")
        /\ ~ Has(down'[fd], "JOIN_R") /\ OneAtMost(down'[fd], "JOIN_R")
    BY <1>3, <1>4, <1>5, <1>7, <2>2 DEF JoinOnceAt
  <2>4. JoinOnceAt(up'[fd], down'[fd], session'[fd].phase, fd \in DOMAIN user_by_fd)
    BY <1>2, <1>3, <2>3 DEF JoinOnceAt
  <2> QED
    BY <1>2, <1>5, <1>6, <2>4, SessionStep
<1>8. CASE ~ (r.kind = "JOIN_R" /\ r.error # "ME_OK")
  <2>1. session'[fd].phase \in {"WAIT_MSG", "MAIN"}
    <3>1. \A id, key, acted, state :
            [NewSession EXCEPT !.phase = "MAIN", !.id = id, !.key = key,
                               !.acted = acted, !.state = state].phase = "MAIN"
      BY DEF NewSession
    <3>2. \/ session' = session
          \/ \E acted \in UnsetActed, state \in UnsetState :
               session' = [session EXCEPT ![fd] =
                             [NewSession EXCEPT !.phase = "MAIN", !.id = r.id,
                                                !.key = r.key, !.acted = acted,
                                                !.state = state]]
      BY <1>8 DEF LoginAnswered
    <3>3. CASE session' = session
      BY <1>2, <3>3
    <3>4. ASSUME NEW acted \in UnsetActed, NEW state \in UnsetState,
                 session' = [session EXCEPT ![fd] =
                               [NewSession EXCEPT !.phase = "MAIN", !.id = r.id,
                                                  !.key = r.key, !.acted = acted,
                                                  !.state = state]]
          PROVE  session'[fd].phase = "MAIN"
      <4> DEFINE new == [NewSession EXCEPT !.phase = "MAIN", !.id = r.id, !.key = r.key,
                                           !.acted = acted, !.state = state]
      <4>1. new.phase = "MAIN"
        BY <3>1
      <4>2. session' = [session EXCEPT ![fd] = new]
        BY <3>4
      <4> HIDE DEF new
      <4> QED
        BY <1>1, <4>1, <4>2
    <3> QED
      BY <3>2, <3>3, <3>4
  <2>2. JoinOnceAt(up'[fd], down'[fd], session'[fd].phase, fd \in DOMAIN user_by_fd)
    BY <1>2, <1>3, <1>4, <1>5, <2>1 DEF JoinOnceAt
  <2> QED
    BY <1>2, <1>5, <1>6, <2>2, SessionStep
<1> QED
  BY <1>7, <1>8

LEMMA AnswersNoJoin ==
  ASSUME NEW s \in Sessions, NEW m \in DownMsgs, NEW q \in Seq(UpMsgs)
  PROVE  /\ Has(q \o Answers(s, m), "JOIN") => Has(q, "JOIN")
         /\ OneAtMost(q, "JOIN") => OneAtMost(q \o Answers(s, m), "JOIN")
<1> DEFINE reject == Challenge("C_REJECT", m.id1, m.id2, m.chid, s.key)
           quit == Quit(s.id, s.key)
<1>1. reject.kind # "JOIN" /\ quit.kind # "JOIN"
  BY DEF Challenge, Quit
<1>2. Answers(s, m) = <<reject>> \/ Answers(s, m) = <<quit>> \/ Answers(s, m) = <<>>
  BY DEF Answers
<1>3. Answers(s, m) \in Seq(UpMsgs)
  BY AnswersType
<1> HIDE DEF reject, quit
<1>4. ASSUME NEW a, Answers(s, m) = <<a>>, a.kind # "JOIN"
      PROVE  /\ Has(q \o Answers(s, m), "JOIN") => Has(q, "JOIN")
             /\ OneAtMost(q, "JOIN") => OneAtMost(q \o Answers(s, m), "JOIN")
  <2>1. a \in UpMsgs
    BY <1>3, <1>4
  <2>2. q \o <<a>> = Append(q, a)
    BY <2>1
  <2> QED
    BY <1>4, <2>2, AppendHas
<1>5. CASE Answers(s, m) = <<>>
  <2>1. q \o <<>> = q
    OBVIOUS
  <2> QED
    BY <1>5, <2>1
<1> QED
  BY <1>1, <1>2, <1>4, <1>5

LEMMA MainReceivesInv ==
  ASSUME LoginInv, NEW fd \in Fds, MainReceives(fd), UNCHANGED serverVars
  PROVE  OwnIds' /\ IndexesAgree' /\ JoinOnce'
<1> DEFINE m == Head(down[fd])
           s == session[fd]
<1>1. /\ down \in [Fds -> Seq(DownMsgs)] /\ down[fd] \in Seq(DownMsgs)
      /\ up \in [Fds -> Seq(UpMsgs)] /\ up[fd] \in Seq(UpMsgs)
      /\ session \in [Fds -> Sessions] /\ s \in Sessions
  BY DEF LoginInv, TypeOK, ChannelsTypeOK, ClientTypeOK
<1>2. /\ down[fd] # <<>> /\ down' = [down EXCEPT ![fd] = Tail(down[fd])]
      /\ up' = [up EXCEPT ![fd] = up[fd] \o Answers(s, m)]
      /\ session' = [session EXCEPT ![fd] = Handled(s, m)]
      /\ s.phase = "MAIN"
  BY DEF MainReceives, Receives
<1>3. m \in DownMsgs
  BY <1>1, <1>2
<1> HIDE DEF m, s
<1>4. Handled(s, m).phase \in {"MAIN", "DONE"}
  BY <1>1, <1>2, <1>3, HandledType
<1>5. /\ Has(up[fd] \o Answers(s, m), "JOIN") => Has(up[fd], "JOIN")
      /\ OneAtMost(up[fd], "JOIN") => OneAtMost(up[fd] \o Answers(s, m), "JOIN")
  BY <1>1, <1>3, AnswersNoJoin
<1>6. /\ Has(Tail(down[fd]), "JOIN_R") => Has(down[fd], "JOIN_R")
      /\ Refused(Tail(down[fd])) => Refused(down[fd])
      /\ OneAtMost(down[fd], "JOIN_R") => OneAtMost(Tail(down[fd]), "JOIN_R")
  BY <1>1, <1>2, TailHas
<1>7. /\ up'[fd] = up[fd] \o Answers(s, m) /\ down'[fd] = Tail(down[fd])
      /\ session'[fd] = Handled(s, m)
      /\ \A f \in Fds \ {fd} : /\ up'[f] = up[f] /\ down'[f] = down[f]
                               /\ session'[f] = session[f]
  BY <1>1, <1>2
<1>8. JoinOnceAt(up[fd], down[fd], session[fd].phase, fd \in DOMAIN user_by_fd)
  BY JoinOnceIsAt DEF LoginInv
<1>9. JoinOnceAt(up'[fd], down'[fd], session'[fd].phase, fd \in DOMAIN user_by_fd)
  BY <1>4, <1>5, <1>6, <1>7, <1>8 DEF JoinOnceAt
<1> QED
  BY <1>7, <1>9, SessionStep

LEMMA DiscardsInv ==
  ASSUME LoginInv, NEW fd \in Fds, Discards(fd), UNCHANGED serverVars
  PROVE  OwnIds' /\ IndexesAgree' /\ JoinOnce'
<1>1. down \in [Fds -> Seq(DownMsgs)]
  BY DEF LoginInv, TypeOK, ChannelsTypeOK
<1>2. /\ up' = up /\ session' = session /\ down'[fd] = <<>>
      /\ \A f \in Fds \ {fd} : down'[f] = down[f]
  BY <1>1 DEF Discards, clientVars
<1>3. ~ Has(<<>>, "JOIN_R") /\ ~ Refused(<<>>) /\ OneAtMost(<<>>, "JOIN_R")
  BY DEF Has, Refused, OneAtMost
<1>4. JoinOnceAt(up[fd], down[fd], session[fd].phase, fd \in DOMAIN user_by_fd)
  BY JoinOnceIsAt DEF LoginInv
<1>5. JoinOnceAt(up'[fd], down'[fd], session'[fd].phase, fd \in DOMAIN user_by_fd)
  BY <1>2, <1>3, <1>4 DEF JoinOnceAt
<1> QED
  BY <1>2, <1>5, SessionStep

(* What a lost connection had delivered is a prefix of what was on its way. *)
LEMMA LoseInv ==
  ASSUME LoginInv, NEW fd \in Fds, Lose(fd), UNCHANGED serverVars
  PROVE  OwnIds' /\ IndexesAgree' /\ JoinOnce'
<1>1. /\ up \in [Fds -> Seq(UpMsgs)] /\ up[fd] \in Seq(UpMsgs)
      /\ session \in [Fds -> Sessions] /\ session[fd] \in Sessions
  BY DEF LoginInv, TypeOK, ChannelsTypeOK, ClientTypeOK
<1>2. PICK n \in 0 .. Len(up[fd]) :
        up' = [up EXCEPT ![fd] = Append(SubSeq(up[fd], 1, n), Disconn)]
  BY DEF Lose
<1> DEFINE kept == SubSeq(up[fd], 1, n)
<1>3. /\ kept \in Seq(UpMsgs) /\ DOMAIN kept \subseteq DOMAIN up[fd]
      /\ \A i \in DOMAIN kept : kept[i] = up[fd][i]
  BY <1>1, <1>2
<1>4. /\ up'[fd] = Append(kept, Disconn) /\ down' = down
      /\ session'[fd].phase = "GONE"
      /\ \A f \in Fds \ {fd} : up'[f] = up[f] /\ session'[f] = session[f]
  BY <1>1, <1>2, SessionPhase DEF Lose
<1> HIDE DEF kept
<1>5. /\ Has(kept, "JOIN") => Has(up[fd], "JOIN")
      /\ OneAtMost(up[fd], "JOIN") => OneAtMost(kept, "JOIN")
  BY <1>3 DEF Has, OneAtMost
<1>6. /\ Has(up'[fd], "JOIN") => Has(kept, "JOIN")
      /\ OneAtMost(kept, "JOIN") => OneAtMost(up'[fd], "JOIN")
  BY <1>3, <1>4, AppendHas DEF Disconn
<1>7. JoinOnceAt(up[fd], down[fd], session[fd].phase, fd \in DOMAIN user_by_fd)
  BY JoinOnceIsAt DEF LoginInv
<1>8. JoinOnceAt(up'[fd], down'[fd], session'[fd].phase, fd \in DOMAIN user_by_fd)
  BY <1>4, <1>5, <1>6, <1>7 DEF JoinOnceAt
<1> QED
  BY <1>4, <1>8, SessionStep
----------------------------------------------------------------------------
LEMMA InitInv == Init => LoginInv
<1> SUFFICES ASSUME Init PROVE LoginInv
  OBVIOUS
<1>1. TypeOK
  BY InitType
<1>2. /\ DOMAIN user_by_id = {} /\ DOMAIN user_by_fd = {} /\ DOMAIN user_by_nick = {}
      /\ user_cnt = 0
  BY DEF Init, model_init, Empty
<1>3. OwnIds /\ IndexesAgree
  BY <1>2, FS_EmptySet DEF OwnIds, IndexesAgree
<1>4. \A fd \in Fds : up[fd] = <<>> /\ down[fd] = <<>>
  BY DEF Init, ChannelsInit
<1>5. JoinOnce
  BY <1>2, <1>4 DEF JoinOnce, Has, Refused, OneAtMost
<1> QED
  BY <1>1, <1>3, <1>5 DEF LoginInv

LEMMA NextInv == LoginInv /\ [Next]_vars => LoginInv'
<1> SUFFICES ASSUME LoginInv, [Next]_vars PROVE LoginInv'
  OBVIOUS
<1>1. TypeOK'
  BY NextType DEF LoginInv
<1>2. ASSUME NEW fd \in Fds, pkt_handler(fd), UNCHANGED clientVars
      PROVE  OwnIds' /\ IndexesAgree' /\ JoinOnce'
  BY <1>2, HandlerInv
<1>3. ASSUME NEW fd \in Fds, Key(fd) \/ Receive(fd) \/ Lose(fd), UNCHANGED serverVars
      PROVE  OwnIds' /\ IndexesAgree' /\ JoinOnce'
  BY <1>3, KeyInv, LoginAnsweredInv, MainReceivesInv, DiscardsInv, LoseInv DEF Receive
<1>4. ASSUME UNCHANGED vars
      PROVE  OwnIds' /\ IndexesAgree' /\ JoinOnce'
  <2>1. UNCHANGED <<user_by_id, user_by_fd, user_by_nick, user_cnt, up, down, session>>
    BY <1>4 DEF vars, channels, serverVars, trees, clientVars
  <2>2. OwnIds' /\ IndexesAgree'
    BY <2>1 DEF LoginInv, OwnIds, IndexesAgree
  <2>3. JoinOnce'
    BY <2>1, JoinOnceIsAt DEF LoginInv
  <2> QED
    BY <2>2, <2>3
<1>5. OwnIds' /\ IndexesAgree' /\ JoinOnce'
  BY <1>2, <1>3, <1>4 DEF Next
<1> QED
  BY <1>1, <1>5 DEF LoginInv

(* The inductive invariant holds of the whole game. *)
THEOREM JankenInvariant == Spec => []LoginInv
<1>1. Init => LoginInv
  BY InitInv
<1>2. LoginInv /\ [Next]_vars => LoginInv'
  BY NextInv
<1> QED
  BY <1>1, <1>2, PTL DEF Spec

(* Every handler and every session step keeps the trees, the challenges,   *)
(* the sessions and the messages in their types, for any set of            *)
(* connections: handle_disconnect, which follows user_by_fd into           *)
(* user_by_id, never finds a dangling entry.                               *)
THEOREM JankenTypeOK == Spec => []TypeOK
<1>1. LoginInv => TypeOK
  BY DEF LoginInv
<1> QED
  BY <1>1, JankenInvariant, PTL

(* user_add and user_del_and_destroy keep the three search trees and       *)
(* user_cnt in step, over every interleaving of joins, QUITs and lost      *)
(* connections.                                                            *)
THEOREM JankenIndexesAgree == Spec => []IndexesAgree
<1>1. LoginInv => IndexesAgree
  BY DEF LoginInv
<1> QED
  BY <1>1, JankenInvariant, PTL

(* handle_join is never given a JOIN by a connection that is logged in, or *)
(* a second one while the first waits for its answer, so user_add's blind  *)
(* spot for the descriptor is never met.                                   *)
THEOREM JankenJoinOnce == Spec => []JoinOnce
<1>1. LoginInv => JoinOnce
  BY DEF LoginInv
<1> QED
  BY <1>1, JankenInvariant, PTL
----------------------------------------------------------------------------
(* What a message or a session says of challenge c when the challenges are *)
(* chs and the ids drawn so far are dr.  Names: c is, or was, between id1  *)
(* and id2.  NotAsker: if c is still open then it is id who was asked.     *)
Names(chs, dr, c, id1, id2) ==
  /\ c \in dr
  /\ c \in DOMAIN chs => chs[c].user1 = id1 /\ chs[c].user2 = id2

NotAsker(chs, dr, c, id) ==
  /\ c \in dr \cup {NoId}
  /\ (c \in DOMAIN chs /\ chs[c].state = "ASKING") => chs[c].user2 = id

UpOK(chs, dr, m) ==
  /\ (m.kind = "CHALLENGE" /\ m.action = "C_ACCEPT") =>
       Names(chs, dr, m.chid, m.id1, m.id2)
  /\ m.kind = "TURN" => NotAsker(chs, dr, m.chid, m.user)

DownOK(chs, dr, fd, m) ==
  /\ (m.kind = "JOIN_R" /\ m.error = "ME_OK") => m.id = fd
  /\ m.kind = "CHALLENGE" => m.id2 = fd /\ Names(chs, dr, m.chid, m.id1, m.id2)
  /\ (m.kind = "CHALLENGE_R" /\ m.error = "ME_OK") =>
       /\ m.chid \in dr
       /\ m.chid \in DOMAIN chs => chs[m.chid].state # "ASKING"

SessionOK(chs, dr, fd, s) ==
  s.phase = "MAIN" =>
    /\ s.id = fd
    /\ NotAsker(chs, dr, s.chid, fd)
    /\ s.waiting_for = "W_ACCEPT" => Names(chs, dr, s.chid, s.opponent_id, fd)

UpsOK(u, chs, dr) == \A fd \in Fds : \A i \in DOMAIN u[fd] : UpOK(chs, dr, u[fd][i])

DownsOK(d, chs, dr) ==
  \A fd \in Fds : \A i \in DOMAIN d[fd] : DownOK(chs, dr, fd, d[fd][i])

(* Words: what is said of the challenges, on its way or in a session, is   *)
(* true of those that still exist.                                         *)
Words ==
  /\ UpsOK(up, ch_by_id, drawn)
  /\ DownsOK(down, ch_by_id, drawn)
  /\ \A fd \in Fds : SessionOK(ch_by_id, drawn, fd, session[fd])

(* A challenge at rest: BattleSound of one challenge, and while it is open *)
(* its challenger has not acted, so no turn of it can be judged.           *)
AtRest(ch) ==
  /\ ch.user1 # ch.user2
  /\ ~ Acted(ch)
  /\ ch.hp1 > 0 /\ ch.hp2 > 0
  /\ ch.state = "ASKING" =>
       ch.act1 = NoAct /\ ch.turn_no = 0 /\ ch.hp1 = MAXHP /\ ch.hp2 = MAXHP

Rest(chs, dr) == \A c \in DOMAIN chs : c \in dr /\ AtRest(chs[c])

(* BattlePairing of any users and challenges. *)
Paired(users, chs) ==
  /\ \A id \in DOMAIN users :
       users[id].state = "UBATTLING" =>
         /\ users[id].chid \in DOMAIN chs
         /\ chs[users[id].chid].state = "STARTED"
         /\ id \in {chs[users[id].chid].user1, chs[users[id].chid].user2}
  /\ \A c \in DOMAIN chs :
       chs[c].state = "STARTED" =>
         \A id \in {chs[c].user1, chs[c].user2} :
           /\ id \in DOMAIN users
           /\ users[id].state = "UBATTLING"
           /\ users[id].chid = c

(* The inductive invariant, on top of LoginInv.  Paired rests on Words: it *)
(* is the message of a C_ACCEPT that says who is put into battle, so what  *)
(* is on its way must be right; and on Rest: only a challenge that has     *)
(* started may be judged.                                                  *)
Arena == Rest(ch_by_id, drawn) /\ Paired(user_by_id, ch_by_id) /\ NoCrash

BattleInv == Words /\ Arena

LEMMA PairedIs ==
  /\ BattlePairing <=> Paired(user_by_id, ch_by_id)
  /\ BattlePairing' <=> Paired(user_by_id', ch_by_id')
  BY DEF BattlePairing, Paired, Started, Players

LEMMA RestIsSound == Rest(ch_by_id, drawn) => BattleSound
  BY DEF Rest, AtRest, BattleSound
----------------------------------------------------------------------------
(* Moves: the challenges go on.  No id drawn before names a challenge that *)
(* was not there; one that is still there has its players, and has not     *)
(* become open again.                                                      *)
Moves(chs, dr, chs2, dr2) ==
  /\ dr \subseteq dr2
  /\ \A c \in dr \cup {NoId} :
       c \in DOMAIN chs2 =>
         /\ c \in DOMAIN chs
         /\ chs2[c].user1 = chs[c].user1 /\ chs2[c].user2 = chs[c].user2
         /\ chs2[c].state = "ASKING" => chs[c].state = "ASKING"

LEMMA MovesNames ==
  ASSUME NEW chs, NEW dr, NEW chs2, NEW dr2, Moves(chs, dr, chs2, dr2)
  PROVE  /\ \A c, id1, id2 : Names(chs, dr, c, id1, id2) => Names(chs2, dr2, c, id1, id2)
         /\ \A c, id : NotAsker(chs, dr, c, id) => NotAsker(chs2, dr2, c, id)
<1>1. \A c, id1, id2 : Names(chs, dr, c, id1, id2) => Names(chs2, dr2, c, id1, id2)
  BY DEF Moves, Names
<1>2. \A c, id : NotAsker(chs, dr, c, id) => NotAsker(chs2, dr2, c, id)
  BY DEF Moves, NotAsker
<1> QED
  BY <1>1, <1>2

LEMMA MovesWords ==
  ASSUME NEW chs, NEW dr, NEW chs2, NEW dr2, Moves(chs, dr, chs2, dr2)
  PROVE  /\ \A m : UpOK(chs, dr, m) => UpOK(chs2, dr2, m)
         /\ \A fd, m : DownOK(chs, dr, fd, m) => DownOK(chs2, dr2, fd, m)
         /\ \A fd, s : SessionOK(chs, dr, fd, s) => SessionOK(chs2, dr2, fd, s)
<1>1. \A m : UpOK(chs, dr, m) => UpOK(chs2, dr2, m)
  BY MovesNames DEF UpOK
<1>2. \A c : (c \in dr /\ (c \in DOMAIN chs => chs[c].state # "ASKING")) =>
               (c \in dr2 /\ (c \in DOMAIN chs2 => chs2[c].state # "ASKING"))
  BY DEF Moves
<1>3. \A fd, m : DownOK(chs, dr, fd, m) => DownOK(chs2, dr2, fd, m)
  BY <1>2, MovesNames DEF DownOK
<1>4. \A fd, s : SessionOK(chs, dr, fd, s) => SessionOK(chs2, dr2, fd, s)
  BY MovesNames DEF SessionOK
<1> QED
  BY <1>1, <1>3, <1>4

LEMMA MovesDowns ==
  ASSUME NEW d, NEW chs, NEW dr, NEW chs2, NEW dr2, Moves(chs, dr, chs2, dr2),
         DownsOK(d, chs, dr)
  PROVE  DownsOK(d, chs2, dr2)
  BY MovesWords DEF DownsOK

(* The ways a handler changes the challenges. *)
LEMMA MovesSame == \A chs, dr : Moves(chs, dr, chs, dr)
  BY DEF Moves

LEMMA MovesDelete ==
  ASSUME NEW chs, NEW dr, NEW c
  PROVE  Moves(chs, dr, tdelete(chs, c), dr)
  BY DEF Moves, tdelete

LEMMA MovesUpdate ==
  ASSUME NEW chs, NEW dr, NEW c \in DOMAIN chs, NEW ch,
         ch.user1 = chs[c].user1, ch.user2 = chs[c].user2,
         ch.state = "ASKING" => chs[c].state = "ASKING"
  PROVE  Moves(chs, dr, Put(chs, c, ch), dr)
  BY DEF Moves, Put

LEMMA MovesFresh ==
  ASSUME NEW chs, NEW dr, NEW c, c \notin dr, c # NoId, NEW ch
  PROVE  Moves(chs, dr, Put(chs, c, ch), dr \cup {c})
  BY DEF Moves, Put

LEMMA RestDelete ==
  ASSUME NEW chs, NEW dr, Rest(chs, dr), NEW c
  PROVE  Rest(tdelete(chs, c), dr)
  BY DEF Rest, tdelete

LEMMA RestPut ==
  ASSUME NEW chs, NEW dr, NEW dr2, dr \subseteq dr2, Rest(chs, dr), NEW c \in dr2, NEW ch,
         AtRest(ch)
  PROVE  Rest(Put(chs, c, ch), dr2)
  BY DEF Rest, Put
----------------------------------------------------------------------------
(* Paired, over the ways a handler changes users and challenges. *)
LEMMA PairedJoin ==
  ASSUME NEW users, NEW chs, Paired(users, chs), NEW id, id \notin DOMAIN users,
         NEW user, user.state # "UBATTLING"
  PROVE  Paired(Put(users, id, user), chs)
<1> DEFINE users2 == Put(users, id, user)
<1>1. /\ DOMAIN users2 = DOMAIN users \cup {id} /\ users2[id] = user
      /\ \A i \in DOMAIN users : users2[i] = users[i]
  BY DEF Put
<1> HIDE DEF users2
<1> SUFFICES Paired(users2, chs)
  BY DEF users2
<1> QED
  BY <1>1 DEF Paired

LEMMA PairedLeave ==
  ASSUME NEW users, NEW chs, Paired(users, chs), NEW id \in DOMAIN users,
         users[id].state # "UBATTLING"
  PROVE  Paired(tdelete(users, id), chs)
<1> DEFINE users2 == tdelete(users, id)
<1>1. /\ DOMAIN users2 = DOMAIN users \ {id}
      /\ \A i \in DOMAIN users2 : users2[i] = users[i]
  BY DEF tdelete
<1> HIDE DEF users2
<1> SUFFICES Paired(users2, chs)
  BY DEF users2
<1> QED
  BY <1>1 DEF Paired

(* A user that is not battling changes and does not battle then either. *)
LEMMA PairedIdle ==
  ASSUME NEW users, NEW chs, Paired(users, chs), NEW id \in DOMAIN users,
         users[id].state # "UBATTLING", NEW user, user.state # "UBATTLING"
  PROVE  Paired([users EXCEPT ![id] = user], chs)
<1> DEFINE users2 == [users EXCEPT ![id] = user]
<1>1. /\ DOMAIN users2 = DOMAIN users /\ users2[id] = user
      /\ \A i \in DOMAIN users \ {id} : users2[i] = users[i]
  OBVIOUS
<1> HIDE DEF users2
<1> SUFFICES Paired(users2, chs)
  BY DEF users2
<1> QED
  BY <1>1 DEF Paired

LEMMA PairedOpens ==
  ASSUME NEW users, NEW chs, Paired(users, chs), NEW c, c \notin DOMAIN chs,
         NEW ch, ch.state = "ASKING"
  PROVE  Paired(users, Put(chs, c, ch))
<1> DEFINE chs2 == Put(chs, c, ch)
<1>1. /\ DOMAIN chs2 = DOMAIN chs \cup {c} /\ chs2[c] = ch
      /\ \A i \in DOMAIN chs : chs2[i] = chs[i]
  BY DEF Put
<1> HIDE DEF chs2
<1> SUFFICES Paired(users, chs2)
  BY DEF chs2
<1> QED
  BY <1>1 DEF Paired

LEMMA PairedWithdraws ==
  ASSUME NEW users, NEW chs, Paired(users, chs), NEW c \in DOMAIN chs,
         chs[c].state = "ASKING"
  PROVE  Paired(users, tdelete(chs, c))
<1> DEFINE chs2 == tdelete(chs, c)
<1>1. /\ DOMAIN chs2 = DOMAIN chs \ {c}
      /\ \A i \in DOMAIN chs2 : chs2[i] = chs[i]
  BY DEF tdelete
<1> HIDE DEF chs2
<1> SUFFICES Paired(users, chs2)
  BY DEF chs2
<1> QED
  BY <1>1 DEF Paired

LEMMA PairedTurn ==
  ASSUME NEW users, NEW chs, Paired(users, chs), NEW c \in DOMAIN chs, NEW ch,
         ch.user1 = chs[c].user1, ch.user2 = chs[c].user2, ch.state = chs[c].state
  PROVE  Paired(users, Put(chs, c, ch))
<1> DEFINE chs2 == Put(chs, c, ch)
<1>1. /\ DOMAIN chs2 = DOMAIN chs /\ chs2[c] = ch
      /\ \A i \in DOMAIN chs \ {c} : chs2[i] = chs[i]
  BY DEF Put
<1> HIDE DEF chs2
<1>2. \A i \in DOMAIN chs : /\ chs2[i].user1 = chs[i].user1
                            /\ chs2[i].user2 = chs[i].user2
                            /\ chs2[i].state = chs[i].state
  BY <1>1
<1> SUFFICES Paired(users, chs2)
  BY DEF chs2
<1> QED
  BY <1>1, <1>2 DEF Paired

(* The end of battle c: its players are free, nobody else changes. *)
LEMMA PairedEnds ==
  ASSUME NEW users, NEW chs, Paired(users, chs), NEW c \in DOMAIN chs,
         chs[c].state = "STARTED", NEW users2, DOMAIN users2 = DOMAIN users,
         \A id \in {chs[c].user1, chs[c].user2} : users2[id].state # "UBATTLING",
         \A id \in DOMAIN users \ {chs[c].user1, chs[c].user2} : users2[id] = users[id]
  PROVE  Paired(users2, tdelete(chs, c))
<1> DEFINE chs2 == tdelete(chs, c)
<1>1. /\ DOMAIN chs2 = DOMAIN chs \ {c}
      /\ \A i \in DOMAIN chs2 : chs2[i] = chs[i]
  BY DEF tdelete
<1> HIDE DEF chs2
<1> SUFFICES Paired(users2, chs2)
  BY DEF chs2
<1>2. ASSUME NEW id \in DOMAIN users2, users2[id].state = "UBATTLING"
      PROVE  /\ users2[id].chid \in DOMAIN chs2
             /\ chs2[users2[id].chid].state = "STARTED"
             /\ id \in {chs2[users2[id].chid].user1, chs2[users2[id].chid].user2}
  <2>1. users2[id] = users[id] /\ id \notin {chs[c].user1, chs[c].user2}
    BY <1>2
  <2>2. /\ users[id].chid \in DOMAIN chs /\ chs[users[id].chid].state = "STARTED"
        /\ id \in {chs[users[id].chid].user1, chs[users[id].chid].user2}
    BY <1>2, <2>1 DEF Paired
  <2>3. users[id].chid # c
    BY <2>1, <2>2
  <2> QED
    BY <1>1, <2>1, <2>2, <2>3
<1>3. ASSUME NEW d \in DOMAIN chs2, chs2[d].state = "STARTED",
             NEW id \in {chs2[d].user1, chs2[d].user2}
      PROVE  id \in DOMAIN users2 /\ users2[id].state = "UBATTLING" /\ users2[id].chid = d
  <2>1. d \in DOMAIN chs /\ d # c /\ chs2[d] = chs[d]
    BY <1>1
  <2>2. id \in DOMAIN users /\ users[id].state = "UBATTLING" /\ users[id].chid = d
    BY <1>3, <2>1 DEF Paired
  <2>3. id \notin {chs[c].user1, chs[c].user2}
    BY <2>1, <2>2 DEF Paired
  <2> QED
    BY <2>2, <2>3
<1> QED
  BY <1>2, <1>3 DEF Paired

(* The start of battle c between two users that are free. *)
LEMMA PairedStarts ==
  ASSUME NEW users, NEW chs, Paired(users, chs), NEW c \in DOMAIN chs,
         chs[c].state = "ASKING", NEW ch, ch.state = "STARTED",
         {ch.user1, ch.user2} \subseteq DOMAIN users,
         \A id \in {ch.user1, ch.user2} : users[id].state # "UBATTLING",
         NEW users2, DOMAIN users2 = DOMAIN users,
         \A id \in {ch.user1, ch.user2} :
           users2[id].state = "UBATTLING" /\ users2[id].chid = c,
         \A id \in DOMAIN users \ {ch.user1, ch.user2} : users2[id] = users[id]
  PROVE  Paired(users2, Put(chs, c, ch))
<1> DEFINE chs2 == Put(chs, c, ch)
<1>1. /\ DOMAIN chs2 = DOMAIN chs /\ chs2[c] = ch
      /\ \A i \in DOMAIN chs \ {c} : chs2[i] = chs[i]
  BY DEF Put
<1> HIDE DEF chs2
<1> SUFFICES Paired(users2, chs2)
  BY DEF chs2
<1>2. ASSUME NEW id \in DOMAIN users2, users2[id].state = "UBATTLING"
      PROVE  /\ users2[id].chid \in DOMAIN chs2
             /\ chs2[users2[id].chid].state = "STARTED"
             /\ id \in {chs2[users2[id].chid].user1, chs2[users2[id].chid].user2}
  <2>1. CASE id \in {ch.user1, ch.user2}
    BY <1>1, <2>1
  <2>2. CASE id \notin {ch.user1, ch.user2}
    <3>1. users2[id] = users[id]
      BY <2>2
    <3>2. /\ users[id].chid \in DOMAIN chs /\ chs[users[id].chid].state = "STARTED"
          /\ id \in {chs[users[id].chid].user1, chs[users[id].chid].user2}
      BY <1>2, <3>1 DEF Paired
    <3>3. users[id].chid # c
      BY <3>2
    <3> QED
      BY <1>1, <3>1, <3>2, <3>3
  <2> QED
    BY <2>1, <2>2
<1>3. ASSUME NEW d \in DOMAIN chs2, chs2[d].state = "STARTED",
             NEW id \in {chs2[d].user1, chs2[d].user2}
      PROVE  id \in DOMAIN users2 /\ users2[id].state = "UBATTLING" /\ users2[id].chid = d
  <2>1. CASE d = c
    BY <1>1, <2>1
  <2>2. CASE d # c
    <3>1. d \in DOMAIN chs /\ chs2[d] = chs[d]
      BY <1>1, <2>2
    <3>2. id \in DOMAIN users /\ users[id].state = "UBATTLING" /\ users[id].chid = d
      BY <1>3, <3>1 DEF Paired
    <3>3. id \notin {ch.user1, ch.user2}
      BY <3>2
    <3> QED
      BY <3>2, <3>3
  <2> QED
    BY <2>1, <2>2
<1> QED
  BY <1>2, <1>3 DEF Paired
----------------------------------------------------------------------------
(* What is on its way, over the ways a handler sends. *)
LEMMA PlainDown ==
  ASSUME NEW chs, NEW dr, NEW fd, NEW m,
         m.kind \notin {"JOIN_R", "CHALLENGE", "CHALLENGE_R"}
  PROVE  DownOK(chs, dr, fd, m)
  BY DEF DownOK

LEMMA AppendDown ==
  ASSUME NEW S, NEW q \in Seq(S), NEW m, NEW chs, NEW dr, NEW fd,
         \A i \in DOMAIN q : DownOK(chs, dr, fd, q[i]), DownOK(chs, dr, fd, m)
  PROVE  \A i \in DOMAIN Append(q, m) : DownOK(chs, dr, fd, Append(q, m)[i])
<1> DEFINE a == Append(q, m)
<1>1. \A i \in DOMAIN a : (i \in DOMAIN q /\ a[i] = q[i]) \/ a[i] = m
  OBVIOUS
<1> HIDE DEF a
<1> SUFFICES \A i \in DOMAIN a : DownOK(chs, dr, fd, a[i])
  BY DEF a
<1> QED
  BY <1>1

LEMMA SendDown ==
  ASSUME NEW S, NEW d \in [Fds -> Seq(S)], NEW chs, NEW dr, DownsOK(d, chs, dr),
         NEW to \in Fds, NEW m, DownOK(chs, dr, to, m)
  PROVE  DownsOK(Send(d, to, m), chs, dr)
<1> SUFFICES ASSUME NEW fd \in Fds
             PROVE  \A i \in DOMAIN Send(d, to, m)[fd] :
                      DownOK(chs, dr, fd, Send(d, to, m)[fd][i])
  BY DEF DownsOK
<1>1. \A i \in DOMAIN d[fd] : DownOK(chs, dr, fd, d[fd][i])
  BY DEF DownsOK
<1>2. CASE fd # to
  <2>1. Send(d, to, m)[fd] = d[fd]
    BY <1>2 DEF Send
  <2> QED
    BY <1>1, <2>1
<1>3. CASE fd = to
  <2>1. Send(d, to, m)[fd] = Append(d[fd], m) /\ d[fd] \in Seq(S)
    BY <1>3 DEF Send
  <2>2. \A i \in DOMAIN Append(d[fd], m) : DownOK(chs, dr, fd, Append(d[fd], m)[i])
    BY <1>1, <1>3, <2>1, AppendDown
  <2> QED
    BY <2>1, <2>2
<1> QED
  BY <1>2, <1>3

LEMMA SendAllDown ==
  ASSUME NEW S, NEW d \in [Fds -> Seq(S)], NEW chs, NEW dr, DownsOK(d, chs, dr),
         NEW fds, NEW m, \A fd \in Fds : DownOK(chs, dr, fd, m)
  PROVE  DownsOK(SendAll(d, fds, m), chs, dr)
<1> SUFFICES ASSUME NEW fd \in Fds
             PROVE  \A i \in DOMAIN SendAll(d, fds, m)[fd] :
                      DownOK(chs, dr, fd, SendAll(d, fds, m)[fd][i])
  BY DEF DownsOK
<1>1. \A i \in DOMAIN d[fd] : DownOK(chs, dr, fd, d[fd][i])
  BY DEF DownsOK
<1>2. SendAll(d, fds, m)[fd] = d[fd] \/ SendAll(d, fds, m)[fd] = Append(d[fd], m)
  BY DEF SendAll
<1>3. \A i \in DOMAIN Append(d[fd], m) : DownOK(chs, dr, fd, Append(d[fd], m)[i])
  <2>1. d[fd] \in Seq(S)
    OBVIOUS
  <2> QED
    BY <1>1, <2>1, AppendDown
<1> QED
  BY <1>1, <1>2, <1>3

LEMMA BroadcastDown ==
  ASSUME NEW d \in [Fds -> Seq(DownMsgs)], NEW chs, NEW dr, DownsOK(d, chs, dr),
         NEW users, NEW ids
  PROVE  DownsOK(broadcast_user_changes(d, users, ids), chs, dr)
<1> DEFINE m == Uchange({Info(id, users[id]) : id \in ids})
<1>1. m.kind = "UCHANGE"
  BY DEF Uchange
<1> HIDE DEF m
<1>2. \A fd \in Fds : DownOK(chs, dr, fd, m)
  BY <1>1, PlainDown
<1>3. broadcast_user_changes(d, users, ids) = SendAll(d, FdsOf(users), m)
  BY DEF broadcast_user_changes, m
<1> QED
  BY <1>2, <1>3, SendAllDown

(* A handler takes its message and answers; the challenges go on. *)
LEMMA HandlerWords ==
  ASSUME TypeOK, Words, NEW fd \in Fds, NEW kind, Takes(fd, kind),
         Moves(ch_by_id, drawn, ch_by_id', drawn'),
         DownsOK(down', ch_by_id', drawn'), UNCHANGED clientVars
  PROVE  Words'
<1>1. ASSUME NEW f \in Fds, NEW i \in DOMAIN up'[f]
      PROVE  UpOK(ch_by_id', drawn', up'[f][i])
  <2>1. /\ up \in [Fds -> Seq(UpMsgs)] /\ up[fd] \in Seq(UpMsgs) /\ up[fd] # <<>>
        /\ up' = [up EXCEPT ![fd] = Tail(up[fd])]
    BY DEF Takes, TypeOK, ChannelsTypeOK
  <2>2. \A j \in DOMAIN Tail(up[fd]) : /\ j + 1 \in DOMAIN up[fd]
                                       /\ Tail(up[fd])[j] = up[fd][j + 1]
    BY <2>1
  <2>3. \E j \in DOMAIN up[f] : up'[f][i] = up[f][j]
    <3>1. CASE f = fd
      BY <1>1, <2>1, <2>2, <3>1
    <3>2. CASE f # fd
      BY <1>1, <2>1, <3>2
    <3> QED
      BY <3>1, <3>2
  <2>4. UpOK(ch_by_id, drawn, up'[f][i])
    BY <2>3 DEF Words, UpsOK
  <2> QED
    BY <2>4, MovesWords
<1>2. ASSUME NEW f \in Fds
      PROVE  SessionOK(ch_by_id', drawn', f, session'[f])
  <2>1. SessionOK(ch_by_id, drawn, f, session[f]) /\ session' = session
    BY DEF Words, clientVars
  <2> QED
    BY <2>1, MovesWords
<1> QED
  BY <1>1, <1>2 DEF Words, UpsOK

LEMMA HeadOK ==
  ASSUME TypeOK, Words, NEW fd \in Fds, NEW kind, Takes(fd, kind)
  PROVE  UpOK(ch_by_id, drawn, Head(up[fd]))
<1>1. up[fd] \in Seq(UpMsgs) /\ up[fd] # <<>>
  BY DEF Takes, TypeOK, ChannelsTypeOK
<1>2. 1 \in DOMAIN up[fd] /\ Head(up[fd]) = up[fd][1]
  BY <1>1
<1> QED
  BY <1>2 DEF Words, UpsOK
----------------------------------------------------------------------------
(* A step's scores: one that changes ends its user's battle. *)
ScoresAt(users2, chs2) ==
  \A id \in DOMAIN user_by_id \cap DOMAIN users2 :
    users2[id].score # user_by_id[id].score =>
      /\ user_by_id[id].state = "UBATTLING"
      /\ user_by_id[id].chid \notin DOMAIN chs2
      /\ users2[id].state = "UONLINE"

LEMMA EndBattleFree ==
  ASSUME TypeOK, NEW ch \in ChallengeRecs, NEW winner, NEW bonus \in Bonuses,
         NEW penalty \in Penalties, ch.user1 # ch.user2,
         ch.user1 \in DOMAIN user_by_id, ch.user2 \in DOMAIN user_by_id,
         winner = ch.user1 \/ winner = ch.user2,
         \A id \in {ch.user1, ch.user2} : user_by_id[id].state = "UBATTLING"
  PROVE  LET users == EndBattle(user_by_id, ch, winner, bonus, penalty) IN
         /\ DOMAIN users = DOMAIN user_by_id
         /\ \A id \in {ch.user1, ch.user2} : users[id].state = "UONLINE"
         /\ \A id \in DOMAIN user_by_id \ {ch.user1, ch.user2} :
              users[id] = user_by_id[id]
<1> DEFINE loser == IF winner = ch.user1 THEN ch.user2 ELSE ch.user1
           won == [user_by_id EXCEPT ![winner] = Settle(@, bonus)]
           ended == [won EXCEPT ![loser] = Settle(@, - penalty)]
<1>1. /\ winner \in DOMAIN user_by_id /\ loser \in DOMAIN user_by_id
      /\ winner # loser /\ {winner, loser} = {ch.user1, ch.user2}
  OBVIOUS
<1>2. \A id \in DOMAIN user_by_id : user_by_id[id] \in UserInfos
  BY DEF TypeOK, ServerTypeOK, IsTree
<1>3. \A user \in UserInfos : \A points :
        user.state = "UBATTLING" => Settle(user, points).state = "UONLINE"
  BY DEF Settle, UserInfos
<1>4. EndBattle(user_by_id, ch, winner, bonus, penalty) = ended
  BY DEF EndBattle
<1> HIDE DEF loser
<1>5. /\ DOMAIN won = DOMAIN user_by_id
      /\ won[winner] = Settle(user_by_id[winner], bonus)
      /\ \A id \in DOMAIN user_by_id \ {winner} : won[id] = user_by_id[id]
  BY <1>1
<1> HIDE DEF won
<1>6. /\ DOMAIN ended = DOMAIN user_by_id
      /\ ended[loser] = Settle(user_by_id[loser], - penalty)
      /\ ended[winner] = Settle(user_by_id[winner], bonus)
      /\ \A id \in DOMAIN user_by_id \ {winner, loser} : ended[id] = user_by_id[id]
  BY <1>1, <1>5
<1> HIDE DEF ended
<1>7. ended[loser].state = "UONLINE" /\ ended[winner].state = "UONLINE"
  BY <1>1, <1>2, <1>3, <1>6
<1> QED
  BY <1>1, <1>4, <1>6, <1>7

(* The challenge after a turn: at rest, unless somebody has won. *)
LEMMA AfterTurnRests ==
  ASSUME NEW ch \in ChallengeRecs, ch.user1 # ch.user2, NEW damage \in Nat
  PROVE  LET after == AfterTurn(ch, damage) IN
         /\ after.act1 = NoAct /\ after.act2 = NoAct /\ after.state = ch.state
         /\ ch.state = "STARTED" /\ Winner(after, NoId) = NoId => AtRest(after)
<1> DEFINE after == AfterTurn(ch, damage)
<1>1. /\ after \in ChallengeRecs
      /\ after.user1 = ch.user1 /\ after.user2 = ch.user2
  BY AfterTurnType
<1>2. after.act1 = NoAct /\ after.act2 = NoAct /\ after.state = ch.state
  BY DEF AfterTurn, ChallengeRecs
<1> HIDE DEF after
<1>3. after.user1 # NoId /\ after.user2 # NoId
  BY <1>1, IdFacts DEF ChallengeRecs
<1>4. after.hp1 \in Int /\ after.hp2 \in Int
  BY <1>1 DEF ChallengeRecs
<1>5. Winner(after, NoId) = NoId => after.hp1 > 0 /\ after.hp2 > 0
  BY <1>3, <1>4 DEF Winner
<1>6. ch.state = "STARTED" /\ Winner(after, NoId) = NoId => AtRest(after)
  BY <1>1, <1>2, <1>5 DEF AtRest, Acted
<1> QED
  BY <1>2, <1>6 DEF after
----------------------------------------------------------------------------
(* judge_turn on a battle: it finds both players; either nobody has won    *)
(* and the battle is at rest again, or it is gone and its players free.    *)
JudgedFair(left) ==
  /\ Paired(left.users, left.chs)
  /\ Rest(left.chs, drawn)
  /\ Moves(ch_by_id, drawn, left.chs, drawn)
  /\ DownsOK(left.down, left.chs, drawn)
  /\ ScoresAt(left.users, left.chs)
  /\ left.server = server

LEMMA DamageNat == \A damage \in Damages \cup {0} : damage \in Nat
  BY RuleAssumption

LEMMA JudgeFair ==
  ASSUME TypeOK, Words, Arena, NEW c \in DOMAIN ch_by_id, ch_by_id[c].state = "STARTED",
         NEW ch \in ChallengeRecs, ch.user1 = ch_by_id[c].user1,
         ch.user2 = ch_by_id[c].user2, ch.state = "STARTED",
         NEW force_lose_id \in {NoId, ch.user1, ch.user2},
         NEW damage \in Damages \cup {0},
         NEW bonus \in Bonuses, NEW penalty \in Penalties
  PROVE  LET left == judge_turn(c, ch, force_lose_id, damage, bonus, penalty) IN
         /\ JudgedFair(left)
         /\ force_lose_id # NoId => left.users[force_lose_id].state # "UBATTLING"
<1> DEFINE left == judge_turn(c, ch, force_lose_id, damage, bonus, penalty)
           after == AfterTurn(ch, damage)
           winner == Winner(after, force_lose_id)
           r == TurnR(ch, after, winner)
           sent1 == Send(down, user_by_id[ch.user1].fd, r)
           sent == Send(sent1, user_by_id[ch.user2].fd, r)
           users == EndBattle(user_by_id, after, winner, bonus, penalty)
<1>0. damage \in Nat
  BY DamageNat
<1>1. /\ {ch.user1, ch.user2} \subseteq DOMAIN user_by_id
      /\ \A id \in {ch.user1, ch.user2} : /\ user_by_id[id].state = "UBATTLING"
                                          /\ user_by_id[id].chid = c
  BY DEF Arena, Paired
<1>2. ch.user1 # ch.user2 /\ c \in drawn
  BY DEF Arena, Rest, AtRest
<1>3. /\ after \in ChallengeRecs
      /\ after.user1 = ch.user1 /\ after.user2 = ch.user2 /\ after.state = "STARTED"
      /\ Winner(after, NoId) = NoId => AtRest(after)
  <2>1. /\ after \in ChallengeRecs
        /\ after.user1 = ch.user1 /\ after.user2 = ch.user2
    BY <1>0, AfterTurnType
  <2>2. /\ after.state = ch.state
        /\ ch.state = "STARTED" /\ Winner(after, NoId) = NoId => AtRest(after)
    BY <1>0, <1>2, AfterTurnRests
  <2> HIDE DEF after
  <2> QED
    BY <2>1, <2>2
<1>4. /\ winner \in {ch.user1, ch.user2, NoId} /\ winner \in AnyId
      /\ force_lose_id # NoId => winner # NoId
  <2> HIDE DEF after
  <2>1. after.user1 # NoId /\ after.user2 # NoId
    BY <1>3, IdFacts DEF ChallengeRecs
  <2>2. winner \in {ch.user1, ch.user2, NoId}
    BY <1>3, WinnerType
  <2>3. force_lose_id # NoId => winner # NoId
    BY <1>3, <2>1 DEF Winner
  <2> QED
    BY <1>3, <2>2, <2>3 DEF ChallengeRecs, AnyId
<1>5. r \in DownMsgs /\ r.kind = "TURN_R"
  <2>1. r.kind = "TURN_R"
    BY DEF TurnR
  <2> HIDE DEF after, winner
  <2> QED
    BY <1>3, <1>4, <2>1, TurnRType
<1>6. user_by_id[ch.user1].fd \in Fds /\ user_by_id[ch.user2].fd \in Fds
  BY <1>1, FdOfUser
<1>7. ASSUME NEW chs, Moves(ch_by_id, drawn, chs, drawn)
      PROVE  DownsOK(sent, chs, drawn) /\ sent \in [Fds -> Seq(DownMsgs)]
  <2> HIDE DEF r
  <2>1. DownsOK(down, chs, drawn)
    BY <1>7, MovesDowns DEF Words
  <2>2. \A fd : DownOK(chs, drawn, fd, r)
    BY <1>5, PlainDown
  <2>3. DownsOK(sent1, chs, drawn) /\ sent1 \in [Fds -> Seq(DownMsgs)]
    BY <1>5, <1>6, <2>1, <2>2, SendDown, SendType DEF TypeOK, ChannelsTypeOK
  <2> HIDE DEF sent1
  <2> QED
    BY <1>5, <1>6, <2>2, <2>3, SendDown, SendType
<1>8. CASE winner = NoId
  <2>1. /\ left.users = user_by_id /\ left.chs = Put(ch_by_id, c, after)
        /\ left.down = sent /\ left.server = server
    BY <1>1, <1>8 DEF judge_turn
  <2>2. force_lose_id = NoId /\ AtRest(after)
    BY <1>3, <1>4, <1>8
  <2> HIDE DEF left, after, sent
  <2>3. Paired(left.users, left.chs)
    BY <1>3, <2>1, PairedTurn DEF Arena
  <2>4. Rest(left.chs, drawn)
    BY <1>2, <2>1, <2>2, RestPut DEF Arena
  <2>5. Moves(ch_by_id, drawn, left.chs, drawn)
    BY <1>3, <2>1, MovesUpdate
  <2>6. DownsOK(left.down, left.chs, drawn)
    BY <1>7, <2>1, <2>5
  <2>7. ScoresAt(left.users, left.chs)
    BY <2>1 DEF ScoresAt
  <2>8. JudgedFair(left)
    BY <2>1, <2>3, <2>4, <2>5, <2>6, <2>7 DEF JudgedFair
  <2> QED
    BY <2>2, <2>8 DEF left
<1>9. CASE winner # NoId
  <2>1. /\ left.users = users /\ left.chs = tdelete(ch_by_id, c)
        /\ left.down = broadcast_user_changes(sent, users, {ch.user1, ch.user2})
        /\ left.server = server
    BY <1>1, <1>9 DEF judge_turn
  <2>2. /\ DOMAIN users = DOMAIN user_by_id
        /\ \A id \in {ch.user1, ch.user2} : users[id].state = "UONLINE"
        /\ \A id \in DOMAIN user_by_id \ {ch.user1, ch.user2} :
             users[id] = user_by_id[id]
    <3>1. winner = after.user1 \/ winner = after.user2
      BY <1>3, <1>4, <1>9
    <3> HIDE DEF after, winner
    <3> QED
      BY <1>1, <1>2, <1>3, <3>1, EndBattleFree
  <2> HIDE DEF left, users, sent
  <2>3. Paired(left.users, left.chs)
    BY <2>1, <2>2, PairedEnds DEF Arena
  <2>4. Rest(left.chs, drawn)
    BY <2>1, RestDelete DEF Arena
  <2>5. Moves(ch_by_id, drawn, left.chs, drawn)
    BY <2>1, MovesDelete
  <2>6. DownsOK(left.down, left.chs, drawn)
    BY <1>7, <2>1, <2>5, BroadcastDown
  <2>7. ScoresAt(left.users, left.chs)
    <3>1. c \notin DOMAIN left.chs
      BY <2>1 DEF tdelete
    <3> QED
      BY <1>1, <2>1, <2>2, <3>1 DEF ScoresAt
  <2>8. JudgedFair(left)
    BY <2>1, <2>3, <2>4, <2>5, <2>6, <2>7 DEF JudgedFair
  <2>9. force_lose_id # NoId => left.users[force_lose_id].state # "UBATTLING"
    BY <2>1, <2>2
  <2> QED
    BY <2>8, <2>9 DEF left
<1> QED
  BY <1>8, <1>9

(* A handler leaves the battles fair. *)
HandledFair ==
  /\ Paired(user_by_id', ch_by_id')
  /\ Rest(ch_by_id', drawn')
  /\ Moves(ch_by_id, drawn, ch_by_id', drawn')
  /\ DownsOK(down', ch_by_id', drawn')
  /\ ScoresAt(user_by_id', ch_by_id')
  /\ NoCrash'

LEMMA QuitUserFair ==
  ASSUME LoginInv, BattleInv, NEW u \in DOMAIN user_by_id, quit_user(u)
  PROVE  HandledFair
<1> DEFINE user == user_by_id[u]
           Left(bonus, penalty) ==
             IF Fights(u)
               THEN judge_turn(user.chid, ch_by_id[user.chid], u, 0, bonus, penalty)
               ELSE [users |-> user_by_id, chs |-> ch_by_id, down |-> down,
                     server |-> server]
<1>0. TypeOK /\ IndexesAgree /\ Words /\ Arena
  BY DEF LoginInv, BattleInv
<1>1. PICK bonus \in Bonuses, penalty \in Penalties :
        LET left == Left(bonus, penalty)
            users == [left.users EXCEPT ![u].state = "UOFFLINE"]
        IN  /\ ch_by_id' = left.chs
            /\ down' = broadcast_user_changes(left.down, users, {u})
            /\ user_by_id' = tdelete(users, u)
            /\ server' = IF user.nick \in DOMAIN user_by_nick
                           THEN left.server ELSE "crashed"
            /\ UNCHANGED drawn
  BY DEF quit_user
<1> DEFINE left == Left(bonus, penalty)
           users == [left.users EXCEPT ![u].state = "UOFFLINE"]
<1>2. JudgedOK(left) /\ JudgedFair(left) /\ left.users[u].state # "UBATTLING"
  <2>1. CASE Fights(u)
    <3> DEFINE c == user.chid
    <3>1. /\ c \in DOMAIN ch_by_id /\ ch_by_id[c].state = "STARTED"
          /\ u \in {ch_by_id[c].user1, ch_by_id[c].user2}
      BY <1>0, <2>1 DEF Fights, Arena, Paired
    <3>2. c \in ChIds /\ ch_by_id[c] \in ChallengeRecs
      BY <1>0, <3>1 DEF TypeOK, ServerTypeOK, IsTree
    <3>3. u # NoId
      BY <1>0, IdFacts DEF TypeOK, ServerTypeOK, IsTree
    <3>4. left = judge_turn(c, ch_by_id[c], u, 0, bonus, penalty)
      BY <2>1
    <3> HIDE DEF left, c
    <3> QED
      BY <1>0, <3>1, <3>2, <3>3, <3>4, JudgeFair, JudgeType
  <2>2. CASE ~ Fights(u)
    <3>1. left.users = user_by_id /\ left.down = down /\ left.chs = ch_by_id
          /\ left.server = server
      BY <2>2
    <3>2. user_by_id[u].state # "UBATTLING"
      BY <1>0, <2>2 DEF Fights, Arena, Paired
    <3> HIDE DEF left
    <3>3. JudgedOK(left)
      BY <1>0, <3>1 DEF JudgedOK, TypeOK, ServerTypeOK, ChannelsTypeOK
    <3>4. JudgedFair(left)
      BY <1>0, <3>1, MovesSame DEF JudgedFair, Arena, Words, ScoresAt
    <3> QED
      BY <3>1, <3>2, <3>3, <3>4
  <2> QED
    BY <2>1, <2>2
<1>3. /\ ch_by_id' = left.chs /\ drawn' = drawn
      /\ down' = broadcast_user_changes(left.down, users, {u})
      /\ user_by_id' = tdelete(users, u)
      /\ server' = left.server
  BY <1>0, <1>1 DEF IndexesAgree
<1> HIDE DEF left
<1>4. user_by_id' = tdelete(left.users, u)
  BY <1>3 DEF tdelete
<1> HIDE DEF users
<1>5. Paired(user_by_id', ch_by_id')
  BY <1>2, <1>3, <1>4, PairedLeave DEF JudgedOK, JudgedFair
<1>6. DownsOK(down', ch_by_id', drawn')
  BY <1>2, <1>3, BroadcastDown DEF JudgedOK, JudgedFair
<1>7. ScoresAt(user_by_id', ch_by_id')
  BY <1>2, <1>3, <1>4 DEF JudgedFair, ScoresAt, tdelete
<1>8. NoCrash'
  BY <1>0, <1>2, <1>3 DEF JudgedFair, Arena, NoCrash
<1> QED
  BY <1>2, <1>3, <1>5, <1>6, <1>7, <1>8 DEF HandledFair, JudgedFair
----------------------------------------------------------------------------
(* The handlers, one by one.  Those that leave users and challenges alone. *)
LEMMA SameFair ==
  ASSUME BattleInv, UNCHANGED <<user_by_id, ch_by_id, drawn>>,
         DownsOK(down', ch_by_id, drawn), NoCrash'
  PROVE  HandledFair
  BY MovesSame DEF HandledFair, BattleInv, Arena, ScoresAt

LEMMA SilentFair ==
  ASSUME BattleInv, NEW fd \in Fds,
         \/ HandleChallengeIgnored(fd) \/ HandleStartNoId(fd)
         \/ HandleDisconnectUnknown(fd) \/ HandleTurnIgnored(fd)
  PROVE  HandledFair
<1>1. /\ UNCHANGED <<user_by_id, ch_by_id, drawn, down>>
      /\ server' = server \/ server' = "exhausted"
  BY DEF HandleChallengeIgnored, HandleStartNoId, HandleDisconnectUnknown,
         HandleTurnIgnored, serverVars, trees
<1>2. NoCrash'
  BY <1>1 DEF BattleInv, Arena, NoCrash
<1>3. DownsOK(down', ch_by_id, drawn)
  BY <1>1 DEF BattleInv, Words
<1> QED
  BY <1>1, <1>2, <1>3, SameFair

LEMMA SendFair ==
  ASSUME TypeOK, BattleInv, NEW to \in Fds, NEW m, down' = Send(down, to, m),
         DownOK(ch_by_id, drawn, to, m), UNCHANGED serverVars
  PROVE  HandledFair
<1>1. DownsOK(down', ch_by_id, drawn)
  BY SendDown DEF TypeOK, ChannelsTypeOK, BattleInv, Words
<1>2. UNCHANGED <<user_by_id, ch_by_id, drawn, server>>
  BY DEF serverVars, trees
<1>3. NoCrash'
  BY <1>2 DEF BattleInv, Arena, NoCrash
<1> QED
  BY <1>1, <1>2, <1>3, SameFair

LEMMA JoinRefusedFair ==
  ASSUME TypeOK, BattleInv, NEW fd \in Fds, HandleJoinRefused(fd)
  PROVE  HandledFair
<1>1. PICK err : err # "ME_OK" /\ down' = Send(down, fd, JoinR(err, NoId, 0))
  BY DEF HandleJoinRefused
<1>2. DownOK(ch_by_id, drawn, fd, JoinR(err, NoId, 0))
  BY <1>1 DEF DownOK, JoinR
<1>3. UNCHANGED serverVars
  BY DEF HandleJoinRefused
<1> QED
  BY <1>1, <1>2, <1>3, SendFair

LEMMA ChallengeErrorFair ==
  ASSUME TypeOK, BattleInv, NEW fd \in Fds, HandleChallengeError(fd)
  PROVE  HandledFair
<1> DEFINE m == Head(up[fd])
           r == ChallengeR(ChallengeError(m), m, FALSE)
<1>1. /\ down' = Send(down, fd, r) /\ ChallengeError(m) # "ME_OK"
      /\ UNCHANGED serverVars
  BY DEF HandleChallengeError
<1>2. DownOK(ch_by_id, drawn, fd, r)
  BY <1>1 DEF DownOK, ChallengeR
<1> HIDE DEF r
<1> QED
  BY <1>1, <1>2, SendFair

LEMMA SendmsgFair ==
  ASSUME TypeOK, BattleInv, NEW fd \in Fds, HandleSendmsg(fd)
  PROVE  HandledFair
<1> DEFINE m == [Head(up[fd]) EXCEPT !.key = 0]
<1>1. m.kind = "SENDMSG"
  <2>1. Head(up[fd]) \in SendMsgs
    BY TakesType, UpKinds DEF HandleSendmsg, TypeOK
  <2> QED
    BY <2>1 DEF SendMsgs
<1>2. /\ down' = SendAll(down, FdsOf(user_by_id), m) \/ down' = down
      /\ UNCHANGED <<user_by_id, ch_by_id, drawn, server>>
  BY DEF HandleSendmsg, serverVars, trees
<1> HIDE DEF m
<1>3. \A f \in Fds : DownOK(ch_by_id, drawn, f, m)
  BY <1>1, PlainDown
<1>4. DownsOK(SendAll(down, FdsOf(user_by_id), m), ch_by_id, drawn)
  BY <1>3, SendAllDown DEF TypeOK, ChannelsTypeOK, BattleInv, Words
<1>5. DownsOK(down', ch_by_id, drawn)
  BY <1>2, <1>4 DEF BattleInv, Words
<1>6. NoCrash'
  BY <1>2 DEF BattleInv, Arena, NoCrash
<1> QED
  BY <1>2, <1>5, <1>6, SameFair

LEMMA ConcatDown ==
  ASSUME NEW S, NEW q \in Seq(S), NEW r \in Seq(S), NEW chs, NEW dr, NEW fd,
         \A i \in DOMAIN q : DownOK(chs, dr, fd, q[i]),
         \A i \in DOMAIN r : DownOK(chs, dr, fd, r[i])
  PROVE  \A i \in DOMAIN (q \o r) : DownOK(chs, dr, fd, (q \o r)[i])
<1> DEFINE a == q \o r
<1>1. \A i \in DOMAIN a : \/ i \in DOMAIN q /\ a[i] = q[i]
                          \/ i - Len(q) \in DOMAIN r /\ a[i] = r[i - Len(q)]
  OBVIOUS
<1> HIDE DEF a
<1> SUFFICES \A i \in DOMAIN a : DownOK(chs, dr, fd, a[i])
  BY DEF a
<1> QED
  BY <1>1

LEMMA JoinOkFair ==
  ASSUME LoginInv, BattleInv, NEW fd \in Fds, HandleJoinOk(fd)
  PROVE  HandledFair
<1> DEFINE nick == Head(up[fd]).nick
           id == IdOf(fd)
           users == Put(user_by_id, id, user_create(fd, nick))
           joined == JoinR("ME_OK", id, fd)
           first == Append(down[fd], joined)
           told == [down EXCEPT ![fd] =
                      (@ \o <<joined>>) \o AllUsers(users)]
           news == Uchange({Info(id, users[id])})
<1>1. TypeOK /\ IndexesAgree /\ OwnIds /\ Takes(fd, "JOIN")
  BY DEF LoginInv, HandleJoinOk
<1>2. /\ down' = SendAll(told, FdsOf(users) \ {fd}, news)
      /\ user_by_id' = users
      /\ UNCHANGED <<ch_by_id, drawn>>
  BY DEF HandleJoinOk
<1>3. server' = server /\ id = fd
  BY JoinOkIndexes, IdFacts
<1>4. id \notin DOMAIN user_by_id
  <2>1. JoinOnceAt(up[fd], down[fd], session[fd].phase, fd \in DOMAIN user_by_fd)
    BY JoinOnceIsAt DEF LoginInv
  <2>2. fd \notin DOMAIN user_by_fd
    BY <1>1, <2>1, UpAfterTakes DEF JoinOnceAt
  <2> HIDE DEF id
  <2> QED
    BY <1>1, <1>3, <2>2 DEF OwnIds, IndexesAgree
<1>5. IsTree(users, Ids, UserInfos)
  <2>1. nick \in Nicks /\ id \in Ids
    BY <1>1, TakesType, UpKinds DEF TypeOK, Ids
  <2> QED
    BY <1>1, <2>1, NewUserType, PutTree DEF TypeOK, ServerTypeOK
<1>6. /\ user_create(fd, nick).state # "UBATTLING"
      /\ joined \in DownMsgs /\ news.kind = "UCHANGE"
      /\ DownOK(ch_by_id, drawn, fd, joined)
  BY <1>3 DEF user_create, JoinR, DownMsgs, Ids, AnyId, AnyKey, Uchange, DownOK
<1>7. /\ AllUsers(users) \in Seq(DownMsgs)
      /\ \A i \in DOMAIN AllUsers(users) :
           DownOK(ch_by_id, drawn, fd, AllUsers(users)[i])
  <2>1. AllUsers(users) \in Seq(DownMsgs)
    BY <1>5, AllUsersType
  <2>2. \A i \in DOMAIN AllUsers(users) : AllUsers(users)[i].kind = "UCHANGE"
    BY DEF AllUsers, Uchange
  <2> HIDE DEF users
  <2> QED
    BY <2>1, <2>2, PlainDown
<1>8. Paired(user_by_id', ch_by_id')
  <2> HIDE DEF id, nick
  <2> QED
    BY <1>2, <1>4, <1>6, PairedJoin DEF BattleInv, Arena
<1>9. ScoresAt(user_by_id', ch_by_id')
  <2> HIDE DEF id
  <2> QED
    BY <1>2, <1>4 DEF ScoresAt, Put
<1>10. down \in [Fds -> Seq(DownMsgs)] /\ down[fd] \in Seq(DownMsgs)
  BY <1>1 DEF TypeOK, ChannelsTypeOK
<1> HIDE DEF users, joined, news
<1>11. /\ first \in Seq(DownMsgs)
       /\ \A i \in DOMAIN first : DownOK(ch_by_id, drawn, fd, first[i])
  BY <1>6, <1>10, AppendDown DEF BattleInv, Words, DownsOK
<1>12. told = [down EXCEPT ![fd] = first \o AllUsers(users)]
  <2>1. first = down[fd] \o <<joined>>
    BY <1>6, <1>10
  <2> HIDE DEF first
  <2> QED
    BY <1>10, <2>1
<1> HIDE DEF first, told
<1>13. /\ told \in [Fds -> Seq(DownMsgs)]
       /\ DownsOK(told, ch_by_id, drawn)
  <2>1. /\ first \o AllUsers(users) \in Seq(DownMsgs)
        /\ \A i \in DOMAIN (first \o AllUsers(users)) :
             DownOK(ch_by_id, drawn, fd, (first \o AllUsers(users))[i])
    BY <1>7, <1>11, ConcatDown
  <2>2. /\ told[fd] = first \o AllUsers(users)
        /\ \A f \in Fds \ {fd} : told[f] = down[f]
    BY <1>10, <1>12
  <2>3. told \in [Fds -> Seq(DownMsgs)]
    BY <1>10, <1>12, <2>1
  <2> QED
    BY <2>1, <2>2, <2>3 DEF DownsOK, BattleInv, Words
<1>14. DownsOK(down', ch_by_id', drawn')
  <2>1. \A f \in Fds : DownOK(ch_by_id, drawn, f, news)
    BY <1>6, PlainDown
  <2> QED
    BY <1>2, <1>13, <2>1, SendAllDown
<1>15. NoCrash'
  BY <1>3 DEF NoCrash, BattleInv, Arena
<1> QED
  BY <1>2, <1>8, <1>9, <1>14, <1>15, MovesSame DEF HandledFair, BattleInv, Arena
----------------------------------------------------------------------------
(* handle_challenge. *)
LEMMA SetChidFair ==
  ASSUME TypeOK, NEW chs, Paired(user_by_id, chs), NEW id \in DOMAIN user_by_id,
         user_by_id[id].state = "UONLINE", NEW c
  PROVE  /\ Paired([user_by_id EXCEPT ![id].chid = c], chs)
         /\ \A chs2 : ScoresAt([user_by_id EXCEPT ![id].chid = c], chs2)
<1> DEFINE user == [user_by_id[id] EXCEPT !.chid = c]
<1>1. user_by_id[id] \in UserInfos
  BY DEF TypeOK, ServerTypeOK, IsTree
<1>2. user.state = "UONLINE" /\ user.score = user_by_id[id].score
  BY <1>1 DEF UserInfos
<1>3. [user_by_id EXCEPT ![id].chid = c] = [user_by_id EXCEPT ![id] = user]
  OBVIOUS
<1> HIDE DEF user
<1>4. Paired([user_by_id EXCEPT ![id] = user], chs)
  BY <1>2, PairedIdle
<1>5. \A chs2 : ScoresAt([user_by_id EXCEPT ![id] = user], chs2)
  BY <1>2 DEF ScoresAt
<1> QED
  BY <1>3, <1>4, <1>5

LEMMA StartFair ==
  ASSUME FreshIds, LoginInv, BattleInv, NEW fd \in Fds, HandleStart(fd)
  PROVE  HandledFair
<1> DEFINE m == Head(up[fd])
<1>0. TypeOK /\ OwnIds /\ Words /\ Arena
  BY DEF LoginInv, BattleInv
<1>1. /\ m \in Challenges
      /\ m.id1 \in DOMAIN user_by_id /\ m.id2 \in DOMAIN user_by_id
      /\ Valid(m, "C_START")
  BY <1>0, ChallengeFacts DEF HandleStart, Valid
<1>2. PICK c \in FreeChIds :
        /\ ch_by_id' = Put(ch_by_id, c, add_challenge(m))
        /\ drawn' = drawn \cup {c}
        /\ user_by_id' = [user_by_id EXCEPT ![m.id1].chid = c]
        /\ down' = Send(down, user_by_id[m.id2].fd, [m EXCEPT !.chid = c])
  BY DEF HandleStart
<1>3. server' = server
  BY DEF HandleStart
<1> HIDE DEF m
<1>4. /\ user_by_id[m.id1].state = "UONLINE" /\ m.id1 # m.id2
  BY <1>1 DEF Valid, ChallengeError, BothOnline
<1>5. c \notin drawn /\ c \notin DOMAIN ch_by_id /\ c # NoId
  <2>1. c \in ChIds /\ c \notin DOMAIN ch_by_id /\ c \notin drawn
    BY DEF FreeChIds
  <2>2. UINT16_MAX \in Nat
    BY UintAssumption
  <2> QED
    BY <2>1, <2>2, ChIdsAssumption DEF NoId
<1>6. AtRest(add_challenge(m)) /\ add_challenge(m).state = "ASKING"
  <2>1. MAXHP > 0
    BY RuleAssumption
  <2> QED
    BY <1>4, <2>1 DEF AtRest, add_challenge, Acted
<1>7. Moves(ch_by_id, drawn, ch_by_id', drawn')
  BY <1>2, <1>5, MovesFresh
<1>8. Rest(ch_by_id', drawn')
  BY <1>0, <1>2, <1>6, RestPut DEF Arena
<1>9. Paired(user_by_id', ch_by_id') /\ ScoresAt(user_by_id', ch_by_id')
  <2>1. Paired(user_by_id, ch_by_id')
    BY <1>0, <1>2, <1>5, <1>6, PairedOpens DEF Arena
  <2> QED
    BY <1>0, <1>1, <1>2, <1>4, <2>1, SetChidFair
<1>10. DownsOK(down', ch_by_id', drawn')
  <2> DEFINE invitation == [m EXCEPT !.chid = c]
             to == user_by_id[m.id2].fd
  <2>1. /\ invitation.kind = "CHALLENGE" /\ invitation.chid = c
        /\ invitation.id1 = m.id1 /\ invitation.id2 = m.id2
    BY <1>1 DEF Challenges
  <2>2. to \in Fds /\ to = m.id2
    BY <1>0, <1>1, FdOfUser DEF OwnIds
  <2>3. /\ ch_by_id'[c].user1 = m.id1 /\ ch_by_id'[c].user2 = m.id2
        /\ c \in DOMAIN ch_by_id' /\ c \in drawn'
    BY <1>2 DEF Put, add_challenge
  <2> HIDE DEF invitation, to
  <2>4. DownOK(ch_by_id', drawn', to, invitation)
    BY <2>1, <2>2, <2>3 DEF DownOK, Names
  <2>5. DownsOK(down, ch_by_id', drawn')
    BY <1>0, <1>7, MovesDowns DEF Words
  <2>6. down' = Send(down, to, invitation)
    BY <1>2 DEF to, invitation
  <2> QED
    BY <1>0, <2>2, <2>4, <2>5, <2>6, SendDown DEF TypeOK, ChannelsTypeOK
<1>11. NoCrash'
  BY <1>0, <1>3 DEF Arena, NoCrash
<1> QED
  BY <1>7, <1>8, <1>9, <1>10, <1>11 DEF HandledFair

LEMMA CancelFair ==
  ASSUME LoginInv, BattleInv, NEW fd \in Fds, HandleCancel(fd)
  PROVE  HandledFair
<1> DEFINE m == Head(up[fd])
           c == user_by_id[m.id1].chid
           user2 == ch_by_id[c].user2
           r == ChallengeR("CANCELLED", m, FALSE)
<1>0. TypeOK /\ Words /\ Arena
  BY DEF LoginInv, BattleInv
<1>1. m.id1 \in DOMAIN user_by_id
  BY <1>0, ChallengeFacts DEF HandleCancel, Valid
<1>2. /\ user_by_id' = [user_by_id EXCEPT ![m.id1].chid = NoId]
      /\ ch_by_id' = tdelete(ch_by_id, c)
      /\ down' = IF user2 \in DOMAIN user_by_id
                   THEN Send(down, user_by_id[user2].fd, r) ELSE down
      /\ drawn' = drawn /\ server' = server
  BY DEF HandleCancel
<1>3. /\ user_by_id[m.id1].state = "UONLINE"
      /\ c \in DOMAIN ch_by_id /\ ch_by_id[c].state = "ASKING"
  BY DEF HandleCancel, Cancels
<1>4. r.kind = "CHALLENGE_R" /\ r.error # "ME_OK"
  BY DEF ChallengeR
<1> HIDE DEF m, c, user2, r
<1>5. Moves(ch_by_id, drawn, ch_by_id', drawn') /\ Rest(ch_by_id', drawn')
  BY <1>0, <1>2, MovesDelete, RestDelete DEF Arena
<1>6. Paired(user_by_id', ch_by_id') /\ ScoresAt(user_by_id', ch_by_id')
  <2>1. Paired(user_by_id, ch_by_id')
    BY <1>0, <1>2, <1>3, PairedWithdraws DEF Arena
  <2> QED
    BY <1>0, <1>1, <1>2, <1>3, <2>1, SetChidFair
<1>7. DownsOK(down', ch_by_id', drawn')
  <2>1. DownsOK(down, ch_by_id', drawn')
    BY <1>0, <1>5, MovesDowns DEF Words
  <2>2. \A to : DownOK(ch_by_id', drawn', to, r)
    BY <1>4 DEF DownOK
  <2>3. CASE user2 \in DOMAIN user_by_id
    BY <1>0, <1>2, <2>1, <2>2, <2>3, FdOfUser, SendDown DEF TypeOK, ChannelsTypeOK
  <2>4. CASE user2 \notin DOMAIN user_by_id
    BY <1>2, <2>1, <2>4
  <2> QED
    BY <2>3, <2>4
<1>8. NoCrash'
  BY <1>0, <1>2 DEF Arena, NoCrash
<1> QED
  BY <1>5, <1>6, <1>7, <1>8 DEF HandledFair

LEMMA RejectFair ==
  ASSUME LoginInv, BattleInv, NEW fd \in Fds, HandleReject(fd)
  PROVE  HandledFair
<1> DEFINE m == Head(up[fd])
           r == ChallengeR("REJECTED", m, FALSE)
<1>0. TypeOK /\ Words /\ Arena
  BY DEF LoginInv, BattleInv
<1>1. m.id1 \in DOMAIN user_by_id /\ m.chid \in DOMAIN ch_by_id
  BY <1>0, ChallengeFacts DEF HandleReject, Rejects, Valid
<1>2. /\ ch_by_id' = tdelete(ch_by_id, m.chid)
      /\ down' = Send(down, user_by_id[m.id1].fd, r)
      /\ UNCHANGED <<user_by_id, drawn, server>>
      /\ ch_by_id[m.chid].state = "ASKING"
  BY DEF HandleReject, Rejects, trees
<1>3. r.kind = "CHALLENGE_R" /\ r.error # "ME_OK"
  BY DEF ChallengeR
<1> HIDE DEF m, r
<1>4. Moves(ch_by_id, drawn, ch_by_id', drawn') /\ Rest(ch_by_id', drawn')
  BY <1>0, <1>2, MovesDelete, RestDelete DEF Arena
<1>5. Paired(user_by_id', ch_by_id') /\ ScoresAt(user_by_id', ch_by_id')
  BY <1>0, <1>1, <1>2, PairedWithdraws DEF Arena, ScoresAt
<1>6. DownsOK(down', ch_by_id', drawn')
  <2>1. DownsOK(down, ch_by_id', drawn')
    BY <1>0, <1>4, MovesDowns DEF Words
  <2>2. \A to : DownOK(ch_by_id', drawn', to, r)
    BY <1>3 DEF DownOK
  <2> QED
    BY <1>0, <1>1, <1>2, <2>1, <2>2, FdOfUser, SendDown DEF TypeOK, ChannelsTypeOK
<1>7. NoCrash'
  BY <1>0, <1>2 DEF Arena, NoCrash
<1> QED
  BY <1>4, <1>5, <1>6, <1>7 DEF HandledFair

LEMMA BattlingStates ==
  ASSUME NEW users, IsTree(users, Ids, UserInfos), NEW id1 \in DOMAIN users,
         NEW id2 \in DOMAIN users, NEW c
  PROVE  LET users2 == Battling(users, id1, id2, c) IN
         /\ DOMAIN users2 = DOMAIN users
         /\ \A id \in {id1, id2} : users2[id].state = "UBATTLING" /\ users2[id].chid = c
         /\ \A id \in DOMAIN users \ {id1, id2} : users2[id] = users[id]
         /\ \A id \in DOMAIN users : users2[id].score = users[id].score
<1> DEFINE B(u) == [u EXCEPT !.state = "UBATTLING", !.chid = c]
           one == [users EXCEPT ![id1] = B(@)]
           two == [one EXCEPT ![id2] = B(@)]
<1>1. \A u \in UserInfos : /\ B(u).state = "UBATTLING" /\ B(u).chid = c
                           /\ B(u).score = u.score /\ B(B(u)) = B(u)
  BY DEF UserInfos
<1>2. Battling(users, id1, id2, c) = two
  BY DEF Battling, IsTree, UserInfos
<1>3. \A id \in DOMAIN users : users[id] \in UserInfos
  BY DEF IsTree
<1> HIDE DEF B
<1>4. /\ DOMAIN two = DOMAIN users
      /\ two[id1] = B(users[id1]) /\ two[id2] = B(users[id2])
      /\ \A id \in DOMAIN users \ {id1, id2} : two[id] = users[id]
  <2>1. CASE id1 = id2
    BY <1>1, <1>3, <2>1
  <2>2. CASE id1 # id2
    BY <2>2
  <2> QED
    BY <2>1, <2>2
<1> HIDE DEF two
<1> QED
  BY <1>1, <1>2, <1>3, <1>4

(* C_ACCEPT: the users the message names are the challenge's, by what      *)
(* Words says of the message; both are free, so they are in no battle.     *)
LEMMA AcceptFair ==
  ASSUME LoginInv, BattleInv, NEW fd \in Fds, HandleAccept(fd)
  PROVE  HandledFair
<1> DEFINE m == Head(up[fd])
           c == m.chid
           ch == [ch_by_id[c] EXCEPT !.state = "STARTED", !.turn_no = 0]
           users == Battling(user_by_id, m.id1, m.id2, c)
           told == broadcast_user_changes(down, users, {m.id1, m.id2})
           ok1 == ChallengeR("ME_OK", m, TRUE)
           ok2 == ChallengeR("ME_OK", m, FALSE)
           replied1 == Send(told, users[m.id1].fd, ok1)
           replied == Send(replied1, users[m.id2].fd, ok2)
           after == AfterTurn(ch, 0)
           r == TurnR(ch, after, Winner(after, NoId))
           turned1 == Send(replied, users[ch.user1].fd, r)
           turned == Send(turned1, users[ch.user2].fd, r)
<1>0. TypeOK /\ OwnIds /\ Words /\ Arena
  BY DEF LoginInv, BattleInv
<1>1. /\ m \in Challenges /\ m.kind = "CHALLENGE" /\ Valid(m, "C_ACCEPT")
      /\ m.id1 \in DOMAIN user_by_id /\ m.id2 \in DOMAIN user_by_id
      /\ c \in ChIds /\ c \in DOMAIN ch_by_id /\ ch_by_id[c] \in ChallengeRecs
      /\ ch_by_id[c].state = "ASKING"
  BY <1>0, ChallengeFacts DEF HandleAccept, Valid, Takes
<1>2. /\ user_by_id' = users
      /\ ch_by_id' = Put(ch_by_id, c, after)
      /\ IF {ch.user1, ch.user2} \subseteq DOMAIN users
           THEN down' = turned /\ server' = server
           ELSE down' = replied /\ server' = "crashed"
      /\ drawn' = drawn
  BY DEF HandleAccept, Battling
<1>3. UpOK(ch_by_id, drawn, m)
  BY <1>0, HeadOK DEF HandleAccept
<1>4. /\ ok1.kind = "CHALLENGE_R" /\ ok2.kind = "CHALLENGE_R" /\ r.kind = "TURN_R"
      /\ ok1.chid = c /\ ok2.chid = c
  BY DEF ChallengeR, TurnR
<1> HIDE DEF m
<1>5. ok1 \in DownMsgs /\ ok2 \in DownMsgs
  BY <1>1, ChallengeRType
<1>6. /\ user_by_id[m.id1].state = "UONLINE" /\ user_by_id[m.id2].state = "UONLINE"
  BY <1>1 DEF Valid, ChallengeError, BothOnline
<1>7. /\ ch \in ChallengeRecs /\ ch.state = "STARTED" /\ ch.turn_no = 0
      /\ ch.user1 = ch_by_id[c].user1 /\ ch.user2 = ch_by_id[c].user2
      /\ ch.hp1 = ch_by_id[c].hp1 /\ ch.hp2 = ch_by_id[c].hp2
  BY <1>1 DEF ChallengeRecs
<1>8. ch.user1 = m.id1 /\ ch.user2 = m.id2 /\ c \in drawn
  BY <1>1, <1>3, <1>7 DEF UpOK, Names, Valid
<1>9. ch.user1 # ch.user2 /\ ch.hp1 > 0 /\ ch.hp2 > 0
  BY <1>0, <1>1, <1>7 DEF Arena, Rest, AtRest
<1> HIDE DEF c, ch, ok1, ok2
<1>10. /\ after \in ChallengeRecs /\ after.user1 = ch.user1 /\ after.user2 = ch.user2
  BY <1>7, AfterTurnType
<1>11. /\ after.act1 = NoAct /\ after.act2 = NoAct /\ after.state = "STARTED"
       /\ after.hp1 = ch.hp1 /\ after.hp2 = ch.hp2
  BY <1>7 DEF AfterTurn, ChallengeRecs
<1> HIDE DEF after
<1>12. AtRest(after)
  BY <1>9, <1>10, <1>11 DEF AtRest, Acted
<1>13. r \in DownMsgs
  <2>1. Winner(after, NoId) \in AnyId
    BY <1>10, WinnerType DEF ChallengeRecs, AnyId
  <2> QED
    BY <1>7, <1>10, <2>1, TurnRType
<1> HIDE DEF r
<1>14. /\ IsTree(users, Ids, UserInfos) /\ DOMAIN users = DOMAIN user_by_id
       /\ \A id \in {m.id1, m.id2} : users[id].state = "UBATTLING" /\ users[id].chid = c
       /\ \A id \in DOMAIN user_by_id \ {m.id1, m.id2} : users[id] = user_by_id[id]
       /\ \A id \in DOMAIN user_by_id : users[id].score = user_by_id[id].score
  <2>1. IsTree(users, Ids, UserInfos)
    BY <1>0, <1>1, BattlingType DEF TypeOK, ServerTypeOK
  <2> QED
    BY <1>0, <1>1, <2>1, BattlingStates DEF TypeOK, ServerTypeOK
<1> HIDE DEF users
<1>15. \A id \in DOMAIN users : users[id].fd \in Fds
  BY <1>14 DEF IsTree, UserInfos
<1>16. down' = turned /\ server' = server
  BY <1>1, <1>2, <1>8, <1>14
<1>17. Moves(ch_by_id, drawn, ch_by_id', drawn') /\ Rest(ch_by_id', drawn')
  <2>1. Moves(ch_by_id, drawn, ch_by_id', drawn')
    BY <1>1, <1>2, <1>7, <1>10, <1>11, MovesUpdate
  <2>2. Rest(ch_by_id', drawn')
    BY <1>0, <1>2, <1>8, <1>12, RestPut DEF Arena
  <2> QED
    BY <2>1, <2>2
<1>18. Paired(user_by_id', ch_by_id')
  BY <1>0, <1>1, <1>2, <1>6, <1>8, <1>10, <1>11, <1>14, PairedStarts DEF Arena
<1>19. ScoresAt(user_by_id', ch_by_id')
  BY <1>2, <1>14 DEF ScoresAt
<1>20. DownsOK(down', ch_by_id', drawn')
  <2>1. /\ \A to : DownOK(ch_by_id', drawn', to, r)
        /\ \A to : DownOK(ch_by_id', drawn', to, ok1)
        /\ \A to : DownOK(ch_by_id', drawn', to, ok2)
    <3>1. c \in drawn' /\ ch_by_id'[c].state # "ASKING"
      BY <1>2, <1>8, <1>11 DEF Put
    <3> QED
      BY <1>4, <3>1 DEF DownOK
  <2>2. DownsOK(down, ch_by_id', drawn')
    BY <1>0, <1>17, MovesDowns DEF Words
  <2>3. told \in [Fds -> Seq(DownMsgs)] /\ DownsOK(told, ch_by_id', drawn')
    BY <1>0, <1>1, <1>14, <2>2, BroadcastType, BroadcastDown DEF TypeOK, ChannelsTypeOK
  <2> HIDE DEF told
  <2>4. replied1 \in [Fds -> Seq(DownMsgs)] /\ DownsOK(replied1, ch_by_id', drawn')
    BY <1>1, <1>5, <1>14, <1>15, <2>1, <2>3, SendType, SendDown
  <2> HIDE DEF replied1
  <2>5. replied \in [Fds -> Seq(DownMsgs)] /\ DownsOK(replied, ch_by_id', drawn')
    BY <1>1, <1>5, <1>14, <1>15, <2>1, <2>4, SendType, SendDown
  <2> HIDE DEF replied
  <2>6. users[ch.user1].fd \in Fds /\ users[ch.user2].fd \in Fds
    BY <1>1, <1>8, <1>14, <1>15
  <2>7. turned1 \in [Fds -> Seq(DownMsgs)] /\ DownsOK(turned1, ch_by_id', drawn')
    BY <1>13, <2>1, <2>5, <2>6, SendType, SendDown
  <2> HIDE DEF turned1
  <2> QED
    BY <1>16, <2>1, <2>6, <2>7, SendDown
<1>21. NoCrash'
  BY <1>0, <1>16 DEF Arena, NoCrash
<1> QED
  BY <1>17, <1>18, <1>19, <1>20, <1>21 DEF HandledFair
----------------------------------------------------------------------------
(* handle_turn.  While a challenge is open only the user who was asked can *)
(* have acted on it, so it is never judged.                                *)
LEMMA NotedFacts ==
  ASSUME TypeOK, BattleInv, NEW fd \in Fds, Takes(fd, "TURN"), TurnTaken(Head(up[fd]))
  PROVE  LET m == Head(up[fd])
             ch == NotedBy(m)
             old == ch_by_id[m.chid]
         IN  /\ m.chid \in DOMAIN ch_by_id /\ m.chid \in ChIds /\ ch \in ChallengeRecs
             /\ ch.user1 = old.user1 /\ ch.user2 = old.user2 /\ ch.state = old.state
             /\ ~ Acted(ch) => AtRest(ch)
             /\ Acted(ch) => ch.state = "STARTED"
<1> DEFINE m == Head(up[fd])
           ch == NotedBy(m)
           old == ch_by_id[m.chid]
<1>1. m \in UpMsgs /\ m.kind = "TURN" /\ m.action \in Acts
  BY TakesType, UpKinds DEF TypeOK
<1>2. UpOK(ch_by_id, drawn, m)
  BY HeadOK DEF BattleInv
<1>3. /\ m.chid \in DOMAIN ch_by_id /\ m.chid \in ChIds /\ old \in ChallengeRecs
      /\ ch \in ChallengeRecs
  BY TurnFacts DEF TurnTaken, TypeOK, ServerTypeOK, IsTree
<1>4. TurnTaken(m)
  OBVIOUS
<1> HIDE DEF m
<1>5. AtRest(old)
  BY <1>3 DEF BattleInv, Arena, Rest
<1>6. old.state = "ASKING" => old.user2 = m.user
  BY <1>1, <1>2, <1>3 DEF UpOK, NotAsker
<1>7. /\ ch.user1 = old.user1 /\ ch.user2 = old.user2 /\ ch.state = old.state
      /\ ch.hp1 = old.hp1 /\ ch.hp2 = old.hp2 /\ ch.turn_no = old.turn_no
      /\ m.user # old.user1 => ch.act1 = old.act1
  BY <1>3 DEF NotedBy, Noted, ChallengeRecs
<1>8. old.state = "ASKING" => ch.act1 = NoAct
  BY <1>5, <1>6, <1>7 DEF AtRest
<1>9. ch.state \in {"ASKING", "STARTED"}
  BY <1>3 DEF ChallengeRecs
<1> HIDE DEF ch, old
<1>10. ~ Acted(ch) => AtRest(ch)
  BY <1>5, <1>7, <1>8 DEF AtRest
<1>11. Acted(ch) => ch.state = "STARTED"
  BY <1>7, <1>8, <1>9 DEF Acted
<1> QED
  BY <1>3, <1>7, <1>10, <1>11 DEF m, ch, old

LEMMA TurnFirstFair ==
  ASSUME LoginInv, BattleInv, NEW fd \in Fds, HandleTurnFirst(fd)
  PROVE  HandledFair
<1> DEFINE m == Head(up[fd])
           c == m.chid
           ch == NotedBy(m)
<1>0. TypeOK /\ Words /\ Arena
  BY DEF LoginInv, BattleInv
<1>1. /\ Takes(fd, "TURN") /\ TurnTaken(m) /\ ~ Acted(ch)
      /\ ch_by_id' = Put(ch_by_id, c, ch)
      /\ UNCHANGED <<user_by_id, drawn, server, down>>
  BY DEF HandleTurnFirst, trees
<1>2. /\ c \in DOMAIN ch_by_id /\ AtRest(ch)
      /\ ch.user1 = ch_by_id[c].user1 /\ ch.user2 = ch_by_id[c].user2
      /\ ch.state = ch_by_id[c].state
  BY <1>0, <1>1, NotedFacts
<1> HIDE DEF c, ch
<1>3. Moves(ch_by_id, drawn, ch_by_id', drawn')
  BY <1>1, <1>2, MovesUpdate
<1>4. Rest(ch_by_id', drawn')
  <2>1. c \in drawn
    BY <1>0, <1>2 DEF Arena, Rest
  <2> QED
    BY <1>0, <1>1, <1>2, <2>1, RestPut DEF Arena
<1>5. Paired(user_by_id', ch_by_id') /\ ScoresAt(user_by_id', ch_by_id')
  BY <1>0, <1>1, <1>2, PairedTurn DEF Arena, ScoresAt
<1>6. DownsOK(down', ch_by_id', drawn')
  BY <1>0, <1>1, <1>3, MovesDowns DEF Words
<1>7. NoCrash'
  BY <1>0, <1>1 DEF Arena, NoCrash
<1> QED
  BY <1>3, <1>4, <1>5, <1>6, <1>7 DEF HandledFair

LEMMA TurnJudgedFair ==
  ASSUME LoginInv, BattleInv, NEW fd \in Fds, HandleTurnJudged(fd)
  PROVE  HandledFair
<1> DEFINE m == Head(up[fd])
           c == m.chid
           ch == NotedBy(m)
           Left(damage, bonus, penalty) ==
             judge_turn(c, ch, NoId, damage, bonus, penalty)
<1>0. TypeOK /\ Words /\ Arena
  BY DEF LoginInv, BattleInv
<1>1. Takes(fd, "TURN") /\ TurnTaken(m) /\ Acted(ch) /\ drawn' = drawn
  BY DEF HandleTurnJudged
<1>2. PICK damage \in Damages, bonus \in Bonuses, penalty \in Penalties :
        /\ user_by_id' = Left(damage, bonus, penalty).users
        /\ ch_by_id' = Left(damage, bonus, penalty).chs
        /\ down' = Left(damage, bonus, penalty).down
        /\ server' = Left(damage, bonus, penalty).server
  BY DEF HandleTurnJudged
<1>3. /\ c \in DOMAIN ch_by_id /\ ch \in ChallengeRecs
      /\ ch.user1 = ch_by_id[c].user1 /\ ch.user2 = ch_by_id[c].user2
      /\ ch.state = "STARTED" /\ ch_by_id[c].state = "STARTED"
  BY <1>0, <1>1, NotedFacts
<1> HIDE DEF c, ch
<1>4. JudgedFair(Left(damage, bonus, penalty))
  BY <1>0, <1>3, JudgeFair
<1> HIDE DEF Left
<1> QED
  BY <1>0, <1>1, <1>2, <1>4 DEF JudgedFair, HandledFair, Arena, NoCrash
----------------------------------------------------------------------------
(* Every handler of pkt_handler leaves the battles fair. *)
LEMMA HandlerFair ==
  ASSUME FreshIds, LoginInv, BattleInv, NEW fd \in Fds, pkt_handler(fd)
  PROVE  HandledFair /\ \E kind : Takes(fd, kind)
<1>0. TypeOK /\ IndexesAgree
  BY DEF LoginInv
<1>1. \E kind : Takes(fd, kind)
  BY DEF pkt_handler, HandleJoinOk, HandleJoinRefused, HandleQuit, HandleDisconnect,
         HandleDisconnectUnknown, HandleChallengeError, HandleChallengeIgnored,
         HandleStart, HandleStartNoId, HandleCancel, HandleAccept, HandleReject,
         HandleTurnIgnored, HandleTurnFirst, HandleTurnJudged, HandleSendmsg
<1> SUFFICES HandledFair
  BY <1>1
<1>2. CASE HandleQuit(fd)
  <2>1. CASE Known(Head(up[fd]).id, Head(up[fd]).key)
    BY <1>2, <2>1, QuitUserFair DEF HandleQuit, Known
  <2>2. CASE ~ Known(Head(up[fd]).id, Head(up[fd]).key)
    <3>1. UNCHANGED <<user_by_id, ch_by_id, drawn, down, server>>
      BY <1>2, <2>2 DEF HandleQuit, serverVars, trees
    <3>2. NoCrash' /\ DownsOK(down', ch_by_id, drawn)
      BY <3>1 DEF BattleInv, Arena, Words, NoCrash
    <3> QED
      BY <3>1, <3>2, SameFair
  <2> QED
    BY <2>1, <2>2
<1>3. CASE HandleDisconnect(fd)
  <2>1. user_by_fd[fd] \in DOMAIN user_by_id
    BY <1>0, <1>3 DEF HandleDisconnect, IndexesAgree
  <2> QED
    BY <1>3, <2>1, QuitUserFair DEF HandleDisconnect
<1>4. CASE ~ (HandleQuit(fd) \/ HandleDisconnect(fd))
  BY <1>0, <1>4, JoinOkFair, JoinRefusedFair, SilentFair, ChallengeErrorFair, StartFair,
     CancelFair, AcceptFair, RejectFair, TurnFirstFair, TurnJudgedFair, SendmsgFair
     DEF pkt_handler
<1> QED
  BY <1>2, <1>3, <1>4

LEMMA HandlerBattle ==
  ASSUME FreshIds, LoginInv, BattleInv, NEW fd \in Fds, pkt_handler(fd),
         UNCHANGED clientVars
  PROVE  BattleInv' /\ ScoresAt(user_by_id', ch_by_id')
<1>1. HandledFair /\ \E kind : Takes(fd, kind)
  BY HandlerFair
<1>2. Words'
  BY <1>1, HandlerWords DEF HandledFair, LoginInv, BattleInv
<1> QED
  BY <1>1, <1>2 DEF HandledFair, BattleInv, Arena
----------------------------------------------------------------------------
(* The clients.  A step of one session changes what is on its way to and   *)
(* from it, and what it holds itself.                                      *)
LEMMA SessionWords ==
  ASSUME BattleInv, NEW fd \in Fds, UNCHANGED serverVars,
         \A f \in Fds \ {fd} : /\ up'[f] = up[f] /\ down'[f] = down[f]
                               /\ session'[f] = session[f],
         \A i \in DOMAIN up'[fd] : UpOK(ch_by_id, drawn, up'[fd][i]),
         \A i \in DOMAIN down'[fd] : DownOK(ch_by_id, drawn, fd, down'[fd][i]),
         SessionOK(ch_by_id, drawn, fd, session'[fd])
  PROVE  BattleInv' /\ ScoresAt(user_by_id', ch_by_id')
<1>1. UNCHANGED <<user_by_id, ch_by_id, drawn, server>>
  BY DEF serverVars, trees
<1>2. UpsOK(up', ch_by_id, drawn) /\ DownsOK(down', ch_by_id, drawn)
  BY DEF BattleInv, Words, UpsOK, DownsOK
<1>3. \A f \in Fds : SessionOK(ch_by_id, drawn, f, session'[f])
  BY DEF BattleInv, Words
<1>4. Words'
  BY <1>1, <1>2, <1>3 DEF Words
<1>5. Arena' /\ ScoresAt(user_by_id', ch_by_id')
  BY <1>1 DEF BattleInv, Arena, NoCrash, ScoresAt
<1> QED
  BY <1>4, <1>5 DEF BattleInv

(* A key sends one message. *)
LEMMA KeyWords ==
  ASSUME LoginInv, BattleInv, NEW fd \in Fds, NEW m, UpOK(ch_by_id, drawn, m),
         up' = Send(up, fd, m), UNCHANGED <<down, serverVars>>,
         \A f \in Fds \ {fd} : session'[f] = session[f],
         SessionOK(ch_by_id, drawn, fd, session'[fd])
  PROVE  BattleInv' /\ ScoresAt(user_by_id', ch_by_id')
<1>1. up \in [Fds -> Seq(UpMsgs)] /\ up[fd] \in Seq(UpMsgs)
  BY DEF LoginInv, TypeOK, ChannelsTypeOK
<1>2. up'[fd] = Append(up[fd], m) /\ \A f \in Fds \ {fd} : up'[f] = up[f]
  BY <1>1 DEF Send
<1>3. \A i \in DOMAIN Append(up[fd], m) :
        \/ i \in DOMAIN up[fd] /\ Append(up[fd], m)[i] = up[fd][i]
        \/ Append(up[fd], m)[i] = m
  BY <1>1
<1>4. /\ \A i \in DOMAIN up[fd] : UpOK(ch_by_id, drawn, up[fd][i])
      /\ \A i \in DOMAIN down[fd] : DownOK(ch_by_id, drawn, fd, down[fd][i])
  BY DEF BattleInv, Words, UpsOK, DownsOK
<1>5. \A i \in DOMAIN up'[fd] : UpOK(ch_by_id, drawn, up'[fd][i])
  BY <1>2, <1>3, <1>4
<1>6. \A i \in DOMAIN down'[fd] : DownOK(ch_by_id, drawn, fd, down'[fd][i])
  BY <1>4
<1> QED
  BY <1>2, <1>5, <1>6, SessionWords

(* What SessionOK says of a session that changes other fields, or ends. *)
LEMMA SessionFields ==
  ASSUME NEW s \in Sessions, NEW fd, SessionOK(ch_by_id, drawn, fd, s)
  PROVE  /\ SessionOK(ch_by_id, drawn, fd, [s EXCEPT !.waiting_for = "W_NONE"])
         /\ SessionOK(ch_by_id, drawn, fd, [s EXCEPT !.waiting_for = "W_CANCEL"])
         /\ SessionOK(ch_by_id, drawn, fd, [s EXCEPT !.acted = TRUE])
         /\ \A p : p # "MAIN" => SessionOK(ch_by_id, drawn, fd, [s EXCEPT !.phase = p])
<1>1. SessionOK(ch_by_id, drawn, fd, [s EXCEPT !.waiting_for = "W_NONE"])
  BY DEF SessionOK, Sessions
<1>2. SessionOK(ch_by_id, drawn, fd, [s EXCEPT !.waiting_for = "W_CANCEL"])
  BY DEF SessionOK, Sessions
<1>3. SessionOK(ch_by_id, drawn, fd, [s EXCEPT !.acted = TRUE])
  BY DEF SessionOK, Sessions
<1>4. \A p : p # "MAIN" => SessionOK(ch_by_id, drawn, fd, [s EXCEPT !.phase = p])
  BY DEF SessionOK, Sessions
<1> QED
  BY <1>1, <1>2, <1>3, <1>4

LEMMA KeyBattle ==
  ASSUME LoginInv, BattleInv, NEW fd \in Fds, Key(fd), UNCHANGED serverVars
  PROVE  BattleInv' /\ ScoresAt(user_by_id', ch_by_id')
<1> DEFINE s == session[fd]
<1>1. /\ session \in [Fds -> Sessions] /\ s \in Sessions
      /\ SessionOK(ch_by_id, drawn, fd, s)
  BY DEF LoginInv, TypeOK, ClientTypeOK, BattleInv, Words
<1>2. ASSUME NEW nick \in Nicks, Login(fd, nick)
      PROVE  BattleInv' /\ ScoresAt(user_by_id', ch_by_id')
  <2>1. /\ up' = Send(up, fd, Join(nick)) /\ down' = down
        /\ session' = [session EXCEPT ![fd] = [s EXCEPT !.phase = "WAIT_MSG"]]
    BY <1>2 DEF Login
  <2>2. UpOK(ch_by_id, drawn, Join(nick))
    BY DEF UpOK, Join
  <2>3. /\ \A f \in Fds \ {fd} : session'[f] = session[f]
        /\ session'[fd] = [s EXCEPT !.phase = "WAIT_MSG"]
    BY <1>1, <2>1
  <2>4. SessionOK(ch_by_id, drawn, fd, session'[fd])
    <3>1. SessionOK(ch_by_id, drawn, fd, [s EXCEPT !.phase = "WAIT_MSG"])
      BY <1>1, SessionFields
    <3> QED
      BY <2>3, <3>1
  <2> QED
    BY <2>1, <2>2, <2>3, <2>4, KeyWords
<1>3. ASSUME NEW id \in Ids, Invite(fd, id)
      PROVE  BattleInv' /\ ScoresAt(user_by_id', ch_by_id')
  <2> DEFINE m == Challenge("C_START", s.id, id, NoId, s.key)
  <2>1. /\ up' = Send(up, fd, m) /\ down' = down
        /\ session' = [session EXCEPT ![fd] = [s EXCEPT !.waiting_for = "W_CANCEL"]]
    BY <1>3 DEF Invite
  <2>2. UpOK(ch_by_id, drawn, m)
    BY DEF UpOK, Challenge
  <2>3. /\ \A f \in Fds \ {fd} : session'[f] = session[f]
        /\ session'[fd] = [s EXCEPT !.waiting_for = "W_CANCEL"]
    BY <1>1, <2>1
  <2> HIDE DEF m
  <2>4. SessionOK(ch_by_id, drawn, fd, session'[fd])
    BY <1>1, <2>3, SessionFields
  <2> QED
    BY <2>1, <2>2, <2>3, <2>4, KeyWords
<1>4. ASSUME Cancel(fd)
      PROVE  BattleInv' /\ ScoresAt(user_by_id', ch_by_id')
  <2> DEFINE m == Challenge("C_CANCEL", s.id, s.opponent_id, NoId, s.key)
  <2>1. /\ up' = Send(up, fd, m) /\ down' = down
        /\ session' = [session EXCEPT ![fd] = [s EXCEPT !.waiting_for = "W_NONE"]]
    BY <1>4 DEF Cancel
  <2>2. UpOK(ch_by_id, drawn, m)
    BY DEF UpOK, Challenge
  <2>3. /\ \A f \in Fds \ {fd} : session'[f] = session[f]
        /\ session'[fd] = [s EXCEPT !.waiting_for = "W_NONE"]
    BY <1>1, <2>1
  <2> HIDE DEF m
  <2>4. SessionOK(ch_by_id, drawn, fd, session'[fd])
    BY <1>1, <2>3, SessionFields
  <2> QED
    BY <2>1, <2>2, <2>3, <2>4, KeyWords
<1>5. ASSUME NEW action \in {"C_ACCEPT", "C_REJECT"}, Answer(fd, action)
      PROVE  BattleInv' /\ ScoresAt(user_by_id', ch_by_id')
  <2> DEFINE m == Challenge(action, s.opponent_id, s.id, s.chid, s.key)
  <2>1. /\ up' = Send(up, fd, m) /\ down' = down
        /\ session' = [session EXCEPT ![fd] = [s EXCEPT !.waiting_for = "W_NONE"]]
        /\ s.phase = "MAIN" /\ s.waiting_for = "W_ACCEPT"
    BY <1>5 DEF Answer, InMain
  <2>2. Names(ch_by_id, drawn, s.chid, s.opponent_id, s.id)
    BY <1>1, <2>1 DEF SessionOK
  <2>3. UpOK(ch_by_id, drawn, m)
    BY <2>2 DEF UpOK, Challenge
  <2>4. /\ \A f \in Fds \ {fd} : session'[f] = session[f]
        /\ session'[fd] = [s EXCEPT !.waiting_for = "W_NONE"]
    BY <1>1, <2>1
  <2> HIDE DEF m
  <2>5. SessionOK(ch_by_id, drawn, fd, session'[fd])
    BY <1>1, <2>4, SessionFields
  <2> QED
    BY <2>1, <2>3, <2>4, <2>5, KeyWords
<1>6. ASSUME NEW action \in Acts, Act(fd, action)
      PROVE  BattleInv' /\ ScoresAt(user_by_id', ch_by_id')
  <2> DEFINE m == Turn(s.id, s.chid, s.key, s.turn_no, action)
  <2>1. /\ up' = Send(up, fd, m) /\ down' = down
        /\ session' = [session EXCEPT ![fd] = [s EXCEPT !.acted = TRUE]]
        /\ s.phase = "MAIN"
    BY <1>6 DEF Act, InMain
  <2>2. NotAsker(ch_by_id, drawn, s.chid, s.id)
    BY <1>1, <2>1 DEF SessionOK
  <2>3. UpOK(ch_by_id, drawn, m)
    BY <2>2 DEF UpOK, Turn
  <2>4. /\ \A f \in Fds \ {fd} : session'[f] = session[f]
        /\ session'[fd] = [s EXCEPT !.acted = TRUE]
    BY <1>1, <2>1
  <2> HIDE DEF m
  <2>5. SessionOK(ch_by_id, drawn, fd, session'[fd])
    BY <1>1, <2>4, SessionFields
  <2> QED
    BY <2>1, <2>3, <2>4, <2>5, KeyWords
<1>7. ASSUME Chat(fd)
      PROVE  BattleInv' /\ ScoresAt(user_by_id', ch_by_id')
  <2>1. up' = Send(up, fd, SendMsg(s.id, s.key)) /\ down' = down /\ session' = session
    BY <1>7 DEF Chat, clientVars
  <2>2. UpOK(ch_by_id, drawn, SendMsg(s.id, s.key))
    BY DEF UpOK, SendMsg
  <2> QED
    BY <1>1, <2>1, <2>2, KeyWords
<1>8. ASSUME Leave(fd)
      PROVE  BattleInv' /\ ScoresAt(user_by_id', ch_by_id')
  <2>1. /\ up' = Send(up, fd, Quit(s.id, s.key)) /\ down' = down
        /\ session' = [session EXCEPT ![fd] = [s EXCEPT !.phase = "DONE"]]
    BY <1>8 DEF Leave
  <2>2. UpOK(ch_by_id, drawn, Quit(s.id, s.key))
    BY DEF UpOK, Quit
  <2>3. /\ \A f \in Fds \ {fd} : session'[f] = session[f]
        /\ session'[fd] = [s EXCEPT !.phase = "DONE"]
    BY <1>1, <2>1
  <2>4. SessionOK(ch_by_id, drawn, fd, session'[fd])
    <3>1. SessionOK(ch_by_id, drawn, fd, [s EXCEPT !.phase = "DONE"])
      BY <1>1, SessionFields
    <3> QED
      BY <2>3, <3>1
  <2> QED
    BY <2>1, <2>2, <2>3, <2>4, KeyWords
<1> QED
  BY <1>2, <1>3, <1>4, <1>5, <1>6, <1>7, <1>8 DEF Key

(* The head of what a client is sent, and what is left. *)
LEMMA ReceivesWords ==
  ASSUME TypeOK, BattleInv, NEW fd \in Fds, Receives(fd)
  PROVE  /\ Head(down[fd]) \in DownMsgs
         /\ DownOK(ch_by_id, drawn, fd, Head(down[fd]))
         /\ \A i \in DOMAIN down'[fd] : DownOK(ch_by_id, drawn, fd, down'[fd][i])
         /\ \A f \in Fds \ {fd} : down'[f] = down[f]
<1>1. /\ down \in [Fds -> Seq(DownMsgs)] /\ down[fd] \in Seq(DownMsgs)
      /\ down[fd] # <<>> /\ down' = [down EXCEPT ![fd] = Tail(down[fd])]
  BY DEF TypeOK, ChannelsTypeOK, Receives
<1>2. \A i \in DOMAIN down[fd] : DownOK(ch_by_id, drawn, fd, down[fd][i])
  BY DEF BattleInv, Words, DownsOK
<1>3. /\ 1 \in DOMAIN down[fd] /\ Head(down[fd]) = down[fd][1]
      /\ Head(down[fd]) \in DownMsgs
      /\ \A j \in DOMAIN Tail(down[fd]) : /\ j + 1 \in DOMAIN down[fd]
                                          /\ Tail(down[fd])[j] = down[fd][j + 1]
  BY <1>1
<1>4. down'[fd] = Tail(down[fd]) /\ \A f \in Fds \ {fd} : down'[f] = down[f]
  BY <1>1
<1> QED
  BY <1>2, <1>3, <1>4

LEMMA LoginAnsweredBattle ==
  ASSUME LoginInv, BattleInv, NEW fd \in Fds, LoginAnswered(fd), UNCHANGED serverVars
  PROVE  BattleInv' /\ ScoresAt(user_by_id', ch_by_id')
<1> DEFINE r == Head(down[fd])
           s == session[fd]
<1>0. TypeOK
  BY DEF LoginInv
<1>1. /\ session \in [Fds -> Sessions] /\ s \in Sessions
      /\ SessionOK(ch_by_id, drawn, fd, s)
      /\ \A i \in DOMAIN up[fd] : UpOK(ch_by_id, drawn, up[fd][i])
  BY DEF LoginInv, TypeOK, ClientTypeOK, BattleInv, Words, UpsOK
<1>2. Receives(fd) /\ up' = up
  BY DEF LoginAnswered
<1>3. /\ DownOK(ch_by_id, drawn, fd, r)
      /\ \A i \in DOMAIN down'[fd] : DownOK(ch_by_id, drawn, fd, down'[fd][i])
      /\ \A f \in Fds \ {fd} : down'[f] = down[f]
  BY <1>0, <1>2, ReceivesWords
<1>4. \A f \in Fds \ {fd} : session'[f] = session[f]
  BY <1>1 DEF LoginAnswered
<1>5. SessionOK(ch_by_id, drawn, fd, session'[fd])
  <2>1. CASE r.kind # "JOIN_R"
    BY <1>1, <2>1 DEF LoginAnswered
  <2>2. CASE r.kind = "JOIN_R" /\ r.error # "ME_OK"
    <3>1. session'[fd] = [s EXCEPT !.phase = "RETRY"]
      BY <1>1, <2>2 DEF LoginAnswered
    <3>2. SessionOK(ch_by_id, drawn, fd, [s EXCEPT !.phase = "RETRY"])
      BY <1>1, SessionFields
    <3> QED
      BY <3>1, <3>2
  <2>3. CASE r.kind = "JOIN_R" /\ r.error = "ME_OK"
    <3>1. PICK acted \in UnsetActed, state \in UnsetState :
            session' = [session EXCEPT ![fd] =
                          [NewSession EXCEPT !.phase = "MAIN", !.id = r.id,
                                             !.key = r.key, !.acted = acted,
                                             !.state = state]]
      BY <2>3 DEF LoginAnswered
    <3> DEFINE new == [NewSession EXCEPT !.phase = "MAIN", !.id = r.id, !.key = r.key,
                                         !.acted = acted, !.state = state]
    <3>2. new.id = r.id /\ new.chid = NoId /\ new.waiting_for = "W_NONE"
      BY DEF NewSession
    <3>3. r.id = fd
      BY <1>3, <2>3 DEF DownOK
    <3>4. session'[fd] = new
      BY <1>1, <3>1
    <3>5. NoId \notin DOMAIN ch_by_id
      <4>1. UINT16_MAX \in Nat
        BY UintAssumption
      <4>2. NoId \notin ChIds
        BY <4>1, ChIdsAssumption DEF NoId
      <4> QED
        BY <1>0, <4>2 DEF TypeOK, ServerTypeOK, IsTree
    <3> HIDE DEF new, r
    <3> QED
      BY <3>2, <3>3, <3>4, <3>5 DEF SessionOK, NotAsker
  <2> QED
    BY <2>1, <2>2, <2>3
<1> QED
  BY <1>1, <1>2, <1>3, <1>4, <1>5, SessionWords

(* What a session believes of its challenge after a message. *)
LEMMA HandledWords ==
  ASSUME NEW s \in Sessions, NEW m \in DownMsgs, NEW fd,
         s.phase = "MAIN", SessionOK(ch_by_id, drawn, fd, s),
         DownOK(ch_by_id, drawn, fd, m)
  PROVE  SessionOK(ch_by_id, drawn, fd, Handled(s, m))
<1>1. CASE m.kind = "TURN_R"
  <2> DEFINE t == OnTurnR(s, m)
  <2>1. /\ t.id = s.id /\ t.chid = s.chid /\ t.waiting_for = s.waiting_for
        /\ t.opponent_id = s.opponent_id /\ t.phase = s.phase
    BY DEF OnTurnR, Sessions
  <2>2. Handled(s, m) = t
    BY <1>1 DEF Handled
  <2> HIDE DEF t
  <2> QED
    BY <2>1, <2>2 DEF SessionOK
<1>2. CASE m.kind = "CHALLENGE"
  <2> DEFINE t == OnChallenge(s, m)
  <2>1. Handled(s, m) = t
    BY <1>2 DEF Handled
  <2>2. CASE s.waiting_for # "W_NONE"
    BY <2>1, <2>2 DEF OnChallenge
  <2>3. CASE s.waiting_for = "W_NONE"
    <3>1. t.id = s.id /\ t.chid = m.chid /\ t.opponent_id = m.id1
      BY <2>3 DEF OnChallenge, Sessions
    <3>2. m.id2 = fd /\ Names(ch_by_id, drawn, m.chid, m.id1, m.id2) /\ s.id = fd
      BY <1>2 DEF DownOK, SessionOK
    <3> HIDE DEF t
    <3>3. NotAsker(ch_by_id, drawn, t.chid, fd)
      BY <3>1, <3>2 DEF Names, NotAsker
    <3> QED
      BY <2>1, <3>1, <3>2, <3>3 DEF SessionOK
  <2> QED
    BY <2>2, <2>3
<1>3. CASE m.kind = "CHALLENGE_R"
  <2> DEFINE t == OnChallengeR(s, m)
  <2>1. Handled(s, m) = t
    BY <1>3 DEF Handled
  <2>2. CASE m.error # "ME_OK"
    BY <2>1, <2>2, SessionFields DEF OnChallengeR
  <2>3. CASE m.error = "ME_OK"
    <3>1. t.id = s.id /\ t.chid = m.chid /\ t.waiting_for = "W_NONE"
      BY <2>3 DEF OnChallengeR, Sessions
    <3>2. /\ m.chid \in drawn /\ m.chid \in DOMAIN ch_by_id => ch_by_id[m.chid].state # "ASKING"
          /\ s.id = fd /\ m.chid \in drawn
      BY <1>3, <2>3 DEF DownOK, SessionOK
    <3> HIDE DEF t
    <3>3. NotAsker(ch_by_id, drawn, t.chid, fd)
      BY <3>1, <3>2 DEF NotAsker
    <3> QED
      BY <2>1, <3>1, <3>2, <3>3 DEF SessionOK
  <2> QED
    BY <2>2, <2>3
<1>4. CASE m.kind = "UCHANGE"
  <2> DEFINE t == OnUchange(s, m)
             listed == [s EXCEPT !.user_by_id = Updated(@, m.users)]
  <2>1. Handled(s, m) = t
    BY <1>4 DEF Handled
  <2>2. \/ t = listed
        \/ t = [s EXCEPT !.phase = "DONE"]
        \/ \E st : t = [listed EXCEPT !.state = st]
    BY DEF OnUchange
  <2>3. /\ listed.id = s.id /\ listed.chid = s.chid /\ listed.phase = s.phase
        /\ listed.waiting_for = s.waiting_for /\ listed.opponent_id = s.opponent_id
        /\ \A st : LET l == [listed EXCEPT !.state = st] IN
             /\ l.id = s.id /\ l.chid = s.chid /\ l.phase = s.phase
             /\ l.waiting_for = s.waiting_for /\ l.opponent_id = s.opponent_id
    BY DEF Sessions
  <2>4. SessionOK(ch_by_id, drawn, fd, [s EXCEPT !.phase = "DONE"])
    BY SessionFields
  <2> HIDE DEF t, listed
  <2>5. CASE t = [s EXCEPT !.phase = "DONE"]
    BY <2>1, <2>4, <2>5
  <2>6. CASE t # [s EXCEPT !.phase = "DONE"]
    <3>1. /\ t.id = s.id /\ t.chid = s.chid /\ t.phase = s.phase
          /\ t.waiting_for = s.waiting_for /\ t.opponent_id = s.opponent_id
      BY <2>2, <2>3, <2>6
    <3> QED
      BY <2>1, <3>1 DEF SessionOK
  <2> QED
    BY <2>5, <2>6
<1>5. CASE m.kind \notin {"TURN_R", "CHALLENGE", "CHALLENGE_R", "UCHANGE"}
  BY <1>5 DEF Handled
<1> QED
  BY <1>1, <1>2, <1>3, <1>4, <1>5

LEMMA AnswersWords ==
  ASSUME NEW s \in Sessions, NEW m \in DownMsgs, NEW q \in Seq(UpMsgs),
         \A i \in DOMAIN q : UpOK(ch_by_id, drawn, q[i])
  PROVE  \A i \in DOMAIN (q \o Answers(s, m)) :
           UpOK(ch_by_id, drawn, (q \o Answers(s, m))[i])
<1> DEFINE reject == Challenge("C_REJECT", m.id1, m.id2, m.chid, s.key)
           quit == Quit(s.id, s.key)
           a == Answers(s, m)
<1>1. UpOK(ch_by_id, drawn, reject) /\ UpOK(ch_by_id, drawn, quit)
  BY DEF UpOK, Challenge, Quit
<1>2. a = <<reject>> \/ a = <<quit>> \/ a = <<>>
  BY DEF Answers
<1>3. a \in Seq(UpMsgs)
  BY AnswersType
<1> HIDE DEF reject, quit
<1>4. \A i \in DOMAIN a : UpOK(ch_by_id, drawn, a[i])
  <2> HIDE DEF a
  <2>1. CASE a = <<reject>>
    BY <1>1, <2>1
  <2>2. CASE a = <<quit>>
    BY <1>1, <2>2
  <2>3. CASE a = <<>>
    BY <2>3
  <2> QED
    BY <1>2, <2>1, <2>2, <2>3
<1> HIDE DEF a
<1>5. \A i \in DOMAIN (q \o a) : \/ i \in DOMAIN q /\ (q \o a)[i] = q[i]
                                 \/ i - Len(q) \in DOMAIN a /\ (q \o a)[i] = a[i - Len(q)]
  BY <1>3
<1>6. \A i \in DOMAIN (q \o a) : UpOK(ch_by_id, drawn, (q \o a)[i])
  BY <1>4, <1>5
<1> QED
  BY <1>6 DEF a

LEMMA MainReceivesBattle ==
  ASSUME LoginInv, BattleInv, NEW fd \in Fds, MainReceives(fd), UNCHANGED serverVars
  PROVE  BattleInv' /\ ScoresAt(user_by_id', ch_by_id')
<1> DEFINE m == Head(down[fd])
           s == session[fd]
<1>0. TypeOK
  BY DEF LoginInv
<1>1. /\ session \in [Fds -> Sessions] /\ s \in Sessions
      /\ up \in [Fds -> Seq(UpMsgs)] /\ up[fd] \in Seq(UpMsgs)
      /\ SessionOK(ch_by_id, drawn, fd, s)
      /\ \A i \in DOMAIN up[fd] : UpOK(ch_by_id, drawn, up[fd][i])
  BY DEF LoginInv, TypeOK, ChannelsTypeOK, ClientTypeOK, BattleInv, Words, UpsOK
<1>2. /\ Receives(fd) /\ s.phase = "MAIN"
      /\ up' = [up EXCEPT ![fd] = up[fd] \o Answers(s, m)]
      /\ session' = [session EXCEPT ![fd] = Handled(s, m)]
  BY DEF MainReceives
<1>3. /\ m \in DownMsgs /\ DownOK(ch_by_id, drawn, fd, m)
      /\ \A i \in DOMAIN down'[fd] : DownOK(ch_by_id, drawn, fd, down'[fd][i])
      /\ \A f \in Fds \ {fd} : down'[f] = down[f]
  BY <1>0, <1>2, ReceivesWords
<1> HIDE DEF m, s
<1>4. /\ up'[fd] = up[fd] \o Answers(s, m) /\ session'[fd] = Handled(s, m)
      /\ \A f \in Fds \ {fd} : up'[f] = up[f] /\ session'[f] = session[f]
  BY <1>1, <1>2
<1>5. \A i \in DOMAIN up'[fd] : UpOK(ch_by_id, drawn, up'[fd][i])
  BY <1>1, <1>3, <1>4, AnswersWords
<1>6. SessionOK(ch_by_id, drawn, fd, session'[fd])
  BY <1>1, <1>2, <1>3, <1>4, HandledWords
<1> QED
  BY <1>3, <1>4, <1>5, <1>6, SessionWords

LEMMA DiscardsBattle ==
  ASSUME LoginInv, BattleInv, NEW fd \in Fds, Discards(fd), UNCHANGED serverVars
  PROVE  BattleInv' /\ ScoresAt(user_by_id', ch_by_id')
<1>1. down \in [Fds -> Seq(DownMsgs)]
  BY DEF LoginInv, TypeOK, ChannelsTypeOK
<1>2. /\ up' = up /\ session' = session /\ down'[fd] = <<>>
      /\ \A f \in Fds \ {fd} : down'[f] = down[f]
  BY <1>1 DEF Discards, clientVars
<1>3. /\ \A i \in DOMAIN up[fd] : UpOK(ch_by_id, drawn, up[fd][i])
      /\ SessionOK(ch_by_id, drawn, fd, session[fd])
  BY DEF BattleInv, Words, UpsOK
<1> QED
  BY <1>2, <1>3, SessionWords

LEMMA LoseBattle ==
  ASSUME LoginInv, BattleInv, NEW fd \in Fds, Lose(fd), UNCHANGED serverVars
  PROVE  BattleInv' /\ ScoresAt(user_by_id', ch_by_id')
<1>1. /\ up \in [Fds -> Seq(UpMsgs)] /\ up[fd] \in Seq(UpMsgs)
      /\ session \in [Fds -> Sessions] /\ session[fd] \in Sessions
      /\ SessionOK(ch_by_id, drawn, fd, session[fd])
      /\ \A i \in DOMAIN up[fd] : UpOK(ch_by_id, drawn, up[fd][i])
      /\ \A i \in DOMAIN down[fd] : DownOK(ch_by_id, drawn, fd, down[fd][i])
  BY DEF LoginInv, TypeOK, ChannelsTypeOK, ClientTypeOK, BattleInv, Words, UpsOK, DownsOK
<1>2. PICK n \in 0 .. Len(up[fd]) :
        up' = [up EXCEPT ![fd] = Append(SubSeq(up[fd], 1, n), Disconn)]
  BY DEF Lose
<1> DEFINE kept == SubSeq(up[fd], 1, n)
           left == Append(kept, Disconn)
<1>3. /\ kept \in Seq(UpMsgs) /\ DOMAIN kept \subseteq DOMAIN up[fd]
      /\ \A i \in DOMAIN kept : kept[i] = up[fd][i]
  BY <1>1, <1>2
<1>4. /\ up'[fd] = left /\ down' = down
      /\ session'[fd] = [session[fd] EXCEPT !.phase = "GONE"]
      /\ \A f \in Fds \ {fd} : up'[f] = up[f] /\ session'[f] = session[f]
  BY <1>1, <1>2 DEF Lose
<1> HIDE DEF kept
<1>5. \A i \in DOMAIN left : (i \in DOMAIN kept /\ left[i] = kept[i]) \/ left[i] = Disconn
  BY <1>3
<1>6. UpOK(ch_by_id, drawn, Disconn)
  BY DEF UpOK, Disconn
<1> HIDE DEF left
<1>7. \A i \in DOMAIN up'[fd] : UpOK(ch_by_id, drawn, up'[fd][i])
  BY <1>1, <1>3, <1>4, <1>5, <1>6
<1>8. SessionOK(ch_by_id, drawn, fd, session'[fd])
  <2>1. SessionOK(ch_by_id, drawn, fd, [session[fd] EXCEPT !.phase = "GONE"])
    BY <1>1, SessionFields
  <2> QED
    BY <1>4, <2>1
<1> QED
  BY <1>1, <1>4, <1>7, <1>8, SessionWords
----------------------------------------------------------------------------
LEMMA InitBattle == Init => BattleInv
<1> SUFFICES ASSUME Init PROVE BattleInv
  OBVIOUS
<1>1. /\ DOMAIN user_by_id = {} /\ DOMAIN ch_by_id = {} /\ server = "running"
      /\ \A fd \in Fds : up[fd] = <<>> /\ down[fd] = <<>> /\ session[fd] = NewSession
  BY DEF Init, model_init, Empty, ChannelsInit, ClientInit
<1>2. Arena
  BY <1>1 DEF Arena, Rest, Paired, NoCrash
<1>3. NewSession.phase # "MAIN"
  BY DEF NewSession
<1>4. Words
  BY <1>1, <1>3 DEF Words, UpsOK, DownsOK, SessionOK
<1> QED
  BY <1>2, <1>4 DEF BattleInv

LEMMA NextBattle ==
  FreshIds /\ LoginInv /\ BattleInv /\ [Next]_vars =>
    BattleInv' /\ ScoresAt(user_by_id', ch_by_id')
<1> SUFFICES ASSUME FreshIds, LoginInv, BattleInv, [Next]_vars
             PROVE  BattleInv' /\ ScoresAt(user_by_id', ch_by_id')
  OBVIOUS
<1>1. ASSUME NEW fd \in Fds, pkt_handler(fd), UNCHANGED clientVars
      PROVE  BattleInv' /\ ScoresAt(user_by_id', ch_by_id')
  BY <1>1, HandlerBattle
<1>2. ASSUME NEW fd \in Fds, Key(fd) \/ Receive(fd) \/ Lose(fd), UNCHANGED serverVars
      PROVE  BattleInv' /\ ScoresAt(user_by_id', ch_by_id')
  BY <1>2, KeyBattle, LoginAnsweredBattle, MainReceivesBattle, DiscardsBattle, LoseBattle
     DEF Receive
<1>3. ASSUME UNCHANGED vars
      PROVE  BattleInv' /\ ScoresAt(user_by_id', ch_by_id')
  <2>1. UNCHANGED <<user_by_id, ch_by_id, drawn, server, up, down, session>>
    BY <1>3 DEF vars, channels, serverVars, trees, clientVars
  <2> QED
    BY <2>1 DEF BattleInv, Words, Arena, NoCrash, ScoresAt
<1> QED
  BY <1>1, <1>2, <1>3 DEF Next

(* The inductive invariant of the battles holds of the whole game. *)
THEOREM BattleInvariant == ASSUME FreshIds PROVE Spec => []BattleInv
<1>1. Init => BattleInv
  BY InitBattle
<1>2. LoginInv /\ BattleInv /\ [Next]_vars => BattleInv'
  BY NextBattle
<1> QED
  BY <1>1, <1>2, JankenInvariant, PTL DEF Spec

(* A user is battling exactly when it plays in a challenge that has        *)
(* started, and its chid names that one: handle_challenge, handle_turn and *)
(* quit_user never leave a user in two battles, in one that is gone, or a  *)
(* battle without one of its players.                                      *)
THEOREM JankenBattlePairing == ASSUME FreshIds PROVE Spec => []BattlePairing
<1>1. BattleInv => BattlePairing
  BY PairedIs DEF BattleInv, Arena
<1> QED
  BY <1>1, BattleInvariant, PTL

(* Between two handlers every challenge is at rest: an open one has its    *)
(* full hit points and no turn, one that has started waits for a player    *)
(* and nobody in it is at zero (judge_turn, handle_turn).                  *)
THEOREM JankenBattleSound == ASSUME FreshIds PROVE Spec => []BattleSound
<1>1. BattleInv => BattleSound
  BY RestIsSound DEF BattleInv, Arena
<1> QED
  BY <1>1, BattleInvariant, PTL

(* No handler fails an assertion about the trees or dereferences a user    *)
(* that is not there.                                                      *)
THEOREM JankenNoCrash == ASSUME FreshIds PROVE Spec => []NoCrash
<1>1. BattleInv => NoCrash
  BY DEF BattleInv, Arena
<1> QED
  BY <1>1, BattleInvariant, PTL

(* The users a C_ACCEPT puts into battle, which handle_challenge takes     *)
(* from the message, are the players of the challenge.                     *)
THEOREM JankenUsersOfTheChallenge == ASSUME FreshIds PROVE Spec => []UsersOfTheChallenge
<1>1. LoginInv /\ BattleInv => UsersOfTheChallenge
  <2> SUFFICES ASSUME LoginInv, BattleInv, NEW fd \in Fds, Accepts(fd)
               PROVE  <<ch_by_id[Head(up[fd]).chid].user1,
                        ch_by_id[Head(up[fd]).chid].user2>>
                        = <<Head(up[fd]).id1, Head(up[fd]).id2>>
    BY DEF UsersOfTheChallenge
  <2> DEFINE m == Head(up[fd])
  <2>1. /\ up[fd] # <<>> /\ m.kind = "CHALLENGE" /\ Valid(m, "C_ACCEPT")
    BY DEF Accepts
  <2>2. up[fd] \in Seq(UpMsgs)
    BY DEF LoginInv, TypeOK, ChannelsTypeOK
  <2>3. 1 \in DOMAIN up[fd] /\ m = up[fd][1]
    BY <2>1, <2>2
  <2>4. UpOK(ch_by_id, drawn, m)
    BY <2>3 DEF BattleInv, Words, UpsOK
  <2> HIDE DEF m
  <2>5. m.chid \in DOMAIN ch_by_id /\ m.action = "C_ACCEPT"
    BY <2>1 DEF Valid, ChallengeError
  <2>6. ch_by_id[m.chid].user1 = m.id1 /\ ch_by_id[m.chid].user2 = m.id2
    BY <2>1, <2>4, <2>5 DEF UpOK, Names
  <2> QED
    BY <2>6 DEF m
<1> QED
  BY <1>1, BattleInvariant, JankenInvariant, PTL

(* A step that changes a user's score ends the battle the user was in:     *)
(* nobody wins or loses points but by judge_turn's last word.              *)
THEOREM JankenScores == ASSUME FreshIds PROVE Spec => ScoresMoveAtTheEnd
<1> DEFINE Moved == \A id \in DOMAIN user_by_id \cap DOMAIN user_by_id' :
                      user_by_id'[id].score # user_by_id[id].score =>
                        /\ user_by_id[id].state = "UBATTLING"
                        /\ user_by_id[id].chid \notin DOMAIN ch_by_id'
                        /\ user_by_id'[id].state = "UONLINE"
<1>1. LoginInv /\ BattleInv /\ [Next]_vars => [Moved]_vars
  BY NextBattle DEF ScoresAt
<1>2. Spec => [][Moved]_vars
  BY <1>1, BattleInvariant, JankenInvariant, PTL DEF Spec
<1> QED
  BY <1>2 DEF ScoresMoveAtTheEnd
=============================================================================
