------------------------------- MODULE Server -------------------------------
(***************************************************************************)
(* The game state of server/server.c and the handlers the packet handler   *)
(* thread runs on it.  That thread is the only one that touches this state *)
(* and it runs one handler at a time, so a handler is one action: it takes *)
(* the next entry of some connection and appends its answers to the        *)
(* connections' down channels.                                             *)
(***************************************************************************)
EXTENDS Protocol

CONSTANT
  FreshIds   \* TRUE: random() does not repeat a challenge id in this run

ASSUME FreshIdsAssumption == FreshIds \in BOOLEAN

VARIABLES
  user_by_id,     \* id -> user: [nick, fd, key, state, score, chid]
  user_by_fd,     \* fd -> id
  user_by_nick,   \* nickname -> id
  user_cnt,
  ch_by_id,       \* id -> challenge: [user1, user2, turn_no, act1, act2,
                  \*                   hp1, hp2, state]
  drawn,          \* history: the challenge ids drawn so far
  server          \* "running", "crashed" (assertion or NULL dereference),
                  \* or "exhausted" (add_challenge found no id)

trees == <<user_by_id, user_by_fd, user_by_nick, user_cnt>>
serverVars == <<trees, ch_by_id, drawn, server>>

UserInfos ==
  [nick : Nicks, fd : Fds, key : Fds, state : UserStates, score : Int,
   chid : AnyChId]

ChallengeRecs ==
  [user1 : Ids, user2 : Ids, turn_no : Nat, act1 : AnyAct, act2 : AnyAct,
   hp1 : Int, hp2 : Int, state : {"ASKING", "STARTED"}]

ServerTypeOK ==
  /\ IsTree(user_by_id, Ids, UserInfos)
  /\ IsTree(user_by_fd, Fds, Ids)
  /\ IsTree(user_by_nick, Nicks, Ids)
  /\ user_cnt \in Int
  /\ IsTree(ch_by_id, ChIds, ChallengeRecs)
  /\ drawn \in SUBSET ChIds
  /\ server \in {"running", "crashed", "exhausted"}

model_init ==
  /\ user_by_id = Empty /\ user_by_fd = Empty /\ user_by_nick = Empty
  /\ user_cnt = 0
  /\ ch_by_id = Empty
  /\ drawn = {}
  /\ server = "running"
----------------------------------------------------------------------------
(* The entry pkt_handler takes from the incoming queue: the next one of    *)
(* some connection.                                                        *)
Takes(fd, kind) ==
  /\ server = "running"
  /\ up[fd] # <<>>
  /\ Head(up[fd]).kind = kind
  /\ up' = [up EXCEPT ![fd] = Tail(@)]

FdsOf(users) == {users[id].fd : id \in DOMAIN users}

(* Mutant: only the users that changed are told. *)
broadcast_user_changes_ToSelf(d, users, ids) ==
  SendAll(d, {users[id].fd : id \in ids},
          Uchange({Info(id, users[id]) : id \in ids}))

(* broadcast_user_changes: every user is sent the new state of ids. *)
broadcast_user_changes(d, users, ids) ==
  SendAll(d, FdsOf(users), Uchange({Info(id, users[id]) : id \in ids}))

(* send_user_info with ALL_TO_ONE: the users in the order of their ids,    *)
(* UCHANGE_MAX_UCNT to a message; chunk n of them, and how many there are. *)
Chunk(users, n) ==
  LET Rank(id) == Cardinality({i \in DOMAIN users : i < id})
  IN  {Info(id, users[id]) :
         id \in {i \in DOMAIN users : Rank(i) \div UCHANGE_MAX_UCNT = n - 1}}

(* Mutants: the last message is not sent unless it is full; only the first *)
(* message is sent.                                                        *)
ChunkCount_NoFlush(users) == Cardinality(DOMAIN users) \div UCHANGE_MAX_UCNT

ChunkCount_First(users) == 1

ChunkCount(users) ==
  (Cardinality(DOMAIN users) + UCHANGE_MAX_UCNT - 1) \div UCHANGE_MAX_UCNT

AllUsers(users) ==
  [n \in 1 .. ChunkCount(users) |-> Uchange(Chunk(users, n))]
----------------------------------------------------------------------------
(* Mutant: the nickname is not looked up. *)
JoinError_NoNickCheck(nick, stale) ==
  IF user_cnt >= MAX_USER_COUNT THEN "TOOMANYUSER"
  ELSE IF stale \in DOMAIN user_by_fd THEN "JOINTWICE"
  ELSE "ME_OK"

(* user_add looks its new user up by fd before it has set the fd: stale is *)
(* what the allocated memory held there.  The ids it tries are looked up   *)
(* by the new user's zero id, sixteen times the same.                      *)
JoinError(nick, stale) ==
  IF user_cnt >= MAX_USER_COUNT THEN "TOOMANYUSER"
  ELSE IF stale \in DOMAIN user_by_fd THEN "JOINTWICE"
  ELSE IF nick \in DOMAIN user_by_nick THEN "DUPNICK"
  ELSE IF NoId \in DOMAIN user_by_id THEN "ME_OTHER"
  ELSE "ME_OK"

user_create(fd, nick) ==
  [nick |-> nick, fd |-> fd, key |-> fd, state |-> "UONLINE", score |-> 0,
   chid |-> NoId]

(* handle_join of a user that is admitted.  tsearch returns the node of an *)
(* equal key when there is one, and the assertion after it fails.          *)
HandleJoinOk(fd) ==
  /\ Takes(fd, "JOIN")
  /\ \E stale \in Fds \cup {NoId} :
       JoinError(Head(up[fd]).nick, stale) = "ME_OK"
  /\ LET nick == Head(up[fd]).nick
         id == IdOf(fd)
         users == Put(user_by_id, id, user_create(fd, nick))
         told == [down EXCEPT ![fd] =
                    (@ \o <<JoinR("ME_OK", id, fd)>>) \o AllUsers(users)]
     IN  /\ server' = IF id \in DOMAIN user_by_id \/ fd \in DOMAIN user_by_fd
                        THEN "crashed" ELSE server
         /\ user_by_id' = users
         /\ user_by_fd' = Put(user_by_fd, fd, id)
         /\ user_by_nick' = Put(user_by_nick, nick, id)
         /\ user_cnt' = user_cnt + 1
         /\ down' = SendAll(told, FdsOf(users) \ {fd},
                            Uchange({Info(id, users[id])}))
  /\ UNCHANGED <<ch_by_id, drawn>>

(* Mutant: a refused client is not told. *)
HandleJoinRefused_Silent(fd) ==
  /\ Takes(fd, "JOIN")
  /\ \E stale \in Fds \cup {NoId} :
       JoinError(Head(up[fd]).nick, stale) # "ME_OK"
  /\ UNCHANGED <<serverVars, down>>

HandleJoinRefused(fd) ==
  /\ Takes(fd, "JOIN")
  /\ \E stale \in Fds \cup {NoId} :
       LET err == JoinError(Head(up[fd]).nick, stale)
       IN  /\ err # "ME_OK"
           /\ down' = Send(down, fd, JoinR(err, NoId, 0))
  /\ UNCHANGED serverVars
----------------------------------------------------------------------------
Acted(ch) == ch.act1 # NoAct /\ ch.act2 # NoAct

(* Mutants: the acted flags are not cleared; the winner is hit. *)
AfterTurn_NoReset(ch, damage) == [ch EXCEPT !.turn_no = @ + 1]

AfterTurn_WinnerHit(ch, damage) ==
  LET result == get_turn_result(ch.act1, ch.act2)
  IN  [ch EXCEPT
        !.turn_no = @ + 1,
        !.hp1 = IF Acted(ch) /\ result = "TR_WIN" THEN @ - damage ELSE @,
        !.hp2 = IF Acted(ch) /\ result = "TR_LOSE" THEN @ - damage ELSE @,
        !.act1 = NoAct, !.act2 = NoAct]

(* judge_turn up to the point where it looks for a winner. *)
AfterTurn(ch, damage) ==
  LET result == get_turn_result(ch.act1, ch.act2)
  IN  IF ch.turn_no = 0
        THEN [ch EXCEPT !.turn_no = 1, !.act1 = NoAct, !.act2 = NoAct]
        ELSE [ch EXCEPT
               !.turn_no = (@ + 1) % (UINT16_MAX + 1),
               !.hp1 = IF Acted(ch) /\ result = "TR_LOSE" THEN @ - damage ELSE @,
               !.hp2 = IF Acted(ch) /\ result = "TR_WIN" THEN @ - damage ELSE @,
               !.act1 = NoAct, !.act2 = NoAct]

(* The winner of a battle that is over, NoId of one that goes on. *)
Winner(ch, force_lose_id) ==
  IF force_lose_id = ch.user1 \/ (force_lose_id # ch.user2 /\ ch.hp1 <= 0)
    THEN ch.user2
  ELSE IF force_lose_id = ch.user2 \/ ch.hp2 <= 0 THEN ch.user1
  ELSE NoId

(* The TURN_R of judge_turn: the actions of the turn, the state after it. *)
TurnR(played, after, winner) ==
  [kind |-> "TURN_R", turn_no |-> after.turn_no,
   action1 |-> played.act1, action2 |-> played.act2,
   hp1 |-> after.hp1, hp2 |-> after.hp2,
   fin |-> winner # NoId, winner |-> winner]

(* Mutant: the loser's state is not reset. *)
EndBattle_LoserBusy(users, ch, winner, bonus, penalty) ==
  LET loser == IF winner = ch.user1 THEN ch.user2 ELSE ch.user1
  IN  [users EXCEPT ![winner].score = @ + bonus,
                    ![winner].state = "UONLINE",
                    ![loser].score = @ - penalty]

(* A user after its battle: the points added, and free again. *)
Settle(user, points) ==
  [user EXCEPT !.score = @ + points,
               !.state = IF @ = "UBATTLING" THEN "UONLINE" ELSE @]

(* The users after a battle that winner has won. *)
EndBattle(users, ch, winner, bonus, penalty) ==
  LET loser == IF winner = ch.user1 THEN ch.user2 ELSE ch.user1
      won == [users EXCEPT ![winner] = Settle(@, bonus)]
  IN  [won EXCEPT ![loser] = Settle(@, - penalty)]

(* judge_turn on challenge c in the form ch: the users, challenges, down   *)
(* channels and server status it leaves.  It dereferences both users.      *)
judge_turn(c, ch, force_lose_id, damage, bonus, penalty) ==
  LET after == AfterTurn(ch, damage)
      winner == Winner(after, force_lose_id)
      sent == Send(Send(down, user_by_id[ch.user1].fd, TurnR(ch, after, winner)),
                   user_by_id[ch.user2].fd, TurnR(ch, after, winner))
      users == EndBattle(user_by_id, after, winner, bonus, penalty)
  IN  CASE ~ ({ch.user1, ch.user2} \subseteq DOMAIN user_by_id) ->
             [users |-> user_by_id, chs |-> ch_by_id, down |-> down,
              server |-> "crashed"]
        [] {ch.user1, ch.user2} \subseteq DOMAIN user_by_id /\ winner = NoId ->
             [users |-> user_by_id, chs |-> Put(ch_by_id, c, after),
              down |-> sent, server |-> server]
        [] OTHER ->
             [users |-> users, chs |-> tdelete(ch_by_id, c),
              down |-> broadcast_user_changes(sent, users, {ch.user1, ch.user2}),
              server |-> server]
----------------------------------------------------------------------------
(* Mutant: a user that quits does not forfeit its battle. *)
Fights_Never(u) == FALSE

(* The user is in a battle that quit_user has to end. *)
Fights(u) ==
  user_by_id[u].state = "UBATTLING" /\ user_by_id[u].chid \in DOMAIN ch_by_id

(* quit_user, with the battle the user leaves judged against it. *)
quit_user(u) ==
  \E bonus \in Bonuses, penalty \in Penalties :
    LET user == user_by_id[u]
        left == IF Fights(u)
                  THEN judge_turn(user.chid, ch_by_id[user.chid], u, 0,
                                  bonus, penalty)
                  ELSE [users |-> user_by_id, chs |-> ch_by_id, down |-> down,
                        server |-> server]
        users == [left.users EXCEPT ![u].state = "UOFFLINE"]
    IN  /\ ch_by_id' = left.chs
        /\ down' = broadcast_user_changes(left.down, users, {u})
        /\ user_by_id' = tdelete(users, u)
        /\ user_by_nick' = tdelete(user_by_nick, user.nick)
        /\ user_by_fd' = tdelete(user_by_fd, user.fd)
        /\ user_cnt' = user_cnt - 1
        /\ server' = IF user.nick \in DOMAIN user_by_nick
                       THEN left.server ELSE "crashed"
        /\ UNCHANGED drawn

Known(id, key) == id \in DOMAIN user_by_id /\ user_by_id[id].key = key

HandleQuit(fd) ==
  /\ Takes(fd, "QUIT")
  /\ IF Known(Head(up[fd]).id, Head(up[fd]).key)
       THEN quit_user(Head(up[fd]).id)
       ELSE UNCHANGED <<serverVars, down>>

HandleDisconnect(fd) ==
  /\ Takes(fd, "EDISCONN")
  /\ fd \in DOMAIN user_by_fd
  /\ quit_user(user_by_fd[fd])

HandleDisconnectUnknown(fd) ==
  /\ Takes(fd, "EDISCONN")
  /\ fd \notin DOMAIN user_by_fd
  /\ UNCHANGED <<serverVars, down>>
----------------------------------------------------------------------------
(* handle_challenge.  The user whose key the action must carry. *)
Signer(m) == IF m.action \in {"C_START", "C_CANCEL"} THEN m.id1 ELSE m.id2

BothOnline(m) ==
  /\ user_by_id[m.id1].state = "UONLINE"
  /\ user_by_id[m.id2].state = "UONLINE"

(* Mutant: C_ACCEPT does not look whether both are still free. *)
ChallengeError_AcceptAnyway(m) ==
  IF ~ ({m.id1, m.id2} \subseteq DOMAIN user_by_id) THEN "NXID"
  ELSE IF ~ Known(Signer(m), m.key) THEN "ICKEY"
  ELSE IF m.action = "C_START" /\ ~ BothOnline(m) THEN "ENGAGED"
  ELSE IF m.action \in {"C_ACCEPT", "C_REJECT"} /\ m.chid \notin DOMAIN ch_by_id
    THEN "NXCHID" ELSE "ME_OK"

(* The error handle_challenge answers the sender with, ME_OK for none. *)
ChallengeError(m) ==
  IF ~ ({m.id1, m.id2} \subseteq DOMAIN user_by_id) THEN "NXID"
  ELSE IF ~ Known(Signer(m), m.key) THEN "ICKEY"
  ELSE CASE m.action = "C_START" ->
              IF ~ BothOnline(m) THEN "ENGAGED"
              ELSE IF m.id1 = m.id2 THEN "CHLSELF" ELSE "ME_OK"
         [] m.action \in {"C_ACCEPT", "C_REJECT"} ->
              IF m.chid \notin DOMAIN ch_by_id THEN "NXCHID"
              ELSE IF /\ m.action = "C_ACCEPT"
                      /\ ch_by_id[m.chid].state = "ASKING"
                      /\ ~ BothOnline(m)
                     THEN "ENGAGED" ELSE "ME_OK"
         [] m.action = "C_CANCEL" -> "ME_OK"

HandleChallengeError(fd) ==
  /\ Takes(fd, "CHALLENGE")
  /\ LET m == Head(up[fd]) IN
       /\ ChallengeError(m) # "ME_OK"
       /\ down' = Send(down, fd, ChallengeR(ChallengeError(m), m, FALSE))
  /\ UNCHANGED serverVars

Valid(m, action) == m.action = action /\ ChallengeError(m) = "ME_OK"

FreeChIds ==
  ChIds \ (DOMAIN ch_by_id \cup IF FreshIds THEN drawn ELSE {})

add_challenge(m) ==
  [user1 |-> m.id1, user2 |-> m.id2, turn_no |-> 0, act1 |-> NoAct,
   act2 |-> NoAct, hp1 |-> MAXHP, hp2 |-> MAXHP, state |-> "ASKING"]

HandleStart(fd) ==
  /\ Takes(fd, "CHALLENGE")
  /\ LET m == Head(up[fd]) IN
       /\ Valid(m, "C_START")
       /\ \E c \in FreeChIds :
            /\ ch_by_id' = Put(ch_by_id, c, add_challenge(m))
            /\ drawn' = drawn \cup {c}
            /\ user_by_id' = [user_by_id EXCEPT ![m.id1].chid = c]
            /\ down' = Send(down, user_by_id[m.id2].fd, [m EXCEPT !.chid = c])
  /\ UNCHANGED <<user_by_fd, user_by_nick, user_cnt, server>>

(* add_challenge draws sixteen ids that are all taken, and asserts. *)
HandleStartNoId(fd) ==
  /\ Takes(fd, "CHALLENGE")
  /\ Valid(Head(up[fd]), "C_START")
  /\ DOMAIN ch_by_id # {}
  /\ server' = "exhausted"
  /\ UNCHANGED <<trees, ch_by_id, drawn, down>>

(* The challenge C_CANCEL withdraws: the sender's latest, if it is open. *)
Cancels(m) ==
  LET u == user_by_id[m.id1]
  IN  /\ u.state = "UONLINE"
      /\ u.chid \in DOMAIN ch_by_id
      /\ ch_by_id[u.chid].state = "ASKING"
      /\ ch_by_id[u.chid].user1 = m.id1

HandleCancel(fd) ==
  /\ Takes(fd, "CHALLENGE")
  /\ LET m == Head(up[fd])
         c == user_by_id[m.id1].chid
         user2 == ch_by_id[c].user2
     IN  /\ Valid(m, "C_CANCEL") /\ Cancels(m)
         /\ user_by_id' = [user_by_id EXCEPT ![m.id1].chid = NoId]
         /\ ch_by_id' = tdelete(ch_by_id, c)
         /\ down' = IF user2 \in DOMAIN user_by_id
                      THEN Send(down, user_by_id[user2].fd,
                                ChallengeR("CANCELLED", m, FALSE))
                      ELSE down
  /\ UNCHANGED <<user_by_fd, user_by_nick, user_cnt, drawn, server>>

(* C_ACCEPT of an open challenge: the battle starts with its first turn.   *)
(* The users are the ones the message names, not the challenge's.          *)
HandleAccept(fd) ==
  /\ Takes(fd, "CHALLENGE")
  /\ LET m == Head(up[fd])
         c == m.chid
         ch == [ch_by_id[c] EXCEPT !.state = "STARTED", !.turn_no = 0]
         users == [user_by_id EXCEPT
                    ![m.id1].state = "UBATTLING", ![m.id1].chid = c,
                    ![m.id2].state = "UBATTLING", ![m.id2].chid = c]
         told == broadcast_user_changes(down, users, {m.id1, m.id2})
         replied == Send(Send(told, users[m.id1].fd, ChallengeR("ME_OK", m, TRUE)),
                         users[m.id2].fd, ChallengeR("ME_OK", m, FALSE))
         after == AfterTurn(ch, 0)
         r == TurnR(ch, after, Winner(after, NoId))
     IN  /\ Valid(m, "C_ACCEPT") /\ ch_by_id[c].state = "ASKING"
         /\ user_by_id' = users
         /\ ch_by_id' = Put(ch_by_id, c, after)
         /\ IF {ch.user1, ch.user2} \subseteq DOMAIN users
              THEN /\ down' = Send(Send(replied, users[ch.user1].fd, r),
                                   users[ch.user2].fd, r)
                   /\ UNCHANGED server
              ELSE down' = replied /\ server' = "crashed"
  /\ UNCHANGED <<user_by_fd, user_by_nick, user_cnt, drawn>>

Rejects(m) ==
  /\ Valid(m, "C_REJECT")
  /\ ch_by_id[m.chid].state = "ASKING"
  /\ ch_by_id[m.chid].user2 = m.id2

HandleReject(fd) ==
  /\ Takes(fd, "CHALLENGE")
  /\ LET m == Head(up[fd]) IN
       /\ Rejects(m)
       /\ ch_by_id' = tdelete(ch_by_id, m.chid)
       /\ down' = Send(down, user_by_id[m.id1].fd,
                       ChallengeR("REJECTED", m, FALSE))
  /\ UNCHANGED <<trees, drawn, server>>

(* The requests that are dropped without an answer: a C_CANCEL that finds  *)
(* nothing to withdraw, an answer to a challenge that has started or is    *)
(* somebody else's.                                                        *)
Effective(m) ==
  CASE m.action = "C_START" -> TRUE
    [] m.action = "C_CANCEL" -> Cancels(m)
    [] m.action = "C_ACCEPT" -> ch_by_id[m.chid].state = "ASKING"
    [] m.action = "C_REJECT" -> Rejects(m)

HandleChallengeIgnored(fd) ==
  /\ Takes(fd, "CHALLENGE")
  /\ ChallengeError(Head(up[fd])) = "ME_OK"
  /\ ~ Effective(Head(up[fd]))
  /\ UNCHANGED <<serverVars, down>>
----------------------------------------------------------------------------
(* Mutant: only user1's action is noted. *)
Noted_OneSide(ch, user, action) ==
  IF user = ch.user1 /\ ch.act1 = NoAct THEN [ch EXCEPT !.act1 = action] ELSE ch

(* handle_turn: the challenge with the sender's action noted. *)
Noted(ch, user, action) ==
  IF user = ch.user1 /\ ch.act1 = NoAct THEN [ch EXCEPT !.act1 = action]
  ELSE IF user = ch.user2 /\ ch.act2 = NoAct THEN [ch EXCEPT !.act2 = action]
  ELSE ch

TurnTaken(m) == m.chid \in DOMAIN ch_by_id /\ Known(m.user, m.key)

NotedBy(m) == Noted(ch_by_id[m.chid], m.user, m.action)

HandleTurnIgnored(fd) ==
  /\ Takes(fd, "TURN")
  /\ ~ TurnTaken(Head(up[fd]))
  /\ UNCHANGED <<serverVars, down>>

HandleTurnFirst(fd) ==
  /\ Takes(fd, "TURN")
  /\ LET m == Head(up[fd]) IN
       /\ TurnTaken(m)
       /\ ~ Acted(NotedBy(m))
       /\ ch_by_id' = Put(ch_by_id, m.chid, NotedBy(m))
  /\ UNCHANGED <<trees, drawn, server, down>>

HandleTurnJudged(fd) ==
  /\ Takes(fd, "TURN")
  /\ LET m == Head(up[fd]) IN
       /\ TurnTaken(m)
       /\ Acted(NotedBy(m))
       /\ \E damage \in Damages, bonus \in Bonuses, penalty \in Penalties :
            LET left == judge_turn(m.chid, NotedBy(m), NoId, damage, bonus,
                                   penalty)
            IN  /\ user_by_id' = left.users
                /\ ch_by_id' = left.chs
                /\ down' = left.down
                /\ server' = left.server
  /\ UNCHANGED <<user_by_fd, user_by_nick, user_cnt, drawn>>

(* handle_sendmsg: the message, its key blanked, to every user. *)
HandleSendmsg(fd) ==
  /\ Takes(fd, "SENDMSG")
  /\ LET m == Head(up[fd]) IN
       down' = IF Known(m.id, m.key)
                 THEN SendAll(down, FdsOf(user_by_id), [m EXCEPT !.key = 0])
                 ELSE down
  /\ UNCHANGED serverVars
----------------------------------------------------------------------------
(* One turn of pkt_handler's loop. *)
pkt_handler(fd) ==
  \/ HandleJoinOk(fd) \/ HandleJoinRefused(fd)
  \/ HandleQuit(fd)
  \/ HandleDisconnect(fd) \/ HandleDisconnectUnknown(fd)
  \/ HandleChallengeError(fd) \/ HandleChallengeIgnored(fd)
  \/ HandleStart(fd) \/ HandleStartNoId(fd) \/ HandleCancel(fd)
  \/ HandleAccept(fd) \/ HandleReject(fd)
  \/ HandleTurnIgnored(fd) \/ HandleTurnFirst(fd) \/ HandleTurnJudged(fd)
  \/ HandleSendmsg(fd)
=============================================================================
