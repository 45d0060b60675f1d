---------------------------- MODULE JankenViews ----------------------------
(***************************************************************************)
(* What the clients see of the game, related to what the server holds: the *)
(* properties of Janken that need the messages still on their way.         *)
(***************************************************************************)
EXTENDS Janken

(* The session s once its interface has taken the messages of q. *)
After(s, q) ==
  LET F[i \in 0 .. Len(q)] == IF i = 0 THEN s ELSE Handled(F[i - 1], q[i])
  IN  F[Len(q)]

(* The session once its interface has taken everything sent to it so far.  *)
Settled(fd) == After(session[fd], down[fd])

(* A session the server still lists and whose interface is at work. *)
Present(fd) ==
  fd \in DOMAIN user_by_fd /\ session[fd].phase \in {"WAIT_MSG", "MAIN"}

(* RosterConverges: with the messages on their way taken, a client's user  *)
(* list is the server's: nobody is missing, stale or left behind, however  *)
(* joins (ALL_TO_ONE in handle_join, in chunks), quits, battles and their  *)
(* broadcasts interleave.                                                  *)
RosterConverges ==
  \A fd \in Fds : Present(fd) =>
    Settled(fd).user_by_id =
      {Info(id, user_by_id[id]) : id \in DOMAIN user_by_id}

Joined(fd) == Present(fd) /\ session[fd].phase = "MAIN"

(* BattleConverges: with the messages on their way taken, a client agrees  *)
(* with the server on whether it is in a battle, and then on which, on its *)
(* side, its opponent, the turn and the hit points.                        *)
BattleConverges ==
  \A fd \in Fds : Joined(fd) =>
    LET s == Settled(fd)
        u == user_by_id[user_by_fd[fd]]
        ch == ch_by_id[u.chid]
    IN  /\ s.phase = "MAIN"
        /\ (s.state = "UBATTLING") <=> (u.state = "UBATTLING")
        /\ u.state = "UBATTLING" =>
             /\ s.chid = u.chid
             /\ s.turn_no = ch.turn_no
             /\ s.is_user1 <=> (ch.user1 = s.id)
             /\ s.opponent_id \in Players(u.chid) \ {s.id}
             /\ <<s.hp, s.opponent_hp>> =
                  IF s.is_user1 THEN <<ch.hp1, ch.hp2>> ELSE <<ch.hp2, ch.hp1>>

(* The actions of a player the server has, or has coming, for challenge c. *)
ActionOf(c, id) ==
  IF id = ch_by_id[c].user1 THEN ch_by_id[c].act1 ELSE ch_by_id[c].act2

Sent(fd, c) ==
  \E i \in DOMAIN up[fd] : up[fd][i].kind = "TURN" /\ up[fd][i].chid = c

(* NobodyStuck: a player whose action the server waits for, and who has    *)
(* none on its way, is able to act once it has read its messages: gs.acted *)
(* never locks a client out of the turn the server is at.                  *)
NobodyStuck ==
  \A fd \in Fds : Joined(fd) =>
    LET u == user_by_id[user_by_fd[fd]] IN
    u.state = "UBATTLING" =>
      \/ ActionOf(u.chid, user_by_fd[fd]) # NoAct
      \/ Sent(fd, u.chid)
      \/ ~ Settled(fd).acted

(* The server is about to start a battle on fd's C_ACCEPT. *)
Accepts(fd) ==
  LET m == Head(up[fd]) IN
  /\ up[fd] # <<>> /\ m.kind = "CHALLENGE"
  /\ Valid(m, "C_ACCEPT") /\ ch_by_id[m.chid].state = "ASKING"

(* UsersOfTheChallenge: the two users a C_ACCEPT puts into battle, which   *)
(* are the ones it names, are the challenge's, though the handler compares *)
(* them with neither user1 nor user2 and the invitation it answers may     *)
(* have been withdrawn, rejected or followed by others.                    *)
UsersOfTheChallenge ==
  \A fd \in Fds : Accepts(fd) =>
    LET m == Head(up[fd]) IN
    <<ch_by_id[m.chid].user1, ch_by_id[m.chid].user2>> = <<m.id1, m.id2>>

(* ResultShown: the outcome a client prints for the last turn, computed    *)
(* from the two actions, is the change of the hit points it has on screen. *)
ResultShown ==
  \A fd \in Fds :
    (/\ session[fd].phase = "MAIN" /\ down[fd] # <<>>
     /\ Head(down[fd]).kind = "TURN_R"
     /\ ~ Head(down[fd]).fin /\ Head(down[fd]).turn_no > 1) =>
      LET s == session[fd]
          m == Head(down[fd])
          after == OnTurnR(s, m)
          result == IF s.is_user1 THEN get_turn_result(m.action1, m.action2)
                                  ELSE get_turn_result(m.action2, m.action1)
      IN  /\ (after.opponent_hp < s.opponent_hp) <=> (result = "TR_WIN")
          /\ (after.hp < s.hp) <=> (result = "TR_LOSE")

(* NamesResolve: when a client is about to print who chats, challenges or  *)
(* fights it, that user is in its list: ui_main's "<unknown>" and "-" are  *)
(* never shown.                                                            *)
NamesResolve ==
  \A fd \in Fds :
    (session[fd].phase = "MAIN" /\ down[fd] # <<>>) =>
      LET m == Head(down[fd])
          list == ListedIds(session[fd])
      IN  /\ m.kind = "SENDMSG" => m.id \in list
          /\ m.kind = "CHALLENGE" => m.id1 \in list
          /\ (m.kind = "CHALLENGE_R" /\ m.error = "ME_OK") =>
               (IF m.is_id1 THEN m.id2 ELSE m.id1) \in list
----------------------------------------------------------------------------
(* JoinAnswered: a session that waits for the answer to its JOIN gets one, *)
(* unless the server stops or the connection is lost (ui_login, WAIT_MSG). *)
JoinAnswered ==
  \A fd \in Fds :
    (session[fd].phase = "WAIT_MSG") ~>
      (session[fd].phase # "WAIT_MSG" \/ server # "running")

(* Both players of a battle wait for the result of the same turn. *)
BothWait(fd1, fd2) ==
  LET s == session[fd1]
      t == session[fd2]
  IN  /\ s.phase = "MAIN" /\ s.state = "UBATTLING" /\ s.acted
      /\ t.phase = "MAIN" /\ t.state = "UBATTLING" /\ t.acted
      /\ s.chid = t.chid /\ s.turn_no = t.turn_no

(* TurnsAreJudged: two players who have both acted do not wait for ever;   *)
(* the first of them to read the result ends it.                           *)
TurnsAreJudged ==
  \A fd1, fd2 \in Fds :
    fd1 < fd2 => (BothWait(fd1, fd2) ~> (~ BothWait(fd1, fd2) \/ server # "running"))
----------------------------------------------------------------------------
(* TurnIsExpected: "Expected next turn" (common.h:88) is what turn_no is:  *)
(* an action that handle_turn notes is one for the challenge's turn_no.    *)
(* The code does not keep it: handle_turn never compares the two, and      *)
(* where gs.acted is FALSE when ui_main begins, a player can act before it *)
(* has been told of a turn.                                                *)
TurnIsExpected ==
  \A fd \in Fds :
    (up[fd] # <<>> /\ Head(up[fd]).kind = "TURN" /\ TurnTaken(Head(up[fd]))) =>
      LET m == Head(up[fd]) IN
      NotedBy(m) # ch_by_id[m.chid] => m.turn_no = ch_by_id[m.chid].turn_no
----------------------------------------------------------------------------
(* CancelWithdraws: "press any key to cancel" (client.c:1214), which the   *)
(* code does not keep: a C_CANCEL that comes while the invitation is still *)
(* open is not answered with an error.                                     *)
CancelWithdraws ==
  \A fd \in Fds :
    LET m == Head(up[fd]) IN
    (/\ up[fd] # <<>> /\ m.kind = "CHALLENGE" /\ m.action = "C_CANCEL"
     /\ m.id1 \in DOMAIN user_by_id /\ Cancels(m)) =>
      ChallengeError(m) = "ME_OK"
=============================================================================
