------------------------------- MODULE Client -------------------------------
(***************************************************************************)
(* The sessions of client/client.c: from the login screen (ui_login)       *)
(* through the game (ui_main) to the QUIT.  A session has one connection   *)
(* and is named by it; a client program that logs in again starts another  *)
(* session while the threads of the old one live on.  The interface thread *)
(* takes one message or one key at a time, and each is one action.         *)
(***************************************************************************)
EXTENDS Protocol

CONSTANTS
  MaxTurns,    \* bound: a player does not act in a later turn
  MaxInvites,  \* bound: C_START requests in a behaviour
  Chatters,    \* bound: the sessions that chat
  Leavers,     \* bound: the sessions whose player quits
  Fragile,     \* bound: the connections that may be lost
  UnsetActed,  \* what gs.acted may hold before ui_main has set it
  UnsetState   \* what gs.state may hold before ui_main has set it

ASSUME UnsetAssumption ==
  UnsetActed \subseteq BOOLEAN /\ UnsetState \subseteq UserStates
ASSUME BoundAssumption == MaxTurns \in Nat /\ MaxInvites \in Nat

VARIABLES
  session,     \* fd -> the interface's local state and its game_state_t
  invites      \* C_START requests so far, for the bound MaxInvites

clientVars == <<session, invites>>

(* "LOGIN": no connection yet.  "RETRY": a nickname was refused.           *)
(* "WAIT_MSG": JOIN sent.  "MAIN": in ui_main.  "DONE": ui_main has left.  *)
(* "GONE": the connection is lost.                                         *)
Phases == {"LOGIN", "RETRY", "WAIT_MSG", "MAIN", "DONE", "GONE"}

(* game_state_init.  It leaves state, acted, turn_no and is_user1 unset;   *)
(* ui_main does not read is_user1 before it is set.  It may send turn_no   *)
(* in a TURN before, but the server does not look at it there.  So a fixed *)
(* value stands for each of the two; a turn_no of 0, in which nobody acts, *)
(* is whatever a TURN carries that was sent too early.                     *)
NewSession ==
  [phase |-> "LOGIN", waiting_for |-> "W_NONE", id |-> NoId, key |-> 0,
   opponent_id |-> NoId, chid |-> NoId, hp |-> 0, opponent_hp |-> 0,
   state |-> "UOFFLINE", acted |-> TRUE, turn_no |-> 0, is_user1 |-> FALSE,
   user_by_id |-> {}]

Sessions ==
  [phase : Phases, waiting_for : {"W_NONE", "W_CANCEL", "W_ACCEPT"},
   id : AnyId, key : AnyKey, opponent_id : AnyId, chid : AnyChId,
   hp : Int, opponent_hp : Int, state : UserStates, acted : BOOLEAN,
   turn_no : Nat, is_user1 : BOOLEAN, user_by_id : SUBSET Infos]

ClientTypeOK ==
  /\ session \in [Fds -> Sessions]
  /\ invites \in Nat

ClientInit ==
  /\ session = [fd \in Fds |-> NewSession]
  /\ invites = 0
----------------------------------------------------------------------------
(* Mutant: the nickname may be entered again before the answer. *)
Login_Again(fd, nick) ==
  /\ session[fd].phase \in {"LOGIN", "RETRY", "WAIT_MSG"}
  /\ session' = [session EXCEPT ![fd].phase = "WAIT_MSG"]
  /\ up' = Send(up, fd, Join(nick))
  /\ UNCHANGED <<down, invites>>

(* ui_login: the nickname is entered and JOIN sent. *)
Login(fd, nick) ==
  /\ session[fd].phase \in {"LOGIN", "RETRY"}
  /\ session' = [session EXCEPT ![fd].phase = "WAIT_MSG"]
  /\ up' = Send(up, fd, Join(nick))
  /\ UNCHANGED <<down, invites>>

Receives(fd) ==
  /\ down[fd] # <<>>
  /\ down' = [down EXCEPT ![fd] = Tail(@)]

(* WAIT_MSG of ui_login; ui_main begins with its unset fields. *)
LoginAnswered(fd) ==
  /\ session[fd].phase = "WAIT_MSG"
  /\ Receives(fd)
  /\ LET r == Head(down[fd]) IN
       IF r.kind # "JOIN_R" THEN UNCHANGED session
       ELSE IF r.error # "ME_OK"
         THEN session' = [session EXCEPT ![fd].phase = "RETRY"]
         ELSE \E acted \in UnsetActed, state \in UnsetState :
                session' = [session EXCEPT ![fd] =
                              [NewSession EXCEPT !.phase = "MAIN", !.id = r.id,
                                                 !.key = r.key, !.acted = acted,
                                                 !.state = state]]
  /\ UNCHANGED <<up, invites>>
----------------------------------------------------------------------------
(* The cases of ui_main's message loop, as functions of the session s. *)

(* Mutant: the turn does not let the player act again. *)
OnTurnR_StaysActed(s, m) ==
  [s EXCEPT !.hp = IF s.is_user1 THEN m.hp1 ELSE m.hp2,
            !.opponent_hp = IF s.is_user1 THEN m.hp2 ELSE m.hp1,
            !.turn_no = IF m.fin THEN @ ELSE m.turn_no]

OnTurnR(s, m) ==
  [s EXCEPT !.hp = IF s.is_user1 THEN m.hp1 ELSE m.hp2,
            !.opponent_hp = IF s.is_user1 THEN m.hp2 ELSE m.hp1,
            !.turn_no = IF m.fin THEN @ ELSE m.turn_no,
            !.acted = m.fin]

(* Mutant: the opponent is set even when another popup is up. *)
OnChallenge_Overwrites(s, m) ==
  IF s.waiting_for = "W_NONE"
    THEN [s EXCEPT !.waiting_for = "W_ACCEPT", !.chid = m.chid,
                   !.opponent_id = m.id1]
    ELSE [s EXCEPT !.opponent_id = m.id1]

OnChallenge(s, m) ==
  IF s.waiting_for = "W_NONE"
    THEN [s EXCEPT !.waiting_for = "W_ACCEPT", !.chid = m.chid,
                   !.opponent_id = m.id1]
    ELSE s

(* Mutants: the side is not set; the opponent is taken from the wrong      *)
(* field.                                                                  *)
OnChallengeR_NoSide(s, m) ==
  IF m.error = "ME_OK"
    THEN [s EXCEPT !.waiting_for = "W_NONE", !.acted = TRUE, !.chid = m.chid,
                   !.state = "UBATTLING",
                   !.opponent_id = IF m.is_id1 THEN m.id2 ELSE m.id1]
    ELSE [s EXCEPT !.waiting_for = "W_NONE"]

OnChallengeR_WrongField(s, m) ==
  IF m.error = "ME_OK"
    THEN [s EXCEPT !.waiting_for = "W_NONE", !.is_user1 = m.is_id1,
                   !.acted = TRUE, !.chid = m.chid, !.state = "UBATTLING",
                   !.opponent_id = m.chid]
    ELSE [s EXCEPT !.waiting_for = "W_NONE"]

OnChallengeR(s, m) ==
  IF m.error = "ME_OK"
    THEN [s EXCEPT !.waiting_for = "W_NONE", !.is_user1 = m.is_id1,
                   !.acted = TRUE, !.chid = m.chid, !.state = "UBATTLING",
                   !.opponent_id = IF m.is_id1 THEN m.id2 ELSE m.id1]
    ELSE [s EXCEPT !.waiting_for = "W_NONE"]

(* The user list after the entries of an UCHANGE. *)
Updated(list, infos) ==
  {i \in list : \A j \in infos : j.id # i.id}
  \cup {j \in infos : j.state # "UOFFLINE"}

ListedIds(s) == {i.id : i \in s.user_by_id}

OnUchange(s, m) ==
  LET mine == {i \in m.users : i.id = s.id}
      listed == [s EXCEPT !.user_by_id = Updated(@, m.users)]
  IN  IF mine = {} THEN listed
      ELSE IF \E i \in mine : i.state = "UOFFLINE"
        THEN [s EXCEPT !.phase = "DONE"]
        ELSE [listed EXCEPT !.state = (CHOOSE i \in mine : TRUE).state]

Handled(s, m) ==
  CASE m.kind = "TURN_R" -> OnTurnR(s, m)
    [] m.kind = "CHALLENGE" -> OnChallenge(s, m)
    [] m.kind = "CHALLENGE_R" -> OnChallengeR(s, m)
    [] m.kind = "UCHANGE" -> OnUchange(s, m)
    [] OTHER -> s

(* What handling m makes the session send: a challenge that comes while    *)
(* another popup is up is rejected; the end of the session is a QUIT.      *)
Answers(s, m) ==
  CASE m.kind = "CHALLENGE" /\ s.waiting_for # "W_NONE" ->
         <<Challenge("C_REJECT", m.id1, m.id2, m.chid, s.key)>>
    [] m.kind = "UCHANGE" /\ Handled(s, m).phase = "DONE" ->
         <<Quit(s.id, s.key)>>
    [] OTHER -> <<>>

MainReceives(fd) ==
  /\ session[fd].phase = "MAIN"
  /\ Receives(fd)
  /\ session' = [session EXCEPT ![fd] = Handled(@, Head(down[fd]))]
  /\ up' = [up EXCEPT ![fd] = @ \o Answers(session[fd], Head(down[fd]))]
  /\ UNCHANGED invites

(* The receiving thread of a session that is over feeds a queue that       *)
(* nobody reads.                                                           *)
Discards(fd) ==
  /\ session[fd].phase \in {"DONE", "GONE"}
  /\ down[fd] # <<>>
  /\ down' = [down EXCEPT ![fd] = <<>>]
  /\ UNCHANGED <<up, clientVars>>
----------------------------------------------------------------------------
(* The keys of ui_main. *)
InMain(fd, popup) ==
  session[fd].phase = "MAIN" /\ session[fd].waiting_for = popup

(* UC_CHL_USER. *)
Invite(fd, id) ==
  /\ InMain(fd, "W_NONE")
  /\ invites < MaxInvites
  /\ id \in ListedIds(session[fd]) \ {session[fd].id}
  /\ session' = [session EXCEPT ![fd].waiting_for = "W_CANCEL"]
  /\ up' = Send(up, fd, Challenge("C_START", session[fd].id, id, NoId,
                                  session[fd].key))
  /\ invites' = invites + 1
  /\ UNCHANGED down

(* Any key while the invitation's popup is up. *)
Cancel(fd) ==
  /\ InMain(fd, "W_CANCEL")
  /\ session' = [session EXCEPT ![fd].waiting_for = "W_NONE"]
  /\ up' = Send(up, fd, Challenge("C_CANCEL", session[fd].id,
                                  session[fd].opponent_id, NoId,
                                  session[fd].key))
  /\ UNCHANGED <<down, invites>>

(* Y or N while a challenger's popup is up. *)
Answer(fd, action) ==
  /\ InMain(fd, "W_ACCEPT")
  /\ session' = [session EXCEPT ![fd].waiting_for = "W_NONE"]
  /\ up' = Send(up, fd, Challenge(action, session[fd].opponent_id,
                                  session[fd].id, session[fd].chid,
                                  session[fd].key))
  /\ UNCHANGED <<down, invites>>

(* Mutant: gs.acted is not set, and the player may act again. *)
Act_Again(fd, action) ==
  LET s == session[fd] IN
  /\ InMain(fd, "W_NONE")
  /\ s.state = "UBATTLING" /\ ~ s.acted
  /\ s.turn_no <= MaxTurns
  /\ up' = Send(up, fd, Turn(s.id, s.chid, s.key, s.turn_no, action))
  /\ UNCHANGED <<down, clientVars>>

(* UC_BATTLE_ACT. *)
Act(fd, action) ==
  LET s == session[fd] IN
  /\ InMain(fd, "W_NONE")
  /\ s.state = "UBATTLING" /\ ~ s.acted
  /\ s.turn_no <= MaxTurns
  /\ session' = [session EXCEPT ![fd].acted = TRUE]
  /\ up' = Send(up, fd, Turn(s.id, s.chid, s.key, s.turn_no, action))
  /\ UNCHANGED <<down, invites>>

(* A chat line of the session is on its way. *)
Chatting(fd) ==
  LET line == SendMsg(session[fd].id, session[fd].key)
      Holds(q) == \E i \in DOMAIN q : q[i].kind = "SENDMSG" /\ q[i].id = line.id
  IN  \E f \in Fds : Holds(up[f]) \/ Holds(down[f])

(* UC_SENDMSG. *)
Chat(fd) ==
  /\ InMain(fd, "W_NONE")
  /\ fd \in Chatters /\ ~ Chatting(fd)
  /\ up' = Send(up, fd, SendMsg(session[fd].id, session[fd].key))
  /\ UNCHANGED <<down, clientVars>>

(* UC_QUIT. *)
Leave(fd) ==
  /\ InMain(fd, "W_NONE")
  /\ fd \in Leavers
  /\ session' = [session EXCEPT ![fd].phase = "DONE"]
  /\ up' = Send(up, fd, Quit(session[fd].id, session[fd].key))
  /\ UNCHANGED <<down, invites>>

(* The connection breaks, or the program ends: what was not yet received   *)
(* is lost, the server's thread adds EDISCONN after the rest, and the      *)
(* interface takes UM_DISCONN, or is gone.                                 *)
Lose(fd) ==
  /\ fd \in Fragile
  /\ session[fd].phase \in Phases \ {"LOGIN", "GONE"}
  /\ session' = [session EXCEPT ![fd].phase = "GONE"]
  /\ \E n \in 0 .. Len(up[fd]) :
       up' = [up EXCEPT ![fd] = Append(SubSeq(@, 1, n), Disconn)]
  /\ UNCHANGED <<down, invites>>
----------------------------------------------------------------------------
Key(fd) ==
  \/ \E nick \in Nicks : Login(fd, nick)
  \/ \E id \in Ids : Invite(fd, id)
  \/ Cancel(fd)
  \/ \E action \in {"C_ACCEPT", "C_REJECT"} : Answer(fd, action)
  \/ \E action \in Acts : Act(fd, action)
  \/ Chat(fd)
  \/ Leave(fd)

Receive(fd) == LoginAnswered(fd) \/ MainReceives(fd) \/ Discards(fd)
=============================================================================
