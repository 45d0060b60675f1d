------------------------------- MODULE Janken -------------------------------
(***************************************************************************)
(* The whole game: the server's packet handler and the clients' sessions,  *)
(* joined by the channels of Protocol.                                     *)
(***************************************************************************)
EXTENDS Server, Client

vars == <<channels, serverVars, clientVars>>

Init == ChannelsInit /\ model_init /\ ClientInit

Next ==
  \E fd \in Fds :
    \/ pkt_handler(fd) /\ UNCHANGED clientVars
    \/ (Key(fd) \/ Receive(fd) \/ Lose(fd)) /\ UNCHANGED serverVars

Spec == Init /\ [][Next]_vars

(* The handler thread takes what is queued, from every connection's thread *)
(* in turn, and an interface takes its messages a hundred times a second.  *)
(* Whatever the handler takes, there is a handle_* for it, and no other    *)
(* step shortens up[fd] at its head.  Nothing makes a player press a key   *)
(* or a connection fail.                                                   *)
Fairness ==
  \A fd \in Fds :
    /\ WF_up(up[fd] # <<>> /\ Takes(fd, Head(up[fd]).kind))
    /\ WF_vars(Receive(fd) /\ UNCHANGED serverVars)

FairSpec == Spec /\ Fairness
----------------------------------------------------------------------------
(* TypeOK: the trees, the challenges, the sessions and the messages on     *)
(* their way have their types; every id a user or a challenge names is one *)
(* the server could have given out.                                        *)
TypeOK == ChannelsTypeOK /\ ServerTypeOK /\ ClientTypeOK

(* Safety of the server's state (server.c).                                *)

(* IndexesAgree: the three search trees hold the same users: every user is *)
(* found under its descriptor and its nickname, and the user count is      *)
(* theirs.  user_add and user_del_and_destroy keep them in step across     *)
(* refused joins, QUITs and lost connections.                              *)
IndexesAgree ==
  /\ \A id \in DOMAIN user_by_id :
       LET u == user_by_id[id] IN
       /\ u.fd \in DOMAIN user_by_fd /\ user_by_fd[u.fd] = id
       /\ u.nick \in DOMAIN user_by_nick /\ user_by_nick[u.nick] = id
  /\ \A fd \in DOMAIN user_by_fd :
       /\ user_by_fd[fd] \in DOMAIN user_by_id
       /\ user_by_id[user_by_fd[fd]].fd = fd
  /\ \A nick \in DOMAIN user_by_nick :
       /\ user_by_nick[nick] \in DOMAIN user_by_id
       /\ user_by_id[user_by_nick[nick]].nick = nick
  /\ user_cnt = Cardinality(DOMAIN user_by_id)

(* Whether a message of a kind, a refusal, or two of a kind are in q. *)
Has(q, kind) == \E i \in DOMAIN q : q[i].kind = kind

Refused(q) == \E i \in DOMAIN q : q[i].kind = "JOIN_R" /\ q[i].error # "ME_OK"

OneAtMost(q, kind) ==
  \A i, j \in DOMAIN q : q[i].kind = kind /\ q[j].kind = kind => i = j

(* JoinOnce: the dialogue of a login.  A connection has one JOIN or one    *)
(* JOIN_R on its way at most, and while it has a JOIN, or a refusal, or is *)
(* back at the nickname, the server does not know it: user_add, which      *)
(* compares an unset descriptor, need not notice a second JOIN.            *)
JoinOnce ==
  \A fd \in Fds :
    /\ OneAtMost(up[fd], "JOIN") /\ OneAtMost(down[fd], "JOIN_R")
    /\ session[fd].phase \in {"LOGIN", "RETRY"} =>
         /\ ~ Has(up[fd], "JOIN") /\ ~ Has(down[fd], "JOIN_R")
         /\ fd \notin DOMAIN user_by_fd
    /\ Has(up[fd], "JOIN") =>
         ~ Has(down[fd], "JOIN_R") /\ fd \notin DOMAIN user_by_fd
    /\ Refused(down[fd]) => fd \notin DOMAIN user_by_fd

Started(c) == c \in DOMAIN ch_by_id /\ ch_by_id[c].state = "STARTED"

Players(c) == {ch_by_id[c].user1, ch_by_id[c].user2}

(* BattlePairing: a user is battling exactly when it is a player of a      *)
(* challenge that has started, and then its chid names that challenge: so  *)
(* the battle quit_user ends is the user's own, judge_turn always finds    *)
(* both players, and no one is in two battles.                             *)
BattlePairing ==
  /\ \A id \in DOMAIN user_by_id :
       user_by_id[id].state = "UBATTLING" =>
         /\ Started(user_by_id[id].chid)
         /\ id \in Players(user_by_id[id].chid)
  /\ \A c \in DOMAIN ch_by_id :
       Started(c) =>
         \A id \in Players(c) :
           /\ id \in DOMAIN user_by_id
           /\ user_by_id[id].state = "UBATTLING"
           /\ user_by_id[id].chid = c

(* BattleSound: between two handlers a challenge is at rest.  One that is  *)
(* open shows no trace of a turn except an action that the first judge_turn *)
(* will clear; one that has started waits for at least one player and both *)
(* still have hit points.                                                  *)
BattleSound ==
  \A c \in DOMAIN ch_by_id :
    LET ch == ch_by_id[c] IN
    /\ ch.user1 # ch.user2
    /\ ~ Acted(ch)
    /\ ch.hp1 > 0 /\ ch.hp2 > 0
    /\ ch.state = "ASKING" => ch.turn_no = 0 /\ ch.hp1 = MAXHP /\ ch.hp2 = MAXHP

(* NoCrash: no handler fails an assertion about the trees or dereferences  *)
(* a user that is not there (judge_turn, user_add, user_del_and_destroy).  *)
NoCrash == server # "crashed"

(* ScoresMoveAtTheEnd: a step that changes a user's score ends a battle    *)
(* that the user was in (judge_turn).                                      *)
ScoresMoveAtTheEnd ==
  [][\A id \in DOMAIN user_by_id \cap DOMAIN user_by_id' :
       user_by_id'[id].score # user_by_id[id].score =>
         /\ user_by_id[id].state = "UBATTLING"
         /\ user_by_id[id].chid \notin DOMAIN ch_by_id'
         /\ user_by_id'[id].state = "UONLINE"]_vars
=============================================================================
