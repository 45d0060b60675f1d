------------------------------ MODULE Protocol ------------------------------
(***************************************************************************)
(* What the janken server and its clients share (lib/common.h and the      *)
(* make_* functions of lib/messages.c): identifiers, the rules of a turn,  *)
(* the messages, and the two FIFO channels of every connection.            *)
(*                                                                         *)
(* A connection is named by the server's file descriptor for it.  The      *)
(* server never closes a descriptor, so a descriptor names one connection  *)
(* for the whole life of the server.                                       *)
(***************************************************************************)
EXTENDS Integers, Sequences, FiniteSets

CONSTANTS
  Fds,              \* descriptors accept() hands out
  ChIds,            \* challenge ids random() may produce
  Nicks,            \* nicknames up to nick_cmp, which ignores case
  Acts,             \* the battle actions the players press
  MAXHP,            \* hit points at the start of a battle
  Damages,          \* random() % 5 + 1
  Bonuses,          \* random() % 4 + 1
  Penalties,        \* random() % 4
  MAX_USER_COUNT,   \* users the server admits
  UCHANGE_MAX_UCNT, \* users one UCHANGE message has room for
  UINT16_MAX        \* the largest number of 16 bits; small to see it wrap

ASSUME UintAssumption == UINT16_MAX \in Nat \ {0}
ASSUME FdsAssumption == Fds \subseteq 1 .. UINT16_MAX - 1 /\ IsFiniteSet(Fds)
ASSUME ChIdsAssumption == ChIds \subseteq 1 .. UINT16_MAX - 1
ASSUME ActsAssumption == Acts \subseteq {"B_ROCK", "B_PAPER", "B_SCISSORS"}
ASSUME RuleAssumption ==
  /\ MAXHP \in Nat \ {0}
  /\ Damages \subseteq Nat \ {0}
  /\ Bonuses \subseteq Nat \ {0}
  /\ Penalties \subseteq Nat
ASSUME RoomAssumption ==
  /\ MAX_USER_COUNT \in Nat
  /\ UCHANGE_MAX_UCNT \in Nat \ {0, 1}

NoId == 0           \* the zero of a fresh id field: no user, no challenge

(* The id user_add derives from a descriptor. *)
IdOf(fd) == fd % UINT16_MAX

Ids == {IdOf(fd) : fd \in Fds}
----------------------------------------------------------------------------
(* The rules of a turn.  NoAct is a cleared acted1/acted2 flag: act1 and   *)
(* act2 mean nothing until their owner has acted.                          *)
NoAct == "NOACT"

get_turn_result(a, b) ==
  CASE <<a, b>> \in {<<"B_ROCK", "B_SCISSORS">>, <<"B_PAPER", "B_ROCK">>,
                     <<"B_SCISSORS", "B_PAPER">>} -> "TR_WIN"
    [] <<b, a>> \in {<<"B_ROCK", "B_SCISSORS">>, <<"B_PAPER", "B_ROCK">>,
                     <<"B_SCISSORS", "B_PAPER">>} -> "TR_LOSE"
    [] OTHER -> "TR_EVEN"
----------------------------------------------------------------------------
(* Messages.  A key is the random number drawn for one session; it is      *)
(* represented by the descriptor it was drawn for.                         *)
UserStates == {"UOFFLINE", "UONLINE", "UBATTLING"}

Join(nick) == [kind |-> "JOIN", nick |-> nick]

JoinR(error, id, key) ==
  [kind |-> "JOIN_R", error |-> error, id |-> id, key |-> key]

Quit(id, key) == [kind |-> "QUIT", id |-> id, key |-> key]

(* A user entry of UCHANGE; the entries of one message have distinct ids   *)
(* and are handled one by one, so their order does not matter.             *)
Info(id, user) ==
  [id |-> id, nick |-> user.nick, state |-> user.state, score |-> user.score]

Uchange(infos) == [kind |-> "UCHANGE", users |-> infos]

Challenge(action, id1, id2, chid, key) ==
  [kind |-> "CHALLENGE", action |-> action, id1 |-> id1, id2 |-> id2,
   chid |-> chid, key |-> key]

ChallengeR(error, m, is_id1) ==
  [kind |-> "CHALLENGE_R", error |-> error, id1 |-> m.id1, id2 |-> m.id2,
   chid |-> m.chid, is_id1 |-> is_id1]

Turn(user, chid, key, turn_no, action) ==
  [kind |-> "TURN", user |-> user, chid |-> chid, key |-> key,
   turn_no |-> turn_no, action |-> action]

SendMsg(id, key) == [kind |-> "SENDMSG", id |-> id, key |-> key]

(* The queue entry the connection's thread adds after its last message.    *)
Disconn == [kind |-> "EDISCONN"]

AnyId == Ids \cup {NoId}
AnyChId == ChIds \cup {NoId}
AnyKey == Fds \cup {0}
AnyAct == Acts \cup {NoAct}

Infos == [id : Ids, nick : Nicks, state : UserStates, score : Int]

Challenges ==
  [kind : {"CHALLENGE"},
   action : {"C_START", "C_CANCEL", "C_ACCEPT", "C_REJECT"},
   id1 : AnyId, id2 : AnyId, chid : AnyChId, key : AnyKey]

SendMsgs == [kind : {"SENDMSG"}, id : AnyId, key : AnyKey]

(* What a client sends, and what it is sent. *)
UpMsgs ==
  [kind : {"JOIN"}, nick : Nicks] \cup [kind : {"EDISCONN"}]
  \cup [kind : {"QUIT"}, id : AnyId, key : AnyKey]
  \cup Challenges \cup SendMsgs
  \cup [kind : {"TURN"}, user : AnyId, chid : AnyChId, key : AnyKey,
        turn_no : Nat, action : Acts]

DownMsgs ==
  [kind : {"JOIN_R"}, error : {"ME_OK", "TOOMANYUSER", "JOINTWICE", "DUPNICK",
                               "ME_OTHER"},
   id : AnyId, key : AnyKey]
  \cup [kind : {"UCHANGE"}, users : SUBSET Infos]
  \cup Challenges \cup SendMsgs
  \cup [kind : {"CHALLENGE_R"},
        error : {"ME_OK", "NXID", "ICKEY", "ENGAGED", "CHLSELF", "NXCHID",
                 "CANCELLED", "REJECTED"},
        id1 : AnyId, id2 : AnyId, chid : AnyChId, is_id1 : BOOLEAN]
  \cup [kind : {"TURN_R"}, turn_no : Nat, action1 : AnyAct, action2 : AnyAct,
        hp1 : Int, hp2 : Int, fin : BOOLEAN, winner : AnyId]
----------------------------------------------------------------------------
VARIABLES
  up,    \* up[fd]: from client to handler, in the order they were sent
  down   \* down[fd]: from handler to client's interface, likewise

channels == <<up, down>>

ChannelsInit ==
  /\ up = [fd \in Fds |-> <<>>]
  /\ down = [fd \in Fds |-> <<>>]

ChannelsTypeOK ==
  /\ up \in [Fds -> Seq(UpMsgs)]
  /\ down \in [Fds -> Seq(DownMsgs)]

(* msg_send on a channel function d. *)
Send(d, fd, m) == [d EXCEPT ![fd] = Append(@, m)]

SendAll(d, fds, m) ==
  [fd \in Fds |-> IF fd \in fds THEN Append(d[fd], m) ELSE d[fd]]

(* A search tree seen as a function of its keys: insertion or update, and  *)
(* deletion. *)
Put(f, k, v) == [x \in DOMAIN f \cup {k} |-> IF x = k THEN v ELSE f[x]]

tdelete(f, k) == [x \in DOMAIN f \ {k} |-> f[x]]

Empty == [x \in {} |-> x]

(* A search tree with keys in K and entries in V. *)
IsTree(f, K, V) == DOMAIN f \subseteq K /\ f \in [DOMAIN f -> V]
=============================================================================
