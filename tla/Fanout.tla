------------------------------- MODULE Fanout -------------------------------
(***************************************************************************)
(* Whom the handlers of server.c send to, and in which order, with the     *)
(* content of the messages left out: what the threads that carry the       *)
(* messages depend on.                                                     *)
(***************************************************************************)
EXTENDS Integers, Sequences, FiniteSets

CONSTANTS
  Clients,   \* connections, by the server's descriptor
  Ways       \* bound: the ways of answering that are explored

ASSUME ClientsAssumption == Clients \subseteq Nat /\ IsFiniteSet(Clients)

ASSUME WaysAssumption == Ways \subseteq {"none", "one", "all", "turn", "start", "end"}

(* REQUEST is a CHALLENGE, a TURN or a SENDMSG; UCHANGE is what everyone   *)
(* is told (UCHANGE, SENDMSG), REPLY what one or two users are (CHALLENGE, *)
(* CHALLENGE_R, TURN_R); EDISCONN and UM_DISCONN are the news of the end   *)
(* of a connection.                                                        *)
UpKinds == {"REQUEST", "QUIT", "EDISCONN"}

DownKinds == {"UCHANGE", "REPLY", "UM_DISCONN"}

(* The sends of a handler, in order: msg to every client of a set, by id.  *)
Batch(to, msg) == [to |-> to, msg |-> msg]

ToAll(present) == IF present = {} THEN <<>> ELSE <<Batch(present, "UCHANGE")>>

ToOne(d) == <<Batch({d}, "REPLY")>>

(* The players of a challenge are told one after the other, user1 first. *)
ToBoth(p) == ToOne(p[1]) \o ToOne(p[2])

(* The challenges c may be a player of. *)
Pairs(c, present) ==
  {p \in (present \cup {c}) \X (present \cup {c}) :
     p[1] # p[2] /\ c \in {p[1], p[2]}}

(* What a handler may do with an entry of c: the batches it sends and the  *)
(* users it leaves.                                                        *)
Leaves(todo, present) == [todo |-> todo, members |-> present]

(* Mutant: the user stays in the trees. *)
Quits_Stays(c, present) == {Leaves(ToAll(present), present)}

(* What the handlers of a user's requests send: no answer, an answer to    *)
(* one user, or to all; the result of a turn, the start of a battle or its *)
(* end.                                                                    *)
Answers(way, c, present) ==
  CASE way = "none"  -> {<<>>}
    [] way = "one"   -> {ToOne(d) : d \in present \cup {c}}
    [] way = "all"   -> {ToAll(present)}
    [] way = "turn"  -> {ToBoth(p) : p \in Pairs(c, present)}
    [] way = "start" -> {(ToAll(present) \o ToBoth(p)) \o ToBoth(p) : p \in Pairs(c, present)}
    [] way = "end"   -> {ToBoth(p) \o ToAll(present) : p \in Pairs(c, present)}

(* handle_quit and handle_disconnect, without a battle or with one that    *)
(* the user forfeits; everyone is told while the user is still there.      *)
Quits(c, present) ==
  IF c \notin present THEN {Leaves(<<>>, present)}
  ELSE {Leaves(t \o ToAll(present), present \ {c}) :
          t \in UNION {Answers(way, c, present) : way \in {"none"} \cup (Ways \cap {"end"})}}

(* handle_challenge, handle_turn and handle_sendmsg. *)
Requests(c, present) ==
  {Leaves(t, present) : t \in UNION {Answers(way, c, present) : way \in Ways}}

Outcomes(c, kind, present) ==
  IF kind = "REQUEST" THEN Requests(c, present) ELSE Quits(c, present)

(* What s comes to if each of its elements e stands for the messages f[e]. *)
Flatten(s, f) ==
  LET F[i \in 0 .. Len(s)] == IF i = 0 THEN <<>> ELSE F[i - 1] \o f[s[i]]
  IN  F[Len(s)]

(* The messages for c among the batches still to be sent. *)
Batches == [to : SUBSET Clients, msg : DownKinds]

Pending(c, todo) ==
  Flatten(todo, [b \in Batches |-> IF c \in b.to THEN <<b.msg>> ELSE <<>>])
=============================================================================
