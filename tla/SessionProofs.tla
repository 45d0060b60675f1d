--------------------------- MODULE SessionProofs ---------------------------
(***************************************************************************)
(* Theorems about Session, for every capacity of the queues and of the     *)
(* sockets and any number of sessions and connections.                     *)
(***************************************************************************)
EXTENDS Session, TLAPS, SequenceTheorems

UiPhases == {"UI_INIT", "WAIT_INPUT", "TO_CONNECT", "SEND_JOIN", "WAIT_MSG",
             "MAIN", "adding", "done"}
Requests == {"JOIN", "REQUEST", "QUIT"}
Replies == {"JOIN_OK", "JOIN_ERR", "OTHER"}
Messages == Requests \cup Replies \cup {"UM_DISCONN"}
Worker(M) == [held : Seq(M \cup {"UM_DISCONN"}), run : BOOLEAN]
Workers(n) == [fd : Descriptors, queue : 1 .. n,
               in : Worker(Replies), out : Worker(Requests)]
Line == [up : Seq(Requests), down : Seq(Replies), alive : BOOLEAN]

TypeOK ==
  /\ ui \in UiPhases /\ connected \in BOOLEAN /\ fd \in Int
  /\ um_queue \in Seq(Seq(Replies \cup {"UM_DISCONN"}))
  /\ send_queue \in Seq(Seq(Requests \cup {"UM_DISCONN"}))
  /\ Len(send_queue) = Now
  /\ workers \in Seq(Workers(Now))
  /\ lines \in Seq(Line)
  /\ stage \in Seq({"new", "joined", "gone"})
  /\ Len(lines) = Len(workers) /\ Len(stage) = Len(workers)
  /\ Len(workers) <= MaxConns
  /\ table \in [Descriptors -> 0 .. MaxConns]

(* The n connections made so far have the first n descriptors. *)
Opened(n) == [d \in Descriptors |-> IF d <= n + 2 THEN d - 2 ELSE 0]

(* Where the interface is, and what it holds.  A session makes at most one *)
(* connection: before it its queues are empty, and after its end was read  *)
(* by the login screen, which closes it, no message can come any more that *)
(* would move the interface on, so the descriptor is not given out again.  *)
NotStarted == Now = 0 /\ ui = "UI_INIT" /\ ~ connected /\ workers = <<>>

NotConnected ==
  /\ Now > 0 /\ ui \in {"WAIT_INPUT", "TO_CONNECT"} /\ ~ connected
  /\ \A w \in DOMAIN workers : workers[w].queue # Now
  /\ um_queue[Now] = <<>> /\ send_queue[Now] = <<>>

HasConnection ==
  /\ Now > 0 /\ connected
  /\ workers # <<>> /\ workers[Len(workers)].queue = Now
  /\ fd = Len(workers) + 2

DeadEnd ==
  /\ Now > 0 /\ ui = "WAIT_MSG" /\ ~ connected
  /\ workers # <<>> /\ workers[Len(workers)].queue = Now
  /\ um_queue[Now] = <<>>
  /\ workers[Len(workers)].in = [held |-> <<>>, run |-> FALSE]

Screen ==
  \/ (NotStarted \/ NotConnected \/ HasConnection) /\ table = Opened(Len(workers))
  \/ DeadEnd /\ table = [Opened(Len(workers)) EXCEPT ![Len(workers) + 2] = 0]

(* OwnQueue: a worker has the descriptor of its connection, and no two of  *)
(* them have the same queue.                                               *)
OwnQueue ==
  \A w \in DOMAIN workers :
    /\ workers[w].fd = w + 2
    /\ \A v \in DOMAIN workers : workers[v].queue = workers[w].queue => v = w

Without(s, m) == \A i \in DOMAIN s : s[i] # m

(* The end of a connection is the last a worker tells. *)
OutEnds(out, sq) ==
  out.run => Without(out.held, "UM_DISCONN") /\ Without(sq, "UM_DISCONN")

InEnds(in, uq) ==
  \/ in.run /\ Without(in.held, "UM_DISCONN") /\ Without(uq, "UM_DISCONN")
  \/ ~ in.run /\ in.held = <<"UM_DISCONN">> /\ Without(uq, "UM_DISCONN")
  \/ ~ in.run /\ in.held = <<>> /\ \A i \in DOMAIN uq : uq[i] = "UM_DISCONN" => i = Len(uq)

EndIsLast ==
  \A w \in DOMAIN workers :
    LET q == workers[w].queue
    IN  OutEnds(workers[w].out, send_queue[q]) /\ InEnds(workers[w].in, um_queue[q])

(* What three buffers on the way of a message hold together, the one it    *)
(* reaches last first.                                                     *)
Nothing(x, y, z) == x = <<>> /\ y = <<>> /\ z = <<>>

One(m, x, y, z) ==
  \/ x = <<m>> /\ y = <<>> /\ z = <<>>
  \/ x = <<>> /\ y = <<m>> /\ z = <<>>
  \/ x = <<>> /\ y = <<>> /\ z = <<m>>

Asks(s) == \A i \in DOMAIN s : s[i] = "REQUEST"

Leaves(s) ==
  /\ s # <<>> /\ s[Len(s)] = "QUIT"
  /\ \A i \in DOMAIN s : i # Len(s) => s[i] = "REQUEST"

AllAsk(x, y, z) == Asks(x) /\ Asks(y) /\ Asks(z)

LastLeaves(x, y, z) ==
  \/ Leaves(x) /\ y = <<>> /\ z = <<>>
  \/ Asks(x) /\ Leaves(y) /\ z = <<>>
  \/ Asks(x) /\ Asks(y) /\ Leaves(z)

(* What is on its way over a connection in stage st: in its session, with  *)
(* the interface in phase p, and after its session.                        *)
During(p, st, u1, u2, u3, d1, d2, d3) ==
  CASE p \in {"WAIT_INPUT", "TO_CONNECT", "SEND_JOIN"} ->
         st = "new" /\ Nothing(u1, u2, u3) /\ Nothing(d1, d2, d3)
    [] p = "WAIT_MSG" ->
         \/ st = "new" /\ One("JOIN", u1, u2, u3) /\ Nothing(d1, d2, d3)
         \/ st = "new" /\ Nothing(u1, u2, u3) /\ One("JOIN_ERR", d1, d2, d3)
         \/ st = "joined" /\ Nothing(u1, u2, u3) /\ One("JOIN_OK", d1, d2, d3)
    [] OTHER -> st = "joined" /\ AllAsk(u1, u2, u3)

After(st, u1, u2, u3) ==
  \/ st = "joined" /\ LastLeaves(u1, u2, u3)
  \/ st = "gone" /\ Nothing(u1, u2, u3)

Talk(c) ==
  LET q == workers[c].queue
  IN  IF q = Now /\ ui # "UI_INIT"
        THEN During(ui, stage[c],
                    lines[c].up, workers[c].out.held, send_queue[q],
                    um_queue[q], workers[c].in.held, lines[c].down)
        ELSE After(stage[c], lines[c].up, workers[c].out.held, send_queue[q])

(* Conversation: over a living connection no worker has ended and all of   *)
(* what is on its way fits the stage the server has it in.                 *)
Conversation ==
  \A c \in DOMAIN workers : lines[c].alive =>
    workers[c].out.run /\ workers[c].in.run /\ Talk(c)

DeadIsEmpty == \A c \in DOMAIN workers : ~ lines[c].alive => lines[c].up = <<>>

(* The inductive invariant. *)
SessionInv ==
  TypeOK /\ Screen /\ OwnQueue /\ EndIsLast /\ Conversation /\ DeadIsEmpty
----------------------------------------------------------------------------
(* Sequences: taking the head, adding at the end, and adding what is held. *)
LEMMA HeadTail ==
  ASSUME NEW S, NEW s \in Seq(S), s # <<>>
  PROVE  /\ Head(s) = s[1] /\ Head(s) \in S
         /\ Tail(s) \in Seq(S) /\ Len(Tail(s)) = Len(s) - 1
         /\ DOMAIN Tail(s) = 1 .. Len(s) - 1
         /\ \A i \in DOMAIN Tail(s) : i + 1 \in DOMAIN s /\ Tail(s)[i] = s[i + 1]
  OBVIOUS

LEMMA Concat ==
  ASSUME NEW S, NEW s \in Seq(S), NEW t \in Seq(S)
  PROVE  /\ s \o t \in Seq(S) /\ Len(s \o t) = Len(s) + Len(t)
         /\ DOMAIN (s \o t) = 1 .. Len(s) + Len(t)
         /\ \A i \in DOMAIN (s \o t) :
              (s \o t)[i] = IF i <= Len(s) THEN s[i] ELSE t[i - Len(s)]
         /\ \A i \in DOMAIN (s \o t) : i > Len(s) => i - Len(s) \in DOMAIN t
         /\ \A i \in DOMAIN (s \o t) : i <= Len(s) => i \in DOMAIN s
         /\ s = <<>> => s \o t = t
         /\ t = <<>> => s \o t = s
  OBVIOUS

LEMMA Replaced ==
  ASSUME NEW S, NEW s \in Seq(S), NEW i \in DOMAIN s, NEW e \in S
  PROVE  /\ [s EXCEPT ![i] = e] \in Seq(S)
         /\ Len([s EXCEPT ![i] = e]) = Len(s)
         /\ DOMAIN [s EXCEPT ![i] = e] = DOMAIN s
         /\ [s EXCEPT ![i] = e][i] = e
         /\ \A j \in DOMAIN s : j # i => [s EXCEPT ![i] = e][j] = s[j]
  OBVIOUS

LEMMA Appended ==
  ASSUME NEW S, NEW s \in Seq(S), NEW e \in S
  PROVE  /\ Append(s, e) \in Seq(S) /\ Len(Append(s, e)) = Len(s) + 1
         /\ DOMAIN Append(s, e) = 1 .. Len(s) + 1
         /\ Append(s, e)[Len(s) + 1] = e
         /\ \A i \in DOMAIN s : i \in DOMAIN Append(s, e) /\ Append(s, e)[i] = s[i]
         /\ \A i \in DOMAIN Append(s, e) : i # Len(s) + 1 => i \in DOMAIN s
         /\ Append(s, e) # <<>>
         /\ s = <<>> => Append(s, e) = <<e>>
<1>1. /\ Append(s, e) \in Seq(S) /\ Len(Append(s, e)) = Len(s) + 1
      /\ \A i \in 1 .. Len(s) : Append(s, e)[i] = s[i]
      /\ Append(s, e)[Len(s) + 1] = e
  BY AppendProperties
<1>2. /\ DOMAIN Append(s, e) = 1 .. Len(s) + 1 /\ DOMAIN s = 1 .. Len(s)
      /\ Append(s, e) # <<>> /\ Len(s) \in Nat
  BY <1>1
<1>3. ASSUME s = <<>> PROVE Append(s, e) = <<e>>
  <2>1. Append(s, e) \in Seq(S) /\ <<e>> \in Seq(S) /\ Len(Append(s, e)) = Len(<<e>>)
    BY <1>1, <1>3
  <2>2. \A i \in 1 .. Len(<<e>>) : Append(s, e)[i] = <<e>>[i]
    BY <1>1, <1>3
  <2> QED
    BY <2>1, <2>2, SeqEqual
<1> QED
  BY <1>1, <1>2, <1>3

LEMMA Single ==
  ASSUME NEW S, NEW e \in S
  PROVE  /\ <<e>> \in Seq(S) /\ Len(<<e>>) = 1 /\ DOMAIN <<e>> = {1} /\ <<e>>[1] = e
         /\ <<e>> # <<>> /\ Head(<<e>>) = e /\ Tail(<<e>>) = <<>>
         /\ \A f : <<e>> = <<f>> => e = f
  OBVIOUS

LEMMA EmptySequence ==
  ASSUME NEW S
  PROVE  <<>> \in Seq(S) /\ Len(<<>>) = 0 /\ DOMAIN <<>> = {}
         /\ \A s \in Seq(S) : (s = <<>>) <=> (Len(s) = 0)
  OBVIOUS

LEMMA SeqIndex ==
  ASSUME NEW S, NEW s \in Seq(S)
  PROVE  Len(s) \in Nat /\ DOMAIN s = 1 .. Len(s) /\ \A i \in DOMAIN s : s[i] \in S
  OBVIOUS
----------------------------------------------------------------------------
(* What that does to requests, to a QUIT after them, and to the absence of *)
(* a message.                                                              *)
LEMMA WithoutKept ==
  ASSUME NEW S, NEW s \in Seq(S), NEW m, Without(s, m)
  PROVE  /\ s # <<>> => Without(Tail(s), m)
         /\ \A e \in S : e # m => Without(Append(s, e), m)
         /\ \A t \in Seq(S) : Without(t, m) => Without(s \o t, m)
<1>1. s # <<>> => Without(Tail(s), m)
  BY HeadTail DEF Without
<1>2. ASSUME NEW e \in S, e # m PROVE Without(Append(s, e), m)
  BY <1>2, Appended DEF Without
<1>3. ASSUME NEW t \in Seq(S), Without(t, m) PROVE Without(s \o t, m)
  <2> SUFFICES ASSUME NEW i \in DOMAIN (s \o t) PROVE (s \o t)[i] # m
    BY DEF Without
  <2> QED
    BY <1>3, Concat, SeqIndex DEF Without
<1> QED
  BY <1>1, <1>2, <1>3

LEMMA OnlyLast ==
  ASSUME NEW S, NEW s \in Seq(S), NEW m \in S, Without(s, m)
  PROVE  \A i \in DOMAIN (s \o <<m>>) : (s \o <<m>>)[i] = m => i = Len(s \o <<m>>)
<1>1. <<m>> \in Seq(S) /\ Len(<<m>>) = 1 /\ Len(s) \in Nat
  BY Single, SeqIndex
<1>2. SUFFICES ASSUME NEW i \in DOMAIN (s \o <<m>>), (s \o <<m>>)[i] = m
               PROVE  i = Len(s \o <<m>>)
  OBVIOUS
<1>3. /\ Len(s \o <<m>>) = Len(s) + Len(<<m>>)
      /\ DOMAIN (s \o <<m>>) = 1 .. Len(s) + Len(<<m>>)
      /\ i <= Len(s) => i \in DOMAIN s
      /\ (s \o <<m>>)[i] = IF i <= Len(s) THEN s[i] ELSE <<m>>[i - Len(s)]
  BY <1>1, Concat
<1>4. ~ (i <= Len(s))
  BY <1>2, <1>3 DEF Without
<1> QED
  BY <1>1, <1>3, <1>4

LEMMA AsksKept ==
  ASSUME NEW S, NEW s \in Seq(S), Asks(s), "REQUEST" \in S, "QUIT" \in S
  PROVE  /\ s # <<>> => Head(s) = "REQUEST" /\ Asks(Tail(s)) /\ Asks(<<Head(s)>>)
         /\ Asks(Append(s, "REQUEST")) /\ Leaves(Append(s, "QUIT"))
         /\ \A t \in Seq(S) : Asks(t) => Asks(s \o t)
         /\ \A t \in Seq(S) : Leaves(t) => Leaves(s \o t)
<1>1. s # <<>> => Head(s) = "REQUEST" /\ Asks(Tail(s)) /\ Asks(<<Head(s)>>)
  BY HeadTail, Single, SeqIndex DEF Asks
<1>2. Asks(Append(s, "REQUEST")) /\ Leaves(Append(s, "QUIT"))
  BY Appended DEF Asks, Leaves
<1>3. ASSUME NEW t \in Seq(S) PROVE Asks(t) => Asks(s \o t)
  <2> SUFFICES ASSUME Asks(t), NEW i \in DOMAIN (s \o t) PROVE (s \o t)[i] = "REQUEST"
    BY DEF Asks
  <2> QED
    BY Concat, SeqIndex DEF Asks
<1>4. ASSUME NEW t \in Seq(S), Leaves(t) PROVE Leaves(s \o t)
  <2>1. Len(t) \in Nat \ {0} /\ Len(s) \in Nat
    BY <1>4, SeqIndex, EmptySequence DEF Leaves
  <2>2. s \o t # <<>> /\ (s \o t)[Len(s \o t)] = "QUIT"
    BY <1>4, <2>1, Concat, EmptySequence DEF Leaves
  <2>3. ASSUME NEW i \in DOMAIN (s \o t), i # Len(s \o t) PROVE (s \o t)[i] = "REQUEST"
    <3>1. /\ (s \o t)[i] = IF i <= Len(s) THEN s[i] ELSE t[i - Len(s)]
          /\ i > Len(s) => i - Len(s) \in DOMAIN t
          /\ i <= Len(s) => i \in DOMAIN s
          /\ Len(s \o t) = Len(s) + Len(t)
          /\ DOMAIN (s \o t) = 1 .. Len(s) + Len(t)
      BY Concat
    <3>2. i \in Nat /\ (i > Len(s) => i - Len(s) # Len(t))
      BY <2>1, <2>3, <3>1
    <3> QED
      BY <1>4, <2>1, <3>1, <3>2 DEF Leaves, Asks
  <2> QED
    BY <2>2, <2>3 DEF Leaves
<1> QED
  BY <1>1, <1>2, <1>3, <1>4

LEMMA LeavesTaken ==
  ASSUME NEW S, NEW s \in Seq(S), Leaves(s)
  PROVE  \/ Head(s) = "REQUEST" /\ Leaves(Tail(s)) /\ Asks(<<Head(s)>>)
         \/ Head(s) = "QUIT" /\ Tail(s) = <<>> /\ Leaves(<<Head(s)>>)
<1>1. s # <<>> /\ Len(s) \in Nat \ {0} /\ DOMAIN s = 1 .. Len(s) /\ Head(s) \in S
  BY SeqIndex, EmptySequence, HeadTail DEF Leaves
<1>2. CASE Len(s) = 1
  <2>1. Head(s) = "QUIT" /\ Tail(s) = <<>>
    BY <1>1, <1>2, HeadTail, EmptySequence DEF Leaves
  <2>2. Leaves(<<Head(s)>>)
    BY <1>1, <2>1, Single DEF Leaves
  <2> QED
    BY <2>1, <2>2
<1>3. CASE Len(s) # 1
  <2>1. Head(s) = "REQUEST"
    BY <1>1, <1>3, HeadTail DEF Leaves
  <2>2. Asks(<<Head(s)>>)
    BY <1>1, <2>1, Single DEF Asks
  <2>3. Tail(s) # <<>> /\ Tail(s)[Len(Tail(s))] = "QUIT"
    BY <1>1, <1>3, HeadTail, EmptySequence DEF Leaves
  <2>4. ASSUME NEW i \in DOMAIN Tail(s), i # Len(Tail(s)) PROVE Tail(s)[i] = "REQUEST"
    BY <1>1, <2>4, HeadTail DEF Leaves
  <2> QED
    BY <2>1, <2>2, <2>3, <2>4 DEF Leaves
<1> QED
  BY <1>2, <1>3
----------------------------------------------------------------------------
(* Three buffers x, y, z, z being filled and x emptied: a message goes     *)
(* from z to the free y, from y to x, out of x and into z.                 *)
LEMMA ZToY ==
  ASSUME NEW S, NEW x \in Seq(S), NEW z \in Seq(S), z # <<>>,
         "REQUEST" \in S, "QUIT" \in S
  PROVE  /\ ~ Nothing(x, <<>>, z)
         /\ \A m \in S : One(m, x, <<>>, z) => One(m, x, <<Head(z)>>, Tail(z))
         /\ AllAsk(x, <<>>, z) => AllAsk(x, <<Head(z)>>, Tail(z))
         /\ LastLeaves(x, <<>>, z) => LastLeaves(x, <<Head(z)>>, Tail(z))
<1>1. ASSUME NEW m \in S, One(m, x, <<>>, z) PROVE One(m, x, <<Head(z)>>, Tail(z))
  <2>1. x = <<>> /\ z = <<m>>
    BY <1>1, Single DEF One
  <2> QED
    BY <2>1, Single DEF One
<1>2. AllAsk(x, <<>>, z) => AllAsk(x, <<Head(z)>>, Tail(z))
  BY AsksKept DEF AllAsk
<1>3. LastLeaves(x, <<>>, z) => LastLeaves(x, <<Head(z)>>, Tail(z))
  <2>1. ~ Leaves(<<>>)
    BY DEF Leaves
  <2> QED
    BY <2>1, LeavesTaken DEF LastLeaves
<1> QED
  BY <1>1, <1>2, <1>3 DEF Nothing

LEMMA YToX ==
  ASSUME NEW S, NEW x \in Seq(S), NEW y \in Seq(S), NEW z, y # <<>>,
         "REQUEST" \in S, "QUIT" \in S
  PROVE  /\ ~ Nothing(x, y, z)
         /\ \A m \in S : One(m, x, y, z) => One(m, x \o y, <<>>, z)
         /\ AllAsk(x, y, z) => AllAsk(x \o y, <<>>, z)
         /\ LastLeaves(x, y, z) => LastLeaves(x \o y, <<>>, z)
<1>1. ASSUME NEW m \in S, One(m, x, y, z) PROVE One(m, x \o y, <<>>, z)
  <2>1. x = <<>> /\ y = <<m>> /\ z = <<>>
    BY <1>1 DEF One
  <2>2. x \o y = y
    BY <2>1, Concat
  <2> QED
    BY <2>1, <2>2 DEF One
<1>2. Asks(<<>>)
  BY EmptySequence DEF Asks
<1>3. AllAsk(x, y, z) => AllAsk(x \o y, <<>>, z)
  BY <1>2, AsksKept DEF AllAsk
<1>4. LastLeaves(x, y, z) => LastLeaves(x \o y, <<>>, z)
  BY <1>2, AsksKept DEF LastLeaves
<1> QED
  BY <1>1, <1>3, <1>4 DEF Nothing

LEMMA OutOfX ==
  ASSUME NEW S, NEW x \in Seq(S), NEW y, NEW z, x # <<>>,
         "REQUEST" \in S, "QUIT" \in S
  PROVE  /\ ~ Nothing(x, y, z)
         /\ \A m \in S : One(m, x, y, z) => Head(x) = m /\ Nothing(Tail(x), y, z)
         /\ AllAsk(x, y, z) => Head(x) = "REQUEST" /\ AllAsk(Tail(x), y, z)
         /\ LastLeaves(x, y, z) =>
              \/ Head(x) = "REQUEST" /\ LastLeaves(Tail(x), y, z)
              \/ Head(x) = "QUIT" /\ Nothing(Tail(x), y, z)
<1>1. ASSUME NEW m \in S, One(m, x, y, z) PROVE Head(x) = m /\ Nothing(Tail(x), y, z)
  BY <1>1, Single DEF One, Nothing
<1>2. AllAsk(x, y, z) => Head(x) = "REQUEST" /\ AllAsk(Tail(x), y, z)
  BY AsksKept DEF AllAsk
<1>3. LastLeaves(x, y, z) =>
        \/ Head(x) = "REQUEST" /\ LastLeaves(Tail(x), y, z)
        \/ Head(x) = "QUIT" /\ Nothing(Tail(x), y, z)
  BY LeavesTaken, AsksKept DEF LastLeaves, Nothing
<1> QED
  BY <1>1, <1>2, <1>3 DEF Nothing

LEMMA IntoZ ==
  ASSUME NEW S, NEW x, NEW y, NEW z \in Seq(S), "REQUEST" \in S, "QUIT" \in S
  PROVE  /\ \A m \in S : Nothing(x, y, z) => One(m, x, y, Append(z, m))
         /\ AllAsk(x, y, z) => AllAsk(x, y, Append(z, "REQUEST"))
         /\ AllAsk(x, y, z) => LastLeaves(x, y, Append(z, "QUIT"))
<1>1. \A m \in S : Nothing(x, y, z) => One(m, x, y, Append(z, m))
  BY Appended DEF Nothing, One
<1> QED
  BY <1>1, AsksKept DEF AllAsk, LastLeaves

(* Taking from z into y, or from y into x, changes nothing in the          *)
(* conversation, in either direction.                                      *)
LEMMA ConversationMoves ==
  ASSUME NEW p, NEW st,
         NEW u1 \in Seq(Messages), NEW u2 \in Seq(Messages), NEW u3 \in Seq(Messages),
         NEW d1 \in Seq(Messages), NEW d2 \in Seq(Messages), NEW d3 \in Seq(Messages)
  PROVE  /\ u2 = <<>> /\ u3 # <<>> =>
              /\ During(p, st, u1, u2, u3, d1, d2, d3)
                   => During(p, st, u1, <<Head(u3)>>, Tail(u3), d1, d2, d3)
              /\ After(st, u1, u2, u3) => After(st, u1, <<Head(u3)>>, Tail(u3))
         /\ u2 # <<>> =>
              /\ During(p, st, u1, u2, u3, d1, d2, d3)
                   => During(p, st, u1 \o u2, <<>>, u3, d1, d2, d3)
              /\ After(st, u1, u2, u3) => After(st, u1 \o u2, <<>>, u3)
         /\ d2 = <<>> /\ d3 # <<>> =>
              (During(p, st, u1, u2, u3, d1, d2, d3)
                 => During(p, st, u1, u2, u3, d1, <<Head(d3)>>, Tail(d3)))
         /\ d2 # <<>> =>
              (During(p, st, u1, u2, u3, d1, d2, d3)
                 => During(p, st, u1, u2, u3, d1 \o d2, <<>>, d3))
<1>1. /\ "REQUEST" \in Messages /\ "QUIT" \in Messages /\ "JOIN" \in Messages
      /\ "JOIN_OK" \in Messages /\ "JOIN_ERR" \in Messages
  BY DEF Messages, Requests, Replies
<1>2. ASSUME u2 = <<>>, u3 # <<>>
      PROVE  /\ ~ Nothing(u1, u2, u3)
             /\ One("JOIN", u1, u2, u3) => One("JOIN", u1, <<Head(u3)>>, Tail(u3))
             /\ AllAsk(u1, u2, u3) => AllAsk(u1, <<Head(u3)>>, Tail(u3))
             /\ LastLeaves(u1, u2, u3) => LastLeaves(u1, <<Head(u3)>>, Tail(u3))
  BY <1>1, <1>2, ZToY
<1>3. ASSUME u2 # <<>>
      PROVE  /\ ~ Nothing(u1, u2, u3)
             /\ One("JOIN", u1, u2, u3) => One("JOIN", u1 \o u2, <<>>, u3)
             /\ AllAsk(u1, u2, u3) => AllAsk(u1 \o u2, <<>>, u3)
             /\ LastLeaves(u1, u2, u3) => LastLeaves(u1 \o u2, <<>>, u3)
  BY <1>1, <1>3, YToX
<1>4. ASSUME d2 = <<>>, d3 # <<>>
      PROVE  /\ ~ Nothing(d1, d2, d3)
             /\ One("JOIN_OK", d1, d2, d3) => One("JOIN_OK", d1, <<Head(d3)>>, Tail(d3))
             /\ One("JOIN_ERR", d1, d2, d3) => One("JOIN_ERR", d1, <<Head(d3)>>, Tail(d3))
  BY <1>1, <1>4, ZToY
<1>5. ASSUME d2 # <<>>
      PROVE  /\ ~ Nothing(d1, d2, d3)
             /\ One("JOIN_OK", d1, d2, d3) => One("JOIN_OK", d1 \o d2, <<>>, d3)
             /\ One("JOIN_ERR", d1, d2, d3) => One("JOIN_ERR", d1 \o d2, <<>>, d3)
  BY <1>1, <1>5, YToX
<1>6. u2 = <<>> /\ u3 # <<>> =>
        /\ During(p, st, u1, u2, u3, d1, d2, d3)
             => During(p, st, u1, <<Head(u3)>>, Tail(u3), d1, d2, d3)
        /\ After(st, u1, u2, u3) => After(st, u1, <<Head(u3)>>, Tail(u3))
  BY <1>2 DEF During, After
<1>7. u2 # <<>> =>
        /\ During(p, st, u1, u2, u3, d1, d2, d3)
             => During(p, st, u1 \o u2, <<>>, u3, d1, d2, d3)
        /\ After(st, u1, u2, u3) => After(st, u1 \o u2, <<>>, u3)
  BY <1>3 DEF During, After
<1>8. d2 = <<>> /\ d3 # <<>> =>
        (During(p, st, u1, u2, u3, d1, d2, d3)
           => During(p, st, u1, u2, u3, d1, <<Head(d3)>>, Tail(d3)))
  BY <1>4 DEF During
<1>9. d2 # <<>> =>
        (During(p, st, u1, u2, u3, d1, d2, d3)
           => During(p, st, u1, u2, u3, d1 \o d2, <<>>, d3))
  BY <1>5 DEF During
<1> QED
  BY <1>6, <1>7, <1>8, <1>9
----------------------------------------------------------------------------
(* The parts of a state of the right type. *)
LEMMA Parts ==
  ASSUME TypeOK
  PROVE  /\ Now \in Nat /\ DOMAIN um_queue = 1 .. Now /\ DOMAIN send_queue = 1 .. Now
         /\ Len(workers) \in Nat /\ DOMAIN workers = 1 .. Len(workers)
         /\ DOMAIN lines = DOMAIN workers /\ DOMAIN stage = DOMAIN workers
         /\ \A w \in DOMAIN workers :
              /\ workers[w] \in Workers(Now) /\ lines[w] \in Line
              /\ workers[w].queue \in 1 .. Now
              /\ workers[w].in \in Worker(Replies) /\ workers[w].out \in Worker(Requests)
         /\ \A q \in 1 .. Now :
              /\ um_queue[q] \in Seq(Replies \cup {"UM_DISCONN"})
              /\ send_queue[q] \in Seq(Requests \cup {"UM_DISCONN"})
<1>1. /\ Now \in Nat /\ DOMAIN um_queue = 1 .. Now /\ DOMAIN send_queue = 1 .. Now
      /\ \A q \in 1 .. Now :
           /\ um_queue[q] \in Seq(Replies \cup {"UM_DISCONN"})
           /\ send_queue[q] \in Seq(Requests \cup {"UM_DISCONN"})
  BY SeqIndex DEF TypeOK, Now
<1>2. /\ Len(workers) \in Nat /\ DOMAIN workers = 1 .. Len(workers)
      /\ \A w \in DOMAIN workers : workers[w] \in Workers(Now)
  BY SeqIndex DEF TypeOK
<1>3. /\ DOMAIN lines = DOMAIN workers /\ DOMAIN stage = DOMAIN workers
      /\ \A w \in DOMAIN workers : lines[w] \in Line
  BY <1>2, SeqIndex DEF TypeOK
<1>4. \A w \in DOMAIN workers :
        /\ workers[w].queue \in 1 .. Now
        /\ workers[w].in \in Worker(Replies) /\ workers[w].out \in Worker(Requests)
  BY <1>2 DEF Workers
<1> QED
  BY <1>1, <1>2, <1>3, <1>4

(* A step of a worker or of the server: it changes what belongs to one     *)
(* connection, and leaves the interface and the descriptors alone.         *)
LocalStep(w, in, out, u, d, a, st, sq, uq) ==
  LET q == workers[w].queue
      s == workers[w]
  IN  /\ in \in Worker(Replies) /\ out \in Worker(Requests)
      /\ u \in Seq(Requests) /\ d \in Seq(Replies) /\ a \in BOOLEAN
      /\ st \in {"new", "joined", "gone"}
      /\ sq \in Seq(Requests \cup {"UM_DISCONN"})
      /\ uq \in Seq(Replies \cup {"UM_DISCONN"})
      /\ UNCHANGED <<uiVars, table>>
      /\ workers' = [workers EXCEPT ![w] = [fd |-> s.fd, queue |-> q, in |-> in, out |-> out]]
      /\ lines' = [lines EXCEPT ![w] = [up |-> u, down |-> d, alive |-> a]]
      /\ stage' = [stage EXCEPT ![w] = st]
      /\ send_queue' = [send_queue EXCEPT ![q] = sq]
      /\ um_queue' = [um_queue EXCEPT ![q] = uq]

LocalChange(w, in, out, u, d, a, st, sq, uq) ==
  /\ Now' = Now
  /\ Len(workers') = Len(workers) /\ DOMAIN workers' = DOMAIN workers
  /\ \A v \in DOMAIN workers :
       workers'[v].fd = workers[v].fd /\ workers'[v].queue = workers[v].queue
  /\ \A v \in DOMAIN workers : v # w =>
       workers'[v] = workers[v] /\ lines'[v] = lines[v] /\ stage'[v] = stage[v]
  /\ workers'[w].in = in /\ workers'[w].out = out
  /\ lines'[w].up = u /\ lines'[w].down = d /\ lines'[w].alive = a
  /\ stage'[w] = st
  /\ send_queue'[workers[w].queue] = sq /\ um_queue'[workers[w].queue] = uq
  /\ \A q \in 1 .. Now : q # workers[w].queue =>
       send_queue'[q] = send_queue[q] /\ um_queue'[q] = um_queue[q]

LEMMA LocalStepType ==
  ASSUME TypeOK, NEW w \in DOMAIN workers,
         NEW in, NEW out, NEW u, NEW d, NEW a, NEW st, NEW sq, NEW uq,
         LocalStep(w, in, out, u, d, a, st, sq, uq)
  PROVE  TypeOK' /\ LocalChange(w, in, out, u, d, a, st, sq, uq)
<1> DEFINE q == workers[w].queue
           new == [fd |-> workers[w].fd, queue |-> q, in |-> in, out |-> out]
           line == [up |-> u, down |-> d, alive |-> a]
<1>1. /\ w \in DOMAIN workers /\ w \in DOMAIN lines /\ w \in DOMAIN stage
      /\ q \in 1 .. Now /\ q \in DOMAIN send_queue /\ q \in DOMAIN um_queue
      /\ workers[w] \in Workers(Now)
  BY Parts
<1>2. /\ workers' = [workers EXCEPT ![w] = new] /\ lines' = [lines EXCEPT ![w] = line]
      /\ stage' = [stage EXCEPT ![w] = st]
      /\ send_queue' = [send_queue EXCEPT ![q] = sq]
      /\ um_queue' = [um_queue EXCEPT ![q] = uq]
      /\ ui' = ui /\ connected' = connected /\ fd' = fd /\ table' = table
      /\ in \in Worker(Replies) /\ out \in Worker(Requests)
      /\ u \in Seq(Requests) /\ d \in Seq(Replies) /\ a \in BOOLEAN
      /\ st \in {"new", "joined", "gone"}
      /\ sq \in Seq(Requests \cup {"UM_DISCONN"})
      /\ uq \in Seq(Replies \cup {"UM_DISCONN"})
  BY DEF LocalStep, uiVars
<1>3. new \in Workers(Now) /\ line \in Line
  BY <1>1, <1>2 DEF Workers, Line
<1>4. /\ new.fd = workers[w].fd /\ new.queue = q /\ new.in = in /\ new.out = out
      /\ line.up = u /\ line.down = d /\ line.alive = a
  OBVIOUS
<1>5. /\ workers' \in Seq(Workers(Now)) /\ Len(workers') = Len(workers)
      /\ DOMAIN workers' = DOMAIN workers /\ workers'[w] = new
      /\ \A v \in DOMAIN workers : v # w => workers'[v] = workers[v]
  <2> HIDE DEF new
  <2> QED
    BY <1>1, <1>2, <1>3, Replaced DEF TypeOK
<1>6. /\ lines' \in Seq(Line) /\ Len(lines') = Len(lines) /\ lines'[w] = line
      /\ \A v \in DOMAIN lines : v # w => lines'[v] = lines[v]
  <2> HIDE DEF line
  <2> QED
    BY <1>1, <1>2, <1>3, Replaced DEF TypeOK
<1>7. /\ stage' \in Seq({"new", "joined", "gone"}) /\ Len(stage') = Len(stage)
      /\ stage'[w] = st
      /\ \A v \in DOMAIN stage : v # w => stage'[v] = stage[v]
  BY <1>1, <1>2, Replaced DEF TypeOK
<1>8. /\ send_queue' \in Seq(Seq(Requests \cup {"UM_DISCONN"}))
      /\ Len(send_queue') = Len(send_queue) /\ send_queue'[q] = sq
      /\ \A r \in DOMAIN send_queue : r # q => send_queue'[r] = send_queue[r]
  <2> HIDE DEF q
  <2> QED
    BY <1>1, <1>2, Replaced DEF TypeOK
<1>9. /\ um_queue' \in Seq(Seq(Replies \cup {"UM_DISCONN"}))
      /\ Len(um_queue') = Len(um_queue) /\ um_queue'[q] = uq
      /\ \A r \in DOMAIN um_queue : r # q => um_queue'[r] = um_queue[r]
  <2> HIDE DEF q
  <2> QED
    BY <1>1, <1>2, Replaced DEF TypeOK
<1>10. Now' = Now
  BY <1>9 DEF Now
<1> HIDE DEF new, line, q
<1>11. TypeOK'
  BY <1>2, <1>5, <1>6, <1>7, <1>8, <1>9, <1>10 DEF TypeOK
<1>12. \A v \in DOMAIN workers :
         workers'[v].fd = workers[v].fd /\ workers'[v].queue = workers[v].queue
  BY <1>4, <1>5 DEF q
<1>13. \A v \in DOMAIN workers : v # w =>
         workers'[v] = workers[v] /\ lines'[v] = lines[v] /\ stage'[v] = stage[v]
  BY <1>5, <1>6, <1>7, Parts
<1>14. \A r \in 1 .. Now : r # q => send_queue'[r] = send_queue[r] /\ um_queue'[r] = um_queue[r]
  BY <1>8, <1>9, Parts
<1> QED
  BY <1>4, <1>5, <1>6, <1>7, <1>8, <1>9, <1>10, <1>11, <1>12, <1>13, <1>14 DEF q, LocalChange

LEMMA LocalStepInv ==
  ASSUME SessionInv, NEW w \in DOMAIN workers,
         NEW in, NEW out, NEW u, NEW d, NEW a, NEW st, NEW sq, NEW uq,
         LocalStep(w, in, out, u, d, a, st, sq, uq),
         DeadEnd /\ w = Len(workers) =>
           in = workers[w].in /\ uq = um_queue[workers[w].queue],
         OutEnds(out, sq), InEnds(in, uq), ~ a => u = <<>>,
         a => /\ out.run /\ in.run
              /\ IF workers[w].queue = Now /\ ui # "UI_INIT"
                   THEN During(ui, st, u, out.held, sq, uq, in.held, d)
                   ELSE After(st, u, out.held, sq)
  PROVE  SessionInv'
<1>1. TypeOK /\ Screen /\ OwnQueue /\ EndIsLast /\ Conversation /\ DeadIsEmpty
  BY DEF SessionInv
<1>2. TypeOK' /\ LocalChange(w, in, out, u, d, a, st, sq, uq)
  BY <1>1, LocalStepType
<1>3. /\ ui' = ui /\ connected' = connected /\ fd' = fd /\ table' = table
      /\ Now' = Now /\ Len(workers') = Len(workers) /\ DOMAIN workers' = DOMAIN workers
      /\ \A v \in DOMAIN workers :
           workers'[v].fd = workers[v].fd /\ workers'[v].queue = workers[v].queue
  BY <1>2 DEF LocalChange, LocalStep, uiVars
<1>4. /\ workers'[w].in = in /\ workers'[w].out = out /\ workers'[w].queue = workers[w].queue
      /\ lines'[w].up = u /\ lines'[w].down = d /\ lines'[w].alive = a /\ stage'[w] = st
      /\ send_queue'[workers[w].queue] = sq /\ um_queue'[workers[w].queue] = uq
  BY <1>2 DEF LocalChange
<1>5. /\ Now \in Nat /\ Len(workers) \in Nat /\ DOMAIN workers = 1 .. Len(workers)
      /\ \A v \in DOMAIN workers : workers[v].queue \in 1 .. Now
  BY <1>1, Parts
<1>6. \A r \in 1 .. Now : r # workers[w].queue =>
        send_queue'[r] = send_queue[r] /\ um_queue'[r] = um_queue[r]
  BY <1>2 DEF LocalChange
<1>7. ASSUME NEW v \in DOMAIN workers, v # w
      PROVE  /\ workers'[v] = workers[v] /\ lines'[v] = lines[v] /\ stage'[v] = stage[v]
             /\ send_queue'[workers[v].queue] = send_queue[workers[v].queue]
             /\ um_queue'[workers[v].queue] = um_queue[workers[v].queue]
  <2>1. workers'[v] = workers[v] /\ lines'[v] = lines[v] /\ stage'[v] = stage[v]
    BY <1>2, <1>7 DEF LocalChange
  <2>2. workers[v].queue # workers[w].queue
    BY <1>1, <1>7 DEF OwnQueue
  <2> QED
    BY <1>5, <1>6, <2>1, <2>2
<1>8. workers # <<>> /\ workers' # <<>> /\ Len(workers) \in DOMAIN workers
  BY <1>3, <1>5, EmptySequence
<1>9. Screen'
  <2>1. ASSUME NotConnected PROVE NotConnected'
    <3>1. workers[w].queue # Now /\ Now \in 1 .. Now
      BY <1>5, <2>1 DEF NotConnected
    <3>2. um_queue'[Now] = um_queue[Now] /\ send_queue'[Now] = send_queue[Now]
      BY <1>6, <3>1
    <3> QED
      BY <1>3, <2>1, <3>2 DEF NotConnected
  <2>2. ASSUME HasConnection PROVE HasConnection'
    BY <1>3, <1>8, <2>2 DEF HasConnection
  <2>3. ASSUME DeadEnd PROVE DeadEnd'
    <3>1. CASE w = Len(workers)
      <4>1. in = workers[w].in /\ uq = um_queue[workers[w].queue]
        BY <2>3, <3>1
      <4>2. workers'[Len(workers')].in = [held |-> <<>>, run |-> FALSE]
        BY <1>3, <1>4, <2>3, <3>1, <4>1 DEF DeadEnd
      <4>3. um_queue'[Now'] = <<>>
        BY <1>3, <1>4, <2>3, <3>1, <4>1 DEF DeadEnd
      <4> QED
        BY <1>3, <1>8, <2>3, <4>2, <4>3 DEF DeadEnd
    <3>2. CASE w # Len(workers)
      <4>1. /\ workers'[Len(workers)] = workers[Len(workers)]
            /\ um_queue'[workers[Len(workers)].queue] = um_queue[workers[Len(workers)].queue]
        BY <1>7, <1>8, <3>2
      <4> QED
        BY <1>3, <1>8, <2>3, <4>1 DEF DeadEnd
    <3> QED
      BY <3>1, <3>2
  <2>4. ~ NotStarted
    BY <1>8 DEF NotStarted
  <2>5. Opened(Len(workers))' = Opened(Len(workers))
    BY <1>3 DEF Opened
  <2>6. /\ table' = table
        /\ [Opened(Len(workers)) EXCEPT ![Len(workers) + 2] = 0]'
             = [Opened(Len(workers)) EXCEPT ![Len(workers) + 2] = 0]
    BY <1>3, <2>5
  <2> QED
    BY <1>1, <2>1, <2>2, <2>3, <2>4, <2>5, <2>6 DEF Screen
<1>10. OwnQueue'
  BY <1>1, <1>3 DEF OwnQueue
<1>11. EndIsLast'
  <2> SUFFICES ASSUME NEW v \in DOMAIN workers
               PROVE  /\ OutEnds(workers'[v].out, send_queue'[workers'[v].queue])
                      /\ InEnds(workers'[v].in, um_queue'[workers'[v].queue])
    BY <1>3 DEF EndIsLast
  <2>1. CASE v = w
    BY <1>4, <2>1, Zenon
  <2>2. CASE v # w
    <3>1. /\ OutEnds(workers[v].out, send_queue[workers[v].queue])
          /\ InEnds(workers[v].in, um_queue[workers[v].queue])
      BY <1>1 DEF EndIsLast
    <3> QED
      BY <1>7, <2>2, <3>1
  <2> QED
    BY <2>1, <2>2
<1>12. Conversation'
  <2> SUFFICES ASSUME NEW v \in DOMAIN workers, lines'[v].alive
               PROVE  workers'[v].out.run /\ workers'[v].in.run /\ Talk(v)'
    BY <1>3 DEF Conversation
  <2>1. CASE v = w
    <3>1. a
      BY <1>4, <2>1, Zenon
    <3>2. /\ out.run /\ in.run
          /\ IF workers[w].queue = Now /\ ui # "UI_INIT"
               THEN During(ui, st, u, out.held, sq, uq, in.held, d)
               ELSE After(st, u, out.held, sq)
      BY <3>1, Zenon
    <3>3. workers'[v].out.run /\ workers'[v].in.run
      BY <1>4, <2>1, <3>2, Zenon
    <3>4. Talk(v)'
      BY <1>3, <1>4, <2>1, <3>2, Zenon DEF Talk
    <3> QED
      BY <3>3, <3>4
  <2>2. CASE v # w
    <3>1. workers[v].out.run /\ workers[v].in.run /\ Talk(v)
      BY <1>1, <1>7, <2>2 DEF Conversation
    <3>2. Talk(v)' = Talk(v)
      BY <1>3, <1>7, <2>2 DEF Talk
    <3> QED
      BY <1>7, <2>2, <3>1, <3>2
  <2> QED
    BY <2>1, <2>2
<1>13. DeadIsEmpty'
  <2> SUFFICES ASSUME NEW v \in DOMAIN workers, ~ lines'[v].alive
               PROVE  lines'[v].up = <<>>
    BY <1>3 DEF DeadIsEmpty
  <2>1. CASE v = w
    BY <1>4, <2>1, Zenon
  <2>2. CASE v # w
    BY <1>1, <1>7, <2>2 DEF DeadIsEmpty
  <2> QED
    BY <2>1, <2>2
<1> QED
  BY <1>2, <1>9, <1>10, <1>11, <1>12, <1>13 DEF SessionInv
----------------------------------------------------------------------------
(* What a step leaves alone, and what it changes of a worker or a line, in *)
(* the form of LocalStep.                                                  *)
LEMMA Same ==
  ASSUME NEW S, NEW s \in Seq(S), NEW i \in DOMAIN s
  PROVE  [s EXCEPT ![i] = s[i]] = s
  OBVIOUS

LEMMA WorkerRecord ==
  ASSUME NEW n, NEW s \in Workers(n), NEW x
  PROVE  /\ s = [fd |-> s.fd, queue |-> s.queue, in |-> s.in, out |-> s.out]
         /\ [s EXCEPT !.out = x] = [fd |-> s.fd, queue |-> s.queue, in |-> s.in, out |-> x]
         /\ [s EXCEPT !.in = x] = [fd |-> s.fd, queue |-> s.queue, in |-> x, out |-> s.out]
         /\ [s EXCEPT !.out.held = x] =
              [fd |-> s.fd, queue |-> s.queue, in |-> s.in,
               out |-> [held |-> x, run |-> s.out.run]]
         /\ [s EXCEPT !.in.held = x] =
              [fd |-> s.fd, queue |-> s.queue,
               in |-> [held |-> x, run |-> s.in.run], out |-> s.out]
<1>1. s = [fd |-> s.fd, queue |-> s.queue, in |-> s.in, out |-> s.out]
  BY DEF Workers
<1>2. ASSUME NEW e
      PROVE  [s EXCEPT !.out = e] = [fd |-> s.fd, queue |-> s.queue, in |-> s.in, out |-> e]
  BY DEF Workers
<1>3. ASSUME NEW e
      PROVE  [s EXCEPT !.in = e] = [fd |-> s.fd, queue |-> s.queue, in |-> e, out |-> s.out]
  BY DEF Workers
<1>4. s.in \in Worker(Replies) /\ s.out \in Worker(Requests)
  BY DEF Workers
<1>5. ASSUME NEW M, NEW e \in Worker(M)
      PROVE  [e EXCEPT !.held = x] = [held |-> x, run |-> e.run]
  BY DEF Worker
<1>6. /\ [s EXCEPT !.out.held = x] = [s EXCEPT !.out = [s.out EXCEPT !.held = x]]
      /\ [s EXCEPT !.in.held = x] = [s EXCEPT !.in = [s.in EXCEPT !.held = x]]
  OBVIOUS
<1> QED
  BY <1>1, <1>2, <1>3, <1>4, <1>5, <1>6, Zenon

LEMMA LineRecord ==
  ASSUME NEW s \in Line, NEW x, NEW y
  PROVE  /\ s = [up |-> s.up, down |-> s.down, alive |-> s.alive]
         /\ [s EXCEPT !.up = x] = [up |-> x, down |-> s.down, alive |-> s.alive]
         /\ [s EXCEPT !.down = y] = [up |-> s.up, down |-> y, alive |-> s.alive]
<1> DEFINE u == s.up
           d == s.down
           al == s.alive
<1>1. s = [up |-> u, down |-> d, alive |-> al]
  BY DEF Line
<1> HIDE DEF u, d, al
<1>2. [s EXCEPT !.up = x] = [up |-> x, down |-> d, alive |-> al]
  BY <1>1
<1>3. [s EXCEPT !.down = y] = [up |-> u, down |-> y, alive |-> al]
  BY <1>1
<1> QED
  BY <1>1, <1>2, <1>3 DEF u, d, al

(* What a step of connection w may take for granted. *)
LEMMA Mine ==
  ASSUME SessionInv, NEW w \in DOMAIN workers
  PROVE  /\ workers[w].queue \in 1 .. Now
         /\ workers[w].in \in Worker(Replies) /\ workers[w].out \in Worker(Requests)
         /\ lines[w].up \in Seq(Requests) /\ lines[w].down \in Seq(Replies)
         /\ lines[w].alive \in BOOLEAN /\ stage[w] \in {"new", "joined", "gone"}
         /\ send_queue[workers[w].queue] \in Seq(Requests \cup {"UM_DISCONN"})
         /\ um_queue[workers[w].queue] \in Seq(Replies \cup {"UM_DISCONN"})
         /\ workers[w].in.held \in Seq(Replies \cup {"UM_DISCONN"})
         /\ workers[w].in.run \in BOOLEAN
         /\ workers[w].out.held \in Seq(Requests \cup {"UM_DISCONN"})
         /\ workers[w].out.run \in BOOLEAN
         /\ OutEnds(workers[w].out, send_queue[workers[w].queue])
         /\ InEnds(workers[w].in, um_queue[workers[w].queue])
         /\ ~ lines[w].alive => lines[w].up = <<>>
         /\ lines[w].alive => workers[w].out.run /\ workers[w].in.run /\ Talk(w)
<1>1. TypeOK /\ EndIsLast /\ Conversation /\ DeadIsEmpty
  BY DEF SessionInv
<1>2. /\ workers[w].queue \in 1 .. Now /\ workers[w].in \in Worker(Replies)
      /\ workers[w].out \in Worker(Requests) /\ lines[w] \in Line
      /\ send_queue[workers[w].queue] \in Seq(Requests \cup {"UM_DISCONN"})
      /\ um_queue[workers[w].queue] \in Seq(Replies \cup {"UM_DISCONN"})
  BY <1>1, Parts
<1>3. /\ lines[w].up \in Seq(Requests) /\ lines[w].down \in Seq(Replies)
      /\ lines[w].alive \in BOOLEAN
  BY <1>2 DEF Line
<1>4. /\ workers[w].in.held \in Seq(Replies \cup {"UM_DISCONN"})
      /\ workers[w].in.run \in BOOLEAN
      /\ workers[w].out.held \in Seq(Requests \cup {"UM_DISCONN"})
      /\ workers[w].out.run \in BOOLEAN
  BY <1>2 DEF Worker
<1>5. stage[w] \in {"new", "joined", "gone"}
  <2>1. w \in DOMAIN stage /\ stage \in Seq({"new", "joined", "gone"})
    BY <1>1, Parts DEF TypeOK
  <2> QED
    BY <2>1, SeqIndex
<1>6. /\ OutEnds(workers[w].out, send_queue[workers[w].queue])
      /\ InEnds(workers[w].in, um_queue[workers[w].queue])
  BY <1>1 DEF EndIsLast
<1>7. /\ ~ lines[w].alive => lines[w].up = <<>>
      /\ lines[w].alive => workers[w].out.run /\ workers[w].in.run /\ Talk(w)
  BY <1>1 DEF DeadIsEmpty, Conversation
<1> QED
  BY <1>2, <1>3, <1>4, <1>5, <1>6, <1>7

(* A worker's descriptor names its own connection, or nothing any more. *)
LEMMA OwnConnection ==
  ASSUME SessionInv, NEW w \in DOMAIN workers
  PROVE  /\ Reaches(w) \in {0, w} /\ w # 0
         /\ Reaches(w) = 0 => DeadEnd /\ w = Len(workers) /\ ~ workers[w].in.run
                              /\ workers[w].in.held = <<>> /\ ~ lines[w].alive
<1>1. TypeOK /\ Screen /\ OwnQueue
  BY DEF SessionInv
<1>2. /\ Len(workers) \in Nat /\ w \in 1 .. Len(workers) /\ Len(workers) <= MaxConns
      /\ MaxConns \in Nat
  BY <1>1, Parts, SessionAssumption DEF TypeOK
<1>3. workers[w].fd = w + 2 /\ w + 2 \in Descriptors
  BY <1>1, <1>2 DEF OwnQueue, Descriptors
<1>4. Opened(Len(workers))[w + 2] = w
  BY <1>2, <1>3 DEF Opened
<1>5. CASE table = Opened(Len(workers))
  BY <1>2, <1>3, <1>4, <1>5 DEF Reaches
<1>6. CASE DeadEnd /\ table = [Opened(Len(workers)) EXCEPT ![Len(workers) + 2] = 0]
  <2>1. CASE w = Len(workers)
    <3>1. Reaches(w) = 0
      BY <1>3, <1>6, <2>1 DEF Reaches, Opened
    <3>2. workers[w].in = [held |-> <<>>, run |-> FALSE]
      BY <1>6, <2>1 DEF DeadEnd
    <3>3. ~ workers[w].in.run /\ workers[w].in.held = <<>>
      BY <3>2
    <3>4. ~ lines[w].alive
      BY <3>3, Mine
    <3> QED
      BY <1>2, <1>6, <2>1, <3>1, <3>3, <3>4
  <2>2. CASE w # Len(workers)
    <3>1. Reaches(w) = w
      BY <1>2, <1>3, <1>4, <1>6, <2>2 DEF Reaches, Opened
    <3> QED
      BY <1>2, <3>1
  <2> QED
    BY <2>1, <2>2
<1> QED
  BY <1>1, <1>5, <1>6 DEF Screen
----------------------------------------------------------------------------
(* The forms of a change of workers[w]. *)
Change(w, in, out) ==
  workers' = [workers EXCEPT ![w] = [fd |-> workers[w].fd, queue |-> workers[w].queue,
                                     in |-> in, out |-> out]]

LEMMA WorkerChange ==
  ASSUME SessionInv, NEW w \in DOMAIN workers
  PROVE  /\ UNCHANGED workers => Change(w, workers[w].in, workers[w].out)
         /\ \A x : workers' = [workers EXCEPT ![w].out.held = x] =>
              Change(w, workers[w].in, [held |-> x, run |-> workers[w].out.run])
         /\ \A x : workers' = [workers EXCEPT ![w].in.held = x] =>
              Change(w, [held |-> x, run |-> workers[w].in.run], workers[w].out)
         /\ \A r : workers' = [workers EXCEPT ![w].out = r] => Change(w, workers[w].in, r)
         /\ \A r : workers' = [workers EXCEPT ![w].in = r] => Change(w, r, workers[w].out)
<1>1. workers[w] \in Workers(Now) /\ workers \in Seq(Workers(Now))
  BY SeqIndex DEF SessionInv, TypeOK
<1>2. ASSUME NEW x
      PROVE  /\ [workers EXCEPT ![w].out = x] = [workers EXCEPT ![w] = [workers[w] EXCEPT !.out = x]]
             /\ [workers EXCEPT ![w].in = x] = [workers EXCEPT ![w] = [workers[w] EXCEPT !.in = x]]
             /\ [workers EXCEPT ![w].out.held = x] =
                  [workers EXCEPT ![w] = [workers[w] EXCEPT !.out.held = x]]
             /\ [workers EXCEPT ![w].in.held = x] =
                  [workers EXCEPT ![w] = [workers[w] EXCEPT !.in.held = x]]
  OBVIOUS
<1>3. workers = [workers EXCEPT ![w] = workers[w]]
  BY <1>1, Same
<1>4. UNCHANGED workers => Change(w, workers[w].in, workers[w].out)
  BY <1>1, <1>3, WorkerRecord, Zenon DEF Change
<1>5. ASSUME NEW x
      PROVE  /\ workers' = [workers EXCEPT ![w].out.held = x] =>
                  Change(w, workers[w].in, [held |-> x, run |-> workers[w].out.run])
             /\ workers' = [workers EXCEPT ![w].in.held = x] =>
                  Change(w, [held |-> x, run |-> workers[w].in.run], workers[w].out)
             /\ workers' = [workers EXCEPT ![w].out = x] => Change(w, workers[w].in, x)
             /\ workers' = [workers EXCEPT ![w].in = x] => Change(w, x, workers[w].out)
  <2> DEFINE v == workers[w]
  <2>0. v \in Workers(Now)
    BY <1>1
  <2>1. /\ [v EXCEPT !.out = x] = [fd |-> v.fd, queue |-> v.queue, in |-> v.in, out |-> x]
        /\ [v EXCEPT !.in = x] = [fd |-> v.fd, queue |-> v.queue, in |-> x, out |-> v.out]
        /\ [v EXCEPT !.out.held = x] =
             [fd |-> v.fd, queue |-> v.queue, in |-> v.in,
              out |-> [held |-> x, run |-> v.out.run]]
        /\ [v EXCEPT !.in.held = x] =
             [fd |-> v.fd, queue |-> v.queue,
              in |-> [held |-> x, run |-> v.in.run], out |-> v.out]
    <3> HIDE DEF v
    <3>1. [v EXCEPT !.out = x] = [fd |-> v.fd, queue |-> v.queue, in |-> v.in, out |-> x]
      BY <2>0 DEF Workers
    <3>2. [v EXCEPT !.in = x] = [fd |-> v.fd, queue |-> v.queue, in |-> x, out |-> v.out]
      BY <2>0, WorkerRecord, Zenon
    <3>3. [v EXCEPT !.out.held = x] =
             [fd |-> v.fd, queue |-> v.queue, in |-> v.in,
              out |-> [held |-> x, run |-> v.out.run]]
      BY <2>0, WorkerRecord, Zenon
    <3>4. [v EXCEPT !.in.held = x] =
             [fd |-> v.fd, queue |-> v.queue,
              in |-> [held |-> x, run |-> v.in.run], out |-> v.out]
      BY <2>0, WorkerRecord, Zenon
    <3> QED
      BY <3>1, <3>2, <3>3, <3>4, Zenon
  <2>2. workers' = [workers EXCEPT ![w].out.held = x] =>
          Change(w, workers[w].in, [held |-> x, run |-> workers[w].out.run])
    BY <1>2, <2>1, Zenon DEF Change
  <2>3. workers' = [workers EXCEPT ![w].in.held = x] =>
          Change(w, [held |-> x, run |-> workers[w].in.run], workers[w].out)
    BY <1>2, <2>1, Zenon DEF Change
  <2>4. workers' = [workers EXCEPT ![w].out = x] => Change(w, workers[w].in, x)
    BY <1>2, <2>1, Zenon DEF Change
  <2>5. workers' = [workers EXCEPT ![w].in = x] => Change(w, x, workers[w].out)
    BY <1>2, <2>1, Zenon DEF Change
  <2> QED
    BY <2>2, <2>3, <2>4, <2>5
<1> QED
  BY <1>4, <1>5, Zenon

(* The forms of a change of lines[w]. *)
Carry(w, u, d, a) == lines' = [lines EXCEPT ![w] = [up |-> u, down |-> d, alive |-> a]]

LEMMA LineChange ==
  ASSUME SessionInv, NEW w \in DOMAIN workers
  PROVE  /\ UNCHANGED lines => Carry(w, lines[w].up, lines[w].down, lines[w].alive)
         /\ \A x : lines' = [lines EXCEPT ![w].up = x] =>
              Carry(w, x, lines[w].down, lines[w].alive)
         /\ \A y : lines' = [lines EXCEPT ![w].down = y] =>
              Carry(w, lines[w].up, y, lines[w].alive)
         /\ \A x, y : lines' = [lines EXCEPT ![w].up = x, ![w].down = y] =>
              Carry(w, x, y, lines[w].alive)
<1>1. lines \in Seq(Line) /\ w \in DOMAIN lines
  BY Parts DEF SessionInv, TypeOK
<1>2. lines[w] \in Line
  BY <1>1, SeqIndex
<1>3. UNCHANGED lines => Carry(w, lines[w].up, lines[w].down, lines[w].alive)
  <2>1. lines = [lines EXCEPT ![w] = lines[w]]
    BY <1>1, Same
  <2> QED
    BY <1>2, <2>1, LineRecord, Zenon DEF Carry
<1>4. ASSUME NEW x, NEW y
      PROVE  /\ lines' = [lines EXCEPT ![w].up = x] =>
                  Carry(w, x, lines[w].down, lines[w].alive)
             /\ lines' = [lines EXCEPT ![w].down = y] =>
                  Carry(w, lines[w].up, y, lines[w].alive)
             /\ lines' = [lines EXCEPT ![w].up = x, ![w].down = y] =>
                  Carry(w, x, y, lines[w].alive)
  <2> DEFINE s == lines[w]
  <2>1. /\ [lines EXCEPT ![w].up = x] = [lines EXCEPT ![w] = [s EXCEPT !.up = x]]
        /\ [lines EXCEPT ![w].down = y] = [lines EXCEPT ![w] = [s EXCEPT !.down = y]]
        /\ [lines EXCEPT ![w].up = x, ![w].down = y] =
             [lines EXCEPT ![w] = [s EXCEPT !.up = x, !.down = y]]
    BY <1>1, SeqIndex
  <2>2. s \in Line
    BY <1>2
  <2> HIDE DEF s
  <2>3. [s EXCEPT !.up = x] = [up |-> x, down |-> s.down, alive |-> s.alive]
    BY <2>2, LineRecord, Zenon
  <2>4. [s EXCEPT !.down = y] = [up |-> s.up, down |-> y, alive |-> s.alive]
    BY <2>2, LineRecord, Zenon
  <2>5. [s EXCEPT !.up = x, !.down = y] = [up |-> x, down |-> y, alive |-> s.alive]
    <3> DEFINE t == [s EXCEPT !.up = x]
    <3>1. t = [up |-> x, down |-> s.down, alive |-> s.alive]
      BY <2>3
    <3>2. [s EXCEPT !.up = x, !.down = y] = [t EXCEPT !.down = y]
      BY <2>2 DEF Line
    <3> HIDE DEF t
    <3>3. [t EXCEPT !.down = y] = [up |-> x, down |-> y, alive |-> s.alive]
      BY <3>1
    <3> QED
      BY <3>2, <3>3, Zenon
  <2> QED
    BY <2>1, <2>3, <2>4, <2>5, Zenon DEF Carry, s
<1> QED
  BY <1>3, <1>4

(* LocalStep for a step whose effects are given by equations. *)
LEMMA LocalStepForm ==
  ASSUME SessionInv, NEW w \in DOMAIN workers, NEW in, NEW out, NEW u, NEW d, NEW a,
         NEW st, NEW sq, NEW uq,
         in \in Worker(Replies), out \in Worker(Requests),
         u \in Seq(Requests), d \in Seq(Replies), a \in BOOLEAN,
         st \in {"new", "joined", "gone"},
         sq \in Seq(Requests \cup {"UM_DISCONN"}), uq \in Seq(Replies \cup {"UM_DISCONN"}),
         UNCHANGED <<uiVars, table>>,
         Change(w, in, out),
         Carry(w, u, d, a),
         stage' = [stage EXCEPT ![w] = st],
         send_queue' = [send_queue EXCEPT ![workers[w].queue] = sq],
         um_queue' = [um_queue EXCEPT ![workers[w].queue] = uq]
  PROVE  LocalStep(w, in, out, u, d, a, st, sq, uq)
  BY DEF LocalStep, Change, Carry

(* The parts of connection w that a step leaves alone. *)
LEMMA Untouched ==
  ASSUME SessionInv, NEW w \in DOMAIN workers
  PROVE  /\ UNCHANGED lines => Carry(w, lines[w].up, lines[w].down, lines[w].alive)
         /\ UNCHANGED stage => stage' = [stage EXCEPT ![w] = stage[w]]
         /\ UNCHANGED send_queue =>
              send_queue' = [send_queue EXCEPT ![workers[w].queue] = send_queue[workers[w].queue]]
         /\ UNCHANGED um_queue =>
              um_queue' = [um_queue EXCEPT ![workers[w].queue] = um_queue[workers[w].queue]]
<1>1. /\ workers \in Seq(Workers(Now)) /\ lines \in Seq(Line) /\ w \in DOMAIN lines
      /\ stage \in Seq({"new", "joined", "gone"}) /\ w \in DOMAIN stage
      /\ um_queue \in Seq(Seq(Replies \cup {"UM_DISCONN"}))
      /\ send_queue \in Seq(Seq(Requests \cup {"UM_DISCONN"}))
      /\ workers[w].queue \in DOMAIN um_queue /\ workers[w].queue \in DOMAIN send_queue
  BY Parts DEF SessionInv, TypeOK
<1>2. UNCHANGED lines => Carry(w, lines[w].up, lines[w].down, lines[w].alive)
  BY LineChange
<1>3. stage = [stage EXCEPT ![w] = stage[w]]
  BY <1>1, Same
<1>4. /\ send_queue = [send_queue EXCEPT ![workers[w].queue] = send_queue[workers[w].queue]]
      /\ um_queue = [um_queue EXCEPT ![workers[w].queue] = um_queue[workers[w].queue]]
  BY <1>1, Same
<1> QED
  BY <1>2, <1>3, <1>4, Zenon

LEMMA InMessages ==
  /\ \A s \in Seq(Requests) : s \in Seq(Messages)
  /\ \A s \in Seq(Replies) : s \in Seq(Messages)
  /\ \A s \in Seq(Requests \cup {"UM_DISCONN"}) : s \in Seq(Messages)
  /\ \A s \in Seq(Replies \cup {"UM_DISCONN"}) : s \in Seq(Messages)
  BY DEF Messages

LEMMA OutTakeInv ==
  ASSUME SessionInv, NEW w \in DOMAIN workers, OutTake(w)
  PROVE  SessionInv'
<1> DEFINE s == workers[w]
           q == workers[w].queue
           sq == send_queue[q]
           out == [held |-> <<Head(sq)>>, run |-> s.out.run]
<1>1. s.out.held = <<>> /\ s.out.run /\ sq # <<>>
  BY DEF OutTake, Idle
<1>2. /\ UNCHANGED <<uiVars, table>> /\ UNCHANGED um_queue /\ UNCHANGED lines /\ UNCHANGED stage
      /\ workers' = [workers EXCEPT ![w].out.held = <<Head(sq)>>]
      /\ send_queue' = [send_queue EXCEPT ![q] = Tail(sq)]
  BY DEF OutTake
<1>3. /\ Head(sq) \in Requests \cup {"UM_DISCONN"} /\ Tail(sq) \in Seq(Requests \cup {"UM_DISCONN"})
      /\ out \in Worker(Requests)
  <2>1. /\ Head(sq) \in Requests \cup {"UM_DISCONN"}
        /\ Tail(sq) \in Seq(Requests \cup {"UM_DISCONN"})
    BY <1>1, Mine, HeadTail
  <2>2. <<Head(sq)>> \in Seq(Requests \cup {"UM_DISCONN"}) /\ s.out.run \in BOOLEAN
    BY <2>1, Mine
  <2> QED
    BY <2>1, <2>2 DEF Worker
<1>4. Change(w, s.in, out)
  BY <1>2, WorkerChange
<1>5. LocalStep(w, s.in, out, lines[w].up, lines[w].down, lines[w].alive, stage[w],
                Tail(sq), um_queue[q])
  <2> HIDE DEF out
  <2> QED
    BY <1>2, <1>3, <1>4, Mine, Untouched, LocalStepForm
<1>6. OutEnds(out, Tail(sq))
  <2>1. Without(sq, "UM_DISCONN")
    BY <1>1, Mine DEF OutEnds
  <2>2. Without(Tail(sq), "UM_DISCONN") /\ Head(sq) # "UM_DISCONN"
    BY <1>1, <2>1, Mine, WithoutKept, HeadTail, SeqIndex DEF Without
  <2>3. Without(<<Head(sq)>>, "UM_DISCONN")
    BY <1>3, <2>2, Single DEF Without
  <2> QED
    BY <2>2, <2>3 DEF OutEnds
<1>7. ASSUME lines[w].alive
      PROVE  /\ out.run /\ s.in.run
             /\ IF q = Now /\ ui # "UI_INIT"
                  THEN During(ui, stage[w], lines[w].up, out.held, Tail(sq),
                              um_queue[q], s.in.held, lines[w].down)
                  ELSE After(stage[w], lines[w].up, out.held, Tail(sq))
  <2>1. out.run /\ s.in.run /\ Talk(w) /\ out.held = <<Head(sq)>>
    BY <1>1, <1>7, Mine
  <2>2. /\ During(ui, stage[w], lines[w].up, s.out.held, sq, um_queue[q], s.in.held, lines[w].down)
           => During(ui, stage[w], lines[w].up, <<Head(sq)>>, Tail(sq),
                     um_queue[q], s.in.held, lines[w].down)
        /\ After(stage[w], lines[w].up, s.out.held, sq)
           => After(stage[w], lines[w].up, <<Head(sq)>>, Tail(sq))
    BY <1>1, Mine, InMessages, ConversationMoves
  <2> QED
    BY <2>1, <2>2 DEF Talk
<1> HIDE DEF s, q, sq, out
<1>8. InEnds(s.in, um_queue[q]) /\ (~ lines[w].alive => lines[w].up = <<>>)
  BY Mine DEF s, q
<1> QED
  BY <1>5, <1>6, <1>7, <1>8, LocalStepInv DEF s, q, sq

(* The worker is at work on its own connection, or the connection is gone. *)
LEMMA AliveMeans ==
  ASSUME SessionInv, NEW w \in DOMAIN workers
  PROVE  /\ Alive(w) => Reaches(w) = w /\ lines[w].alive
         /\ ~ Alive(w) => ~ lines[w].alive
  BY OwnConnection DEF Alive

LEMMA DeadEndMeans ==
  ASSUME DeadEnd
  PROVE  ~ workers[Len(workers)].in.run /\ workers[Len(workers)].in.held = <<>>
<1>1. workers[Len(workers)].in = [held |-> <<>>, run |-> FALSE]
  BY DEF DeadEnd
<1> QED
  BY <1>1

(* Without the end of a connection, what a worker holds are messages. *)
LEMMA Narrowed ==
  ASSUME NEW M, NEW s \in Seq(M \cup {"UM_DISCONN"}), Without(s, "UM_DISCONN")
  PROVE  s \in Seq(M)
<1>1. Len(s) \in Nat /\ DOMAIN s = 1 .. Len(s) /\ \A i \in 1 .. Len(s) : s[i] \in M
  BY SeqIndex DEF Without
<1>2. s = [i \in 1 .. Len(s) |-> s[i]]
  OBVIOUS
<1> QED
  BY <1>1, <1>2

LEMMA OutSendInv ==
  ASSUME SessionInv, NEW w \in DOMAIN workers, OutSend(w)
  PROVE  SessionInv'
<1> DEFINE s == workers[w]
           q == workers[w].queue
           sq == send_queue[q]
           l == lines[w]
<1>1. s.out.run /\ s.out.held # <<>>
  BY DEF OutSend
<1>2. /\ UNCHANGED <<uiVars, table>> /\ UNCHANGED um_queue /\ UNCHANGED send_queue
      /\ UNCHANGED stage
  BY DEF OutSend, queueVars
<1>3. Without(s.out.held, "UM_DISCONN") /\ Without(sq, "UM_DISCONN")
  BY <1>1, Mine DEF OutEnds
<1>4. s.out.held \in Seq(Requests) /\ sq \in Seq(Requests \cup {"UM_DISCONN"})
  BY <1>3, Mine, Narrowed
<1>5. /\ InEnds(s.in, um_queue[q]) /\ (~ l.alive => l.up = <<>>)
      /\ s.in \in Worker(Replies) /\ l.up \in Seq(Requests) /\ l.down \in Seq(Replies)
      /\ l.alive \in BOOLEAN
  BY Mine
<1>6. Without(<<>>, "UM_DISCONN")
  BY DEF Without
<1>7. CASE /\ Alive(w)
           /\ lines' = [lines EXCEPT ![Reaches(w)].up = @ \o workers[w].out.held]
           /\ workers' = [workers EXCEPT ![w].out.held = <<>>]
  <2> DEFINE out == [held |-> <<>>, run |-> s.out.run]
  <2>1. Reaches(w) = w /\ l.alive
    BY <1>7, AliveMeans
  <2>2. lines' = [lines EXCEPT ![w].up = l.up \o s.out.held]
    BY <1>7, <2>1
  <2>3. Carry(w, l.up \o s.out.held, l.down, l.alive)
    BY <2>2, LineChange
  <2>4. Change(w, s.in, out)
    BY <1>7, WorkerChange
  <2>5. out \in Worker(Requests) /\ l.up \o s.out.held \in Seq(Requests)
    <3>1. s.out.run \in BOOLEAN
      BY Mine
    <3> QED
      BY <1>4, <1>5, <3>1 DEF Worker
  <2>6. LocalStep(w, s.in, out, l.up \o s.out.held, l.down, l.alive, stage[w], sq, um_queue[q])
    <3> HIDE DEF out
    <3> QED
      BY <1>2, <2>3, <2>4, <2>5, Mine, Untouched, LocalStepForm
  <2>7. OutEnds(out, sq)
    BY <1>3, <1>6 DEF OutEnds
  <2>8. /\ out.run /\ s.in.run
        /\ IF q = Now /\ ui # "UI_INIT"
             THEN During(ui, stage[w], l.up \o s.out.held, out.held, sq,
                         um_queue[q], s.in.held, l.down)
             ELSE After(stage[w], l.up \o s.out.held, out.held, sq)
    <3>1. out.run /\ s.in.run /\ Talk(w) /\ out.held = <<>>
      BY <1>1, <2>1, Mine
    <3>2. /\ During(ui, stage[w], l.up, s.out.held, sq, um_queue[q], s.in.held, l.down)
             => During(ui, stage[w], l.up \o s.out.held, <<>>, sq,
                       um_queue[q], s.in.held, l.down)
          /\ After(stage[w], l.up, s.out.held, sq)
             => After(stage[w], l.up \o s.out.held, <<>>, sq)
      BY <1>1, Mine, InMessages, ConversationMoves
    <3> QED
      BY <3>1, <3>2 DEF Talk
  <2> HIDE DEF s, q, sq, l, out
  <2> QED
    BY <1>5, <2>1, <2>6, <2>7, <2>8, LocalStepInv DEF s, q
<1>8. ASSUME NEW out, out \in Worker(Requests), OutEnds(out, sq), ~ Alive(w),
             Change(w, s.in, out), UNCHANGED lines
      PROVE  SessionInv'
  <2>1. ~ l.alive
    BY <1>8, AliveMeans
  <2>2. LocalStep(w, s.in, out, l.up, l.down, l.alive, stage[w], sq, um_queue[q])
    BY <1>2, <1>8, Mine, Untouched, LocalStepForm
  <2> HIDE DEF s, q, sq, l
  <2> QED
    BY <1>5, <1>8, <2>1, <2>2, LocalStepInv DEF s, q
<1>9. CASE /\ ~ Alive(w) /\ UNCHANGED lines
           /\ workers' = [workers EXCEPT ![w].out = [held |-> <<"UM_DISCONN">>, run |-> FALSE]]
  <2> DEFINE out == [held |-> <<"UM_DISCONN">>, run |-> FALSE]
  <2>1. out \in Worker(Requests) /\ OutEnds(out, sq)
    BY DEF Worker, OutEnds
  <2>2. Change(w, s.in, out)
    BY <1>9, WorkerChange
  <2> HIDE DEF out
  <2> QED
    BY <1>8, <1>9, <2>1, <2>2
<1>10. CASE /\ ~ Alive(w) /\ UNCHANGED lines
            /\ workers' = [workers EXCEPT ![w].out.held = <<>>]
  <2> DEFINE out == [held |-> <<>>, run |-> s.out.run]
  <2>1. out \in Worker(Requests) /\ OutEnds(out, sq)
    <3>1. s.out.run \in BOOLEAN
      BY Mine
    <3> QED
      BY <1>3, <1>6, <3>1 DEF Worker, OutEnds
  <2>2. Change(w, s.in, out)
    BY <1>10, WorkerChange
  <2> HIDE DEF out
  <2> QED
    BY <1>8, <1>10, <2>1, <2>2
<1> QED
  BY <1>7, <1>9, <1>10 DEF OutSend

LEMMA OutEndInv ==
  ASSUME SessionInv, NEW w \in DOMAIN workers, OutEnd(w)
  PROVE  SessionInv'
<1> DEFINE s == workers[w]
           q == workers[w].queue
           sq == send_queue[q]
           l == lines[w]
           out == [held |-> <<>>, run |-> s.out.run]
<1>1. /\ ~ s.out.run /\ UNCHANGED <<uiVars, table>> /\ UNCHANGED um_queue
      /\ UNCHANGED lines /\ UNCHANGED stage
      /\ send_queue' = [send_queue EXCEPT ![q] = sq \o s.out.held]
      /\ workers' = [workers EXCEPT ![w].out.held = <<>>]
  BY DEF OutEnd
<1>2. Change(w, s.in, out)
  BY <1>1, WorkerChange
<1>3. out \in Worker(Requests) /\ sq \o s.out.held \in Seq(Requests \cup {"UM_DISCONN"})
  <2>1. s.out.run \in BOOLEAN
    BY Mine
  <2>2. out \in Worker(Requests)
    BY <2>1 DEF Worker
  <2>3. sq \o s.out.held \in Seq(Requests \cup {"UM_DISCONN"})
    BY Mine, Concat
  <2> QED
    BY <2>2, <2>3
<1>4. OutEnds(out, sq \o s.out.held) /\ ~ l.alive
  BY <1>1, Mine DEF OutEnds
<1>5. LocalStep(w, s.in, out, l.up, l.down, l.alive, stage[w], sq \o s.out.held, um_queue[q])
  <2> HIDE DEF out
  <2> QED
    BY <1>1, <1>2, <1>3, Mine, Untouched, LocalStepForm
<1>6. InEnds(s.in, um_queue[q]) /\ (~ l.alive => l.up = <<>>)
  BY Mine
<1> HIDE DEF s, q, sq, l, out
<1> QED
  BY <1>4, <1>5, <1>6, LocalStepInv DEF s, q

LEMMA InRecvInv ==
  ASSUME SessionInv, NEW w \in DOMAIN workers, InRecv(w)
  PROVE  SessionInv'
<1> DEFINE s == workers[w]
           q == workers[w].queue
           sq == send_queue[q]
           l == lines[w]
<1>1. s.in.held = <<>> /\ s.in.run
  BY DEF InRecv, Idle
<1>2. /\ UNCHANGED <<uiVars, table>> /\ UNCHANGED um_queue /\ UNCHANGED send_queue
      /\ UNCHANGED stage
  BY DEF InRecv, queueVars
<1>3. ~ (DeadEnd /\ w = Len(workers))
  BY <1>1, DeadEndMeans
<1>4. OutEnds(s.out, sq) /\ (~ l.alive => l.up = <<>>) /\ Without(um_queue[q], "UM_DISCONN")
  BY <1>1, Mine DEF InEnds
<1>5. CASE /\ Reaches(w) # 0 /\ lines[Reaches(w)].down # <<>>
           /\ workers' = [workers EXCEPT ![w].in.held = <<Head(lines[Reaches(w)].down)>>]
           /\ lines' = [lines EXCEPT ![Reaches(w)].down = Tail(@)]
  <2> DEFINE in == [held |-> <<Head(l.down)>>, run |-> s.in.run]
  <2>1. Reaches(w) = w
    BY <1>5, OwnConnection
  <2>2. /\ l.down # <<>> /\ workers' = [workers EXCEPT ![w].in.held = <<Head(l.down)>>]
        /\ lines' = [lines EXCEPT ![w].down = Tail(l.down)]
    BY <1>5, <2>1
  <2>3. Change(w, in, s.out) /\ Carry(w, l.up, Tail(l.down), l.alive)
    BY <2>2, WorkerChange, LineChange
  <2>4. Head(l.down) \in Replies /\ Tail(l.down) \in Seq(Replies)
    BY <2>2, Mine, HeadTail
  <2>5. in \in Worker(Replies)
    <3>1. s.in.run \in BOOLEAN
      BY Mine
    <3> QED
      BY <2>4, <3>1 DEF Worker
  <2>6. LocalStep(w, in, s.out, l.up, Tail(l.down), l.alive, stage[w], sq, um_queue[q])
    <3> HIDE DEF in
    <3> QED
      BY <1>2, <2>3, <2>4, <2>5, Mine, Untouched, LocalStepForm
  <2>7. InEnds(in, um_queue[q])
    <3>1. Head(l.down) # "UM_DISCONN"
      BY <2>4 DEF Replies
    <3>2. Without(<<Head(l.down)>>, "UM_DISCONN")
      BY <2>4, <3>1, Single DEF Without
    <3> QED
      BY <1>1, <1>4, <3>2 DEF InEnds
  <2>8. ASSUME l.alive
        PROVE  /\ s.out.run /\ in.run
               /\ IF q = Now /\ ui # "UI_INIT"
                    THEN During(ui, stage[w], l.up, s.out.held, sq,
                                um_queue[q], in.held, Tail(l.down))
                    ELSE After(stage[w], l.up, s.out.held, sq)
    <3>1. s.out.run /\ in.run /\ Talk(w) /\ in.held = <<Head(l.down)>>
      BY <1>1, <2>8, Mine
    <3>2. During(ui, stage[w], l.up, s.out.held, sq, um_queue[q], s.in.held, l.down)
            => During(ui, stage[w], l.up, s.out.held, sq,
                      um_queue[q], <<Head(l.down)>>, Tail(l.down))
      BY <1>1, <2>2, Mine, InMessages, ConversationMoves
    <3> QED
      BY <3>1, <3>2 DEF Talk
  <2> HIDE DEF s, q, sq, l, in
  <2> QED
    BY <1>3, <1>4, <2>6, <2>7, <2>8, LocalStepInv DEF q
<1>6. CASE /\ ~ Alive(w) /\ UNCHANGED lines
           /\ workers' = [workers EXCEPT ![w].in = [held |-> <<"UM_DISCONN">>, run |-> FALSE]]
  <2> DEFINE in == [held |-> <<"UM_DISCONN">>, run |-> FALSE]
  <2>1. ~ l.alive
    BY <1>6, AliveMeans
  <2>2. Change(w, in, s.out)
    BY <1>6, WorkerChange
  <2>3. in \in Worker(Replies)
    BY DEF Worker
  <2>4. LocalStep(w, in, s.out, l.up, l.down, l.alive, stage[w], sq, um_queue[q])
    <3> HIDE DEF in
    <3> QED
      BY <1>2, <1>6, <2>2, <2>3, Mine, Untouched, LocalStepForm
  <2>5. InEnds(in, um_queue[q])
    BY <1>4 DEF InEnds
  <2> HIDE DEF s, q, sq, l, in
  <2> QED
    BY <1>3, <1>4, <2>1, <2>4, <2>5, LocalStepInv DEF q
<1> QED
  BY <1>5, <1>6 DEF InRecv

LEMMA InAddInv ==
  ASSUME SessionInv, NEW w \in DOMAIN workers, InAdd(w)
  PROVE  SessionInv'
<1> DEFINE s == workers[w]
           q == workers[w].queue
           sq == send_queue[q]
           uq == um_queue[q]
           l == lines[w]
           in == [held |-> <<>>, run |-> s.in.run]
<1>1. /\ s.in.held # <<>> /\ UNCHANGED <<uiVars, table>> /\ UNCHANGED send_queue
      /\ UNCHANGED lines /\ UNCHANGED stage
      /\ um_queue' = [um_queue EXCEPT ![q] = uq \o s.in.held]
      /\ workers' = [workers EXCEPT ![w].in.held = <<>>]
  BY DEF InAdd
<1>2. Change(w, in, s.out)
  BY <1>1, WorkerChange
<1>3. in \in Worker(Replies) /\ uq \o s.in.held \in Seq(Replies \cup {"UM_DISCONN"})
  <2>1. s.in.run \in BOOLEAN
    BY Mine
  <2>2. in \in Worker(Replies)
    BY <2>1 DEF Worker
  <2>3. uq \o s.in.held \in Seq(Replies \cup {"UM_DISCONN"})
    BY Mine, Concat
  <2> QED
    BY <2>2, <2>3
<1>4. ~ (DeadEnd /\ w = Len(workers))
  BY <1>1, DeadEndMeans
<1>5. LocalStep(w, in, s.out, l.up, l.down, l.alive, stage[w], sq, uq \o s.in.held)
  <2> HIDE DEF in
  <2> QED
    BY <1>1, <1>2, <1>3, Mine, Untouched, LocalStepForm
<1>6. InEnds(in, uq \o s.in.held)
  <2>1. /\ Without(uq, "UM_DISCONN") /\ uq \in Seq(Replies \cup {"UM_DISCONN"})
        /\ s.in.held \in Seq(Replies \cup {"UM_DISCONN"})
    BY <1>1, Mine DEF InEnds
  <2>2. CASE s.in.run /\ Without(s.in.held, "UM_DISCONN")
    <3>1. Without(uq \o s.in.held, "UM_DISCONN")
      BY <2>1, <2>2, WithoutKept
    <3>2. Without(<<>>, "UM_DISCONN")
      BY DEF Without
    <3> QED
      BY <2>2, <3>1, <3>2 DEF InEnds
  <2>3. CASE ~ s.in.run /\ s.in.held = <<"UM_DISCONN">>
    <3>1. \A i \in DOMAIN (uq \o s.in.held) :
            (uq \o s.in.held)[i] = "UM_DISCONN" => i = Len(uq \o s.in.held)
      BY <2>1, <2>3, OnlyLast
    <3> QED
      BY <2>3, <3>1 DEF InEnds
  <2> QED
    BY <1>1, <2>2, <2>3, Mine DEF InEnds
<1>7. ASSUME l.alive
      PROVE  /\ s.out.run /\ in.run
             /\ IF q = Now /\ ui # "UI_INIT"
                  THEN During(ui, stage[w], l.up, s.out.held, sq,
                              uq \o s.in.held, in.held, l.down)
                  ELSE After(stage[w], l.up, s.out.held, sq)
  <2>1. s.out.run /\ in.run /\ Talk(w) /\ in.held = <<>>
    BY <1>7, Mine
  <2>2. During(ui, stage[w], l.up, s.out.held, sq, uq, s.in.held, l.down)
          => During(ui, stage[w], l.up, s.out.held, sq, uq \o s.in.held, <<>>, l.down)
    BY <1>1, Mine, InMessages, ConversationMoves
  <2> QED
    BY <2>1, <2>2 DEF Talk
<1>8. OutEnds(s.out, sq) /\ (~ l.alive => l.up = <<>>)
  BY Mine
<1> HIDE DEF s, q, sq, uq, l, in
<1> QED
  BY <1>4, <1>5, <1>6, <1>7, <1>8, LocalStepInv DEF q

(* The server takes a message and answers it. *)
StageAfter(st, m, r) == CASE m = "QUIT" -> "gone"
                      [] r = <<"JOIN_OK">> -> "joined"
                      [] OTHER -> st

LEMMA ServeTalk ==
  ASSUME NEW p, NEW st \in {"new", "joined", "gone"},
         NEW u1 \in Seq(Requests), NEW u2, NEW u3, NEW d1, NEW d2, NEW d3 \in Seq(Replies),
         u1 # <<>>, NEW r \in Answers(Head(u1))
  PROVE  /\ StageAfter(st, Head(u1), r) \in {"new", "joined", "gone"} /\ r \in Seq(Replies)
         /\ During(p, st, u1, u2, u3, d1, d2, d3)
              => During(p, StageAfter(st, Head(u1), r), Tail(u1), u2, u3, d1, d2, d3 \o r)
         /\ After(st, u1, u2, u3) => After(StageAfter(st, Head(u1), r), Tail(u1), u2, u3)
<1> DEFINE st2 == StageAfter(st, Head(u1), r)
<1>1. /\ u1 \in Seq(Messages) /\ Head(u1) \in Requests
      /\ "REQUEST" \in Messages /\ "QUIT" \in Messages /\ "JOIN" \in Messages
  BY HeadTail, InMessages DEF Messages, Requests
<1>2. /\ ~ Nothing(u1, u2, u3)
      /\ One("JOIN", u1, u2, u3) => Head(u1) = "JOIN" /\ Nothing(Tail(u1), u2, u3)
      /\ AllAsk(u1, u2, u3) => Head(u1) = "REQUEST" /\ AllAsk(Tail(u1), u2, u3)
      /\ LastLeaves(u1, u2, u3) =>
           \/ Head(u1) = "REQUEST" /\ LastLeaves(Tail(u1), u2, u3)
           \/ Head(u1) = "QUIT" /\ Nothing(Tail(u1), u2, u3)
  BY <1>1, OutOfX
<1>3. Head(u1) = "JOIN" => r \in {<<"JOIN_OK">>, <<"JOIN_ERR">>}
  BY DEF Answers
<1>4. Head(u1) # "JOIN" => r \in {<<>>, <<"OTHER">>}
  BY DEF Answers
<1>5. <<"OTHER">> # <<"JOIN_OK">> /\ <<>> # <<"JOIN_OK">> /\ <<"JOIN_ERR">> # <<"JOIN_OK">>
  OBVIOUS
<1>6. r \in Seq(Replies)
  <2>1. /\ <<"JOIN_OK">> \in Seq(Replies) /\ <<"JOIN_ERR">> \in Seq(Replies)
        /\ <<"OTHER">> \in Seq(Replies) /\ <<>> \in Seq(Replies)
    BY DEF Replies
  <2> QED
    BY <1>3, <1>4, <2>1, Zenon
<1>7. d3 = <<>> => d3 \o r = r
  BY <1>6, Concat
<1>8. CASE Head(u1) = "JOIN"
  <2>1. /\ ~ AllAsk(u1, u2, u3) /\ ~ LastLeaves(u1, u2, u3)
        /\ st2 = IF r = <<"JOIN_OK">> THEN "joined" ELSE st
    BY <1>2, <1>8 DEF StageAfter
  <2>2. /\ st2 \in {"new", "joined", "gone"}
        /\ After(st, u1, u2, u3) => After(st2, Tail(u1), u2, u3)
    BY <1>2, <2>1 DEF After
  <2>3. ASSUME During(p, st, u1, u2, u3, d1, d2, d3)
        PROVE  During(p, st2, Tail(u1), u2, u3, d1, d2, d3 \o r)
    <3>1. /\ p = "WAIT_MSG" /\ st = "new" /\ One("JOIN", u1, u2, u3)
          /\ Nothing(d1, d2, d3)
      BY <1>2, <2>1, <2>3 DEF During
    <3>2. Nothing(Tail(u1), u2, u3) /\ d1 = <<>> /\ d2 = <<>> /\ d3 \o r = r
      BY <1>2, <1>7, <3>1 DEF Nothing
    <3>3. CASE r = <<"JOIN_OK">>
      <4>1. One("JOIN_OK", d1, d2, d3 \o r) /\ st2 = "joined"
        BY <2>1, <3>2, <3>3 DEF One
      <4> QED
        BY <3>1, <3>2, <4>1 DEF During
    <3>4. CASE r = <<"JOIN_ERR">>
      <4>1. One("JOIN_ERR", d1, d2, d3 \o r) /\ st2 = "new"
        BY <1>5, <2>1, <3>1, <3>2, <3>4 DEF One
      <4> QED
        BY <3>1, <3>2, <4>1 DEF During
    <3> QED
      BY <1>3, <1>8, <3>3, <3>4
  <2> QED
    BY <1>6, <2>2, <2>3
<1>9. CASE Head(u1) # "JOIN"
  <2>1. ~ One("JOIN", u1, u2, u3) /\ st2 = IF Head(u1) = "QUIT" THEN "gone" ELSE st
    BY <1>2, <1>4, <1>5, <1>9 DEF StageAfter
  <2>2. /\ st2 \in {"new", "joined", "gone"}
        /\ After(st, u1, u2, u3) => After(st2, Tail(u1), u2, u3)
    BY <1>2, <2>1 DEF After
  <2>3. During(p, st, u1, u2, u3, d1, d2, d3)
          => During(p, st2, Tail(u1), u2, u3, d1, d2, d3 \o r)
    BY <1>2, <2>1 DEF During
  <2> QED
    BY <1>6, <2>2, <2>3
<1> QED
  BY <1>8, <1>9

LEMMA ServeInv ==
  ASSUME SessionInv, NEW w \in DOMAIN workers, Serve(w)
  PROVE  SessionInv'
<1> DEFINE s == workers[w]
           q == workers[w].queue
           l == lines[w]
<1>1. PICK r \in Answers(Head(l.up)) :
        /\ lines' = [lines EXCEPT ![w].up = Tail(@), ![w].down = @ \o r]
        /\ stage' = [stage EXCEPT ![w] = Learns(w, Head(l.up), r)]
  BY DEF Serve
<1> DEFINE st == Learns(w, Head(l.up), r)
<1>2. /\ l.alive /\ l.up # <<>> /\ UNCHANGED <<uiVars, table>> /\ UNCHANGED um_queue
      /\ UNCHANGED send_queue /\ UNCHANGED workers
  BY DEF Serve, queueVars
<1>3. Change(w, s.in, s.out)
  BY <1>2, WorkerChange
<1>4. Carry(w, Tail(l.up), l.down \o r, l.alive)
  <2>1. lines' = [lines EXCEPT ![w].up = Tail(l.up), ![w].down = l.down \o r]
    BY <1>1
  <2> QED
    BY <2>1, LineChange
<1>5. st = StageAfter(stage[w], Head(l.up), r)
  BY DEF Learns, StageAfter
<1> HIDE DEF st
<1>6. /\ st \in {"new", "joined", "gone"} /\ r \in Seq(Replies)
      /\ During(ui, stage[w], l.up, s.out.held, send_queue[q], um_queue[q], s.in.held, l.down)
           => During(ui, st, Tail(l.up), s.out.held, send_queue[q],
                     um_queue[q], s.in.held, l.down \o r)
      /\ After(stage[w], l.up, s.out.held, send_queue[q])
           => After(st, Tail(l.up), s.out.held, send_queue[q])
  <2>1. /\ stage[w] \in {"new", "joined", "gone"} /\ l.up \in Seq(Requests)
        /\ l.down \in Seq(Replies)
    BY Mine
  <2> HIDE DEF s, q, l
  <2> QED
    BY <1>2, <1>5, <2>1, ServeTalk
<1>7. Tail(l.up) \in Seq(Requests) /\ l.down \o r \in Seq(Replies)
  BY <1>2, <1>6, Mine, HeadTail, Concat
<1>8. LocalStep(w, s.in, s.out, Tail(l.up), l.down \o r, l.alive, st,
                send_queue[q], um_queue[q])
  BY <1>1, <1>2, <1>3, <1>4, <1>6, <1>7, Mine, Untouched, LocalStepForm DEF st
<1>9. /\ s.out.run /\ s.in.run
      /\ IF q = Now /\ ui # "UI_INIT"
           THEN During(ui, st, Tail(l.up), s.out.held, send_queue[q],
                       um_queue[q], s.in.held, l.down \o r)
           ELSE After(st, Tail(l.up), s.out.held, send_queue[q])
  <2>1. s.out.run /\ s.in.run /\ Talk(w)
    BY <1>2, Mine
  <2> QED
    BY <1>6, <2>1 DEF Talk
<1>10. OutEnds(s.out, send_queue[q]) /\ InEnds(s.in, um_queue[q])
  BY Mine
<1> HIDE DEF s, q, l
<1> QED
  BY <1>2, <1>8, <1>9, <1>10, LocalStepInv DEF s, q

LEMMA BreakInv ==
  ASSUME SessionInv, NEW w \in DOMAIN workers, Break(w)
  PROVE  SessionInv'
<1> DEFINE s == workers[w]
           q == workers[w].queue
           l == lines[w]
<1>1. PICK n \in 0 .. Len(l.down) :
        lines' = [lines EXCEPT ![w] = [up |-> <<>>, down |-> SubSeq(l.down, 1, n),
                                       alive |-> FALSE]]
  BY DEF Break
<1>2. /\ UNCHANGED <<uiVars, table>> /\ UNCHANGED um_queue
      /\ UNCHANGED send_queue /\ UNCHANGED workers /\ UNCHANGED stage
  BY DEF Break, queueVars
<1> DEFINE a == FALSE
           d == SubSeq(l.down, 1, n)
<1>3. Change(w, s.in, s.out) /\ Carry(w, <<>>, d, a) /\ ~ a /\ a \in BOOLEAN
  BY <1>1, <1>2, WorkerChange DEF Carry
<1>4. d \in Seq(Replies)
  <2>1. l.down \in Seq(Replies)
    BY Mine
  <2> QED
    BY <2>1, SubSeqProperties
<1> HIDE DEF a, d
<1>5. LocalStep(w, s.in, s.out, <<>>, d, a, stage[w], send_queue[q], um_queue[q])
  <2>1. <<>> \in Seq(Requests)
    OBVIOUS
  <2> QED
    BY <1>2, <1>3, <1>4, <2>1, Mine, Untouched, LocalStepForm
<1>6. OutEnds(s.out, send_queue[q]) /\ InEnds(s.in, um_queue[q])
  BY Mine
<1> HIDE DEF s, q, l
<1> QED
  BY <1>3, <1>5, <1>6, LocalStepInv DEF s, q
----------------------------------------------------------------------------
(* A step of the interface thread within a session: it changes its own     *)
(* state and the two queues of its session.                                *)
ScreenStep(sq, uq) ==
  /\ Now > 0
  /\ sq \in Seq(Requests \cup {"UM_DISCONN"}) /\ uq \in Seq(Replies \cup {"UM_DISCONN"})
  /\ ui' \in UiPhases /\ connected' \in BOOLEAN /\ fd' \in Int
  /\ table' \in [Descriptors -> 0 .. MaxConns]
  /\ UNCHANGED workers /\ UNCHANGED lines /\ UNCHANGED stage
  /\ send_queue' = [send_queue EXCEPT ![Now] = sq]
  /\ um_queue' = [um_queue EXCEPT ![Now] = uq]

(* What it must keep of the connection v of its session. *)
StillTalks(v, sq, uq) ==
  /\ OutEnds(workers[v].out, sq) /\ InEnds(workers[v].in, uq)
  /\ lines[v].alive =>
       IF ui' # "UI_INIT"
         THEN During(ui', stage[v], lines[v].up, workers[v].out.held, sq,
                     uq, workers[v].in.held, lines[v].down)
         ELSE After(stage[v], lines[v].up, workers[v].out.held, sq)

LEMMA ScreenStepType ==
  ASSUME TypeOK, NEW sq, NEW uq, ScreenStep(sq, uq)
  PROVE  /\ TypeOK' /\ Now' = Now
         /\ send_queue'[Now] = sq /\ um_queue'[Now] = uq
         /\ \A q \in 1 .. Now : q # Now =>
              send_queue'[q] = send_queue[q] /\ um_queue'[q] = um_queue[q]
<1>1. /\ Now > 0 /\ Now \in Nat /\ Now \in DOMAIN send_queue /\ Now \in DOMAIN um_queue
      /\ DOMAIN send_queue = 1 .. Now /\ DOMAIN um_queue = 1 .. Now
  BY Parts DEF ScreenStep
<1>2. /\ send_queue' \in Seq(Seq(Requests \cup {"UM_DISCONN"}))
      /\ Len(send_queue') = Len(send_queue) /\ send_queue'[Now] = sq
      /\ \A r \in DOMAIN send_queue : r # Now => send_queue'[r] = send_queue[r]
  BY <1>1, Replaced DEF TypeOK, ScreenStep
<1>3. /\ um_queue' \in Seq(Seq(Replies \cup {"UM_DISCONN"}))
      /\ Len(um_queue') = Len(um_queue) /\ um_queue'[Now] = uq
      /\ \A r \in DOMAIN um_queue : r # Now => um_queue'[r] = um_queue[r]
  BY <1>1, Replaced DEF TypeOK, ScreenStep
<1>4. Now' = Now
  BY <1>3 DEF Now
<1>5. TypeOK'
  BY <1>2, <1>3, <1>4 DEF TypeOK, ScreenStep
<1> QED
  BY <1>1, <1>2, <1>3, <1>4, <1>5

LEMMA ScreenStepInv ==
  ASSUME SessionInv, NEW sq, NEW uq, ScreenStep(sq, uq), Screen',
         \A v \in DOMAIN workers : workers[v].queue = Now => StillTalks(v, sq, uq)
  PROVE  SessionInv'
<1>1. TypeOK /\ OwnQueue /\ DeadIsEmpty
  BY DEF SessionInv
<1>2. /\ TypeOK' /\ Now' = Now /\ send_queue'[Now] = sq /\ um_queue'[Now] = uq
      /\ \A q \in 1 .. Now : q # Now =>
           send_queue'[q] = send_queue[q] /\ um_queue'[q] = um_queue[q]
  BY <1>1, ScreenStepType
<1>3. workers' = workers /\ lines' = lines /\ stage' = stage
  BY DEF ScreenStep
<1>4. OwnQueue' /\ DeadIsEmpty'
  BY <1>1, <1>3 DEF OwnQueue, DeadIsEmpty
<1>5. ASSUME NEW v \in DOMAIN workers
      PROVE  /\ OutEnds(workers[v].out, send_queue'[workers[v].queue])
             /\ InEnds(workers[v].in, um_queue'[workers[v].queue])
             /\ lines[v].alive => workers[v].out.run /\ workers[v].in.run /\ Talk(v)'
  <2>1. workers[v].queue \in 1 .. Now
    BY Mine
  <2>2. CASE workers[v].queue = Now
    <3>1. StillTalks(v, sq, uq) /\ (lines[v].alive => workers[v].out.run /\ workers[v].in.run)
      BY <2>2, Mine
    <3>2. lines[v].alive => Talk(v)'
      BY <1>2, <1>3, <2>2, <3>1 DEF Talk, StillTalks
    <3> QED
      BY <1>2, <2>2, <3>1, <3>2 DEF StillTalks
  <2>3. CASE workers[v].queue # Now
    <3>1. /\ send_queue'[workers[v].queue] = send_queue[workers[v].queue]
          /\ um_queue'[workers[v].queue] = um_queue[workers[v].queue]
      BY <1>2, <2>1, <2>3
    <3>2. /\ OutEnds(workers[v].out, send_queue[workers[v].queue])
          /\ InEnds(workers[v].in, um_queue[workers[v].queue])
          /\ lines[v].alive => workers[v].out.run /\ workers[v].in.run /\ Talk(v)
      BY Mine
    <3>3. Talk(v) => Talk(v)'
      BY <1>2, <1>3, <2>3, <3>1 DEF Talk
    <3> QED
      BY <3>1, <3>2, <3>3
  <2> QED
    BY <2>2, <2>3
<1>6. EndIsLast'
  BY <1>3, <1>5 DEF EndIsLast
<1>7. Conversation'
  <2> SUFFICES ASSUME NEW v \in DOMAIN workers', lines'[v].alive
               PROVE  workers'[v].out.run /\ workers'[v].in.run /\ Talk(v)'
    BY DEF Conversation
  <2> QED
    BY <1>3, <1>5
<1> QED
  BY <1>2, <1>4, <1>6, <1>7 DEF SessionInv

(* Where the interface is in each of its phases. *)
LEMMA Phases ==
  ASSUME SessionInv, ui # "UI_INIT"
  PROVE  /\ Now > 0 /\ Now \in Nat
         /\ connected <=> HasConnection
         /\ HasConnection \/ NotConnected => table = Opened(Len(workers))
         /\ ~ connected => NotConnected \/ DeadEnd
         /\ ui \in {"SEND_JOIN", "MAIN", "adding", "done"} => HasConnection
         /\ ui = "WAIT_MSG" /\ um_queue[Now] # <<>> => HasConnection
         /\ ui \in {"WAIT_INPUT", "TO_CONNECT"} => HasConnection \/ NotConnected
<1>1. Screen /\ TypeOK
  BY DEF SessionInv
<1>2. Now \in Nat /\ connected \in BOOLEAN
  BY <1>1, Parts DEF TypeOK
<1> QED
  BY <1>1, <1>2 DEF Screen, NotStarted, NotConnected, HasConnection, DeadEnd

(* The session's connection, where it has one. *)
LEMMA Connection ==
  ASSUME SessionInv, HasConnection
  PROVE  /\ Len(workers) \in DOMAIN workers /\ workers[Len(workers)].queue = Now
         /\ \A v \in DOMAIN workers : workers[v].queue = Now => v = Len(workers)
<1>1. TypeOK /\ OwnQueue
  BY DEF SessionInv
<1>2. Len(workers) \in Nat /\ DOMAIN workers = 1 .. Len(workers) /\ workers # <<>>
  BY <1>1, Parts DEF HasConnection
<1>3. Len(workers) \in DOMAIN workers
  BY <1>1, <1>2, EmptySequence DEF TypeOK
<1> QED
  BY <1>1, <1>3 DEF HasConnection, OwnQueue

LEMMA SessionQueues ==
  ASSUME SessionInv, Now > 0
  PROVE  /\ send_queue[Now] \in Seq(Requests \cup {"UM_DISCONN"})
         /\ um_queue[Now] \in Seq(Replies \cup {"UM_DISCONN"})
         /\ UNCHANGED send_queue => send_queue' = [send_queue EXCEPT ![Now] = send_queue[Now]]
         /\ UNCHANGED um_queue => um_queue' = [um_queue EXCEPT ![Now] = um_queue[Now]]
<1>1. TypeOK /\ Now \in 1 .. Now /\ Now \in DOMAIN send_queue /\ Now \in DOMAIN um_queue
  BY Parts DEF SessionInv
<1>2. /\ send_queue[Now] \in Seq(Requests \cup {"UM_DISCONN"})
      /\ um_queue[Now] \in Seq(Replies \cup {"UM_DISCONN"})
  BY <1>1, Parts
<1>3. /\ send_queue = [send_queue EXCEPT ![Now] = send_queue[Now]]
      /\ um_queue = [um_queue EXCEPT ![Now] = um_queue[Now]]
  BY <1>1, Same DEF TypeOK
<1> QED
  BY <1>2, <1>3, Zenon

(* The connection of the session as the interface finds it. *)
LEMMA Talking ==
  ASSUME SessionInv, ui # "UI_INIT", NEW v \in DOMAIN workers, workers[v].queue = Now
  PROVE  /\ OutEnds(workers[v].out, send_queue[Now]) /\ InEnds(workers[v].in, um_queue[Now])
         /\ lines[v].alive =>
              During(ui, stage[v], lines[v].up, workers[v].out.held, send_queue[Now],
                     um_queue[Now], workers[v].in.held, lines[v].down)
         /\ lines[v].up \in Seq(Messages) /\ workers[v].out.held \in Seq(Messages)
         /\ send_queue[Now] \in Seq(Messages) /\ um_queue[Now] \in Seq(Messages)
  BY Mine, InMessages DEF Talk

(* A step that only moves the interface, between phases that expect the    *)
(* same of the connection.                                                 *)
LEMMA MoveInv ==
  ASSUME SessionInv, ui # "UI_INIT", ui' # "UI_INIT", ui' \in UiPhases,
         connected' = connected, fd' \in Int, table' = table,
         UNCHANGED <<queueVars, workers, lines, stage>>,
         HasConnection \/ NotConnected,
         HasConnection => fd' = fd,
         NotConnected => ui' \in {"WAIT_INPUT", "TO_CONNECT"},
         \/ {ui, ui'} \subseteq {"WAIT_INPUT", "TO_CONNECT", "SEND_JOIN"}
         \/ {ui, ui'} \subseteq {"MAIN", "adding", "done"}
  PROVE  SessionInv'
<1>1. TypeOK /\ Now > 0 /\ table = Opened(Len(workers))
  BY Phases DEF SessionInv
<1>2. /\ UNCHANGED workers /\ UNCHANGED lines /\ UNCHANGED stage
      /\ UNCHANGED send_queue /\ UNCHANGED um_queue
  BY DEF queueVars
<1>3. ScreenStep(send_queue[Now], um_queue[Now])
  BY <1>1, <1>2, SessionQueues DEF ScreenStep, TypeOK
<1>4. Screen'
  <2>1. Now' = Now /\ Opened(Len(workers))' = Opened(Len(workers))
    BY <1>2 DEF Now, Opened
  <2>2. HasConnection => HasConnection'
    BY <1>2, <2>1 DEF HasConnection
  <2>3. NotConnected => NotConnected'
    BY <1>2, <2>1 DEF NotConnected
  <2> QED
    BY <1>1, <2>1, <2>2, <2>3 DEF Screen
<1>5. ASSUME NEW v \in DOMAIN workers, workers[v].queue = Now
      PROVE  StillTalks(v, send_queue[Now], um_queue[Now])
  <2>1. /\ OutEnds(workers[v].out, send_queue[Now]) /\ InEnds(workers[v].in, um_queue[Now])
        /\ lines[v].alive =>
             During(ui, stage[v], lines[v].up, workers[v].out.held, send_queue[Now],
                    um_queue[Now], workers[v].in.held, lines[v].down)
    BY <1>5, Talking
  <2>2. ASSUME NEW st, NEW x, NEW y, NEW z, NEW d, NEW e, NEW f,
               During(ui, st, x, y, z, d, e, f)
        PROVE  During(ui', st, x, y, z, d, e, f)
    BY <2>2 DEF During
  <2> QED
    BY <2>1, <2>2 DEF StillTalks
<1> QED
  BY <1>3, <1>4, <1>5, ScreenStepInv

LEMMA EnterInv ==
  ASSUME SessionInv, Enter PROVE SessionInv'
<1>1. /\ ui = "WAIT_INPUT" /\ ui' = "TO_CONNECT" /\ connected' = connected /\ fd' = fd
      /\ UNCHANGED <<queueVars, workers, lines, stage>> /\ table' = table /\ fd \in Int
  BY DEF Enter, Goes, SessionInv, TypeOK
<1>2. HasConnection \/ NotConnected
  BY <1>1, Phases
<1> QED
  BY <1>1, <1>2, MoveInv DEF UiPhases

LEMMA ConnectFailsInv ==
  ASSUME SessionInv, ConnectFails PROVE SessionInv'
<1>1. /\ ui = "TO_CONNECT" /\ ui' = "WAIT_INPUT" /\ connected' = connected /\ fd' = -1
      /\ UNCHANGED <<queueVars, workers, lines, stage>> /\ table' = table /\ ~ connected
  BY DEF ConnectFails
<1>2. NotConnected /\ ~ HasConnection
  BY <1>1, Phases DEF HasConnection
<1> QED
  BY <1>1, <1>2, MoveInv DEF UiPhases

LEMMA ConnectedAlreadyInv ==
  ASSUME SessionInv, ConnectedAlready PROVE SessionInv'
<1>1. /\ ui = "TO_CONNECT" /\ ui' = "SEND_JOIN" /\ connected' = connected /\ fd' = fd
      /\ UNCHANGED <<queueVars, workers, lines, stage>> /\ table' = table /\ connected
      /\ fd \in Int
  BY DEF ConnectedAlready, Goes, SessionInv, TypeOK
<1>2. HasConnection /\ ~ NotConnected
  BY <1>1, Phases DEF NotConnected
<1> QED
  BY <1>1, <1>2, MoveInv DEF UiPhases

LEMMA MainKeyInv ==
  ASSUME SessionInv, MainKey PROVE SessionInv'
<1>1. /\ ui = "MAIN" /\ ui' \in {"adding", "done"} /\ connected' = connected /\ fd' = fd
      /\ UNCHANGED <<queueVars, workers, lines, stage>> /\ table' = table /\ fd \in Int
  BY DEF MainKey, Goes, SessionInv, TypeOK
<1>2. HasConnection /\ ~ NotConnected
  BY <1>1, Phases DEF NotConnected
<1> QED
  BY <1>1, <1>2, MoveInv DEF UiPhases

(* The interface adds m to the queue of its session. *)
LEMMA AddsInv ==
  ASSUME SessionInv, NEW m \in Requests, ui' \in UiPhases,
         \/ ui = "SEND_JOIN" /\ m = "JOIN" /\ ui' = "WAIT_MSG"
         \/ ui = "adding" /\ m = "REQUEST" /\ ui' = "MAIN"
         \/ ui = "done" /\ m = "QUIT" /\ ui' = "UI_INIT",
         send_queue' = [send_queue EXCEPT ![Now] = Append(send_queue[Now], m)],
         UNCHANGED um_queue, UNCHANGED connected, UNCHANGED fd, UNCHANGED table,
         UNCHANGED workers, UNCHANGED lines, UNCHANGED stage
  PROVE  SessionInv'
<1> DEFINE sq == Append(send_queue[Now], m)
<1>1. TypeOK /\ Now > 0 /\ HasConnection /\ table = Opened(Len(workers)) /\ ui # "UI_INIT"
  BY Phases DEF SessionInv
<1>2. m # "UM_DISCONN" /\ m \in Messages /\ "REQUEST" \in Messages /\ "QUIT" \in Messages
  BY DEF Messages, Requests
<1>3. sq \in Seq(Requests \cup {"UM_DISCONN"})
  BY <1>1, SessionQueues, Appended
<1>4. ScreenStep(sq, um_queue[Now])
  <2> HIDE DEF sq
  <2>1. send_queue' = [send_queue EXCEPT ![Now] = sq]
    BY DEF sq
  <2> QED
    BY <1>1, <1>3, <2>1, SessionQueues DEF ScreenStep, TypeOK
<1>5. Screen'
  <2>1. Now' = Now /\ Opened(Len(workers))' = Opened(Len(workers))
    BY DEF Now, Opened
  <2>2. HasConnection'
    BY <1>1, <2>1 DEF HasConnection
  <2> QED
    BY <1>1, <2>1, <2>2 DEF Screen
<1>6. ASSUME NEW v \in DOMAIN workers, workers[v].queue = Now
      PROVE  StillTalks(v, sq, um_queue[Now])
  <2>1. /\ OutEnds(workers[v].out, send_queue[Now]) /\ InEnds(workers[v].in, um_queue[Now])
        /\ lines[v].alive =>
             During(ui, stage[v], lines[v].up, workers[v].out.held, send_queue[Now],
                    um_queue[Now], workers[v].in.held, lines[v].down)
        /\ send_queue[Now] \in Seq(Messages)
    BY <1>1, <1>6, Talking
  <2>2. OutEnds(workers[v].out, sq)
    BY <1>2, <2>1, WithoutKept DEF OutEnds
  <2>3. ASSUME NEW x, NEW y
        PROVE  /\ Nothing(x, y, send_queue[Now]) => One(m, x, y, sq)
               /\ AllAsk(x, y, send_queue[Now]) /\ m = "REQUEST" => AllAsk(x, y, sq)
               /\ AllAsk(x, y, send_queue[Now]) /\ m = "QUIT" => LastLeaves(x, y, sq)
    BY <1>2, <2>1, IntoZ
  <2>4. ASSUME NEW st, NEW x, NEW y, NEW d, NEW e, NEW f,
               During(ui, st, x, y, send_queue[Now], d, e, f)
        PROVE  IF ui' # "UI_INIT" THEN During(ui', st, x, y, sq, d, e, f)
                                  ELSE After(st, x, y, sq)
    <3> HIDE DEF sq
    <3>1. CASE ui = "SEND_JOIN" /\ m = "JOIN" /\ ui' = "WAIT_MSG"
      BY <2>3, <2>4, <3>1 DEF During
    <3>2. CASE ui = "adding" /\ m = "REQUEST" /\ ui' = "MAIN"
      BY <2>3, <2>4, <3>2 DEF During
    <3>3. CASE ui = "done" /\ m = "QUIT" /\ ui' = "UI_INIT"
      BY <2>3, <2>4, <3>3 DEF During, After
    <3> QED
      BY <3>1, <3>2, <3>3
  <2> HIDE DEF sq
  <2> QED
    BY <2>1, <2>2, <2>4 DEF StillTalks
<1> HIDE DEF sq
<1> QED
  BY <1>4, <1>5, <1>6, ScreenStepInv

LEMMA SendJoinInv ==
  ASSUME SessionInv, SendJoin PROVE SessionInv'
<1>1. /\ ui = "SEND_JOIN" /\ ui' = "WAIT_MSG" /\ connected' = connected /\ fd' = fd
      /\ send_queue' = [send_queue EXCEPT ![Now] = Append(send_queue[Now], "JOIN")]
      /\ UNCHANGED um_queue /\ UNCHANGED workers /\ UNCHANGED table /\ UNCHANGED lines
      /\ UNCHANGED stage
  BY DEF SendJoin, Adds, Goes
<1>2. "JOIN" \in Requests /\ "WAIT_MSG" \in UiPhases
  BY DEF Requests, UiPhases
<1> QED
  BY <1>1, <1>2, AddsInv

LEMMA MainAddsInv ==
  ASSUME SessionInv, MainAdds PROVE SessionInv'
<1>1. /\ connected' = connected /\ fd' = fd
      /\ UNCHANGED um_queue /\ UNCHANGED workers /\ UNCHANGED table /\ UNCHANGED lines
      /\ UNCHANGED stage
  BY DEF MainAdds, Adds, Goes
<1>2. /\ "REQUEST" \in Requests /\ "QUIT" \in Requests
      /\ "MAIN" \in UiPhases /\ "UI_INIT" \in UiPhases
  BY DEF Requests, UiPhases
<1>3. CASE /\ ui = "adding" /\ ui' = "MAIN"
           /\ send_queue' = [send_queue EXCEPT ![Now] = Append(send_queue[Now], "REQUEST")]
  BY <1>1, <1>2, <1>3, AddsInv
<1>4. CASE /\ ui = "done" /\ ui' = "UI_INIT"
           /\ send_queue' = [send_queue EXCEPT ![Now] = Append(send_queue[Now], "QUIT")]
  BY <1>1, <1>2, <1>4, AddsInv
<1> QED
  BY <1>3, <1>4 DEF MainAdds, Adds, Goes

LEMMA InEndsTail ==
  ASSUME NEW in, NEW S, NEW uq \in Seq(S), uq # <<>>, InEnds(in, uq)
  PROVE  /\ InEnds(in, Tail(uq))
         /\ Head(uq) = "UM_DISCONN" => ~ in.run /\ in.held = <<>> /\ Tail(uq) = <<>>
<1>1. /\ Len(uq) \in Nat \ {0} /\ DOMAIN uq = 1 .. Len(uq) /\ Head(uq) = uq[1]
      /\ Len(Tail(uq)) = Len(uq) - 1 /\ Tail(uq) \in Seq(S)
      /\ DOMAIN Tail(uq) = 1 .. Len(uq) - 1
      /\ \A i \in DOMAIN Tail(uq) : i + 1 \in DOMAIN uq /\ Tail(uq)[i] = uq[i + 1]
  BY SeqIndex, EmptySequence, HeadTail
<1>2. Without(uq, "UM_DISCONN") =>
        Without(Tail(uq), "UM_DISCONN") /\ Head(uq) # "UM_DISCONN"
  BY <1>1 DEF Without
<1>3. ASSUME \A i \in DOMAIN uq : uq[i] = "UM_DISCONN" => i = Len(uq)
      PROVE  /\ \A i \in DOMAIN Tail(uq) : Tail(uq)[i] = "UM_DISCONN" => i = Len(Tail(uq))
             /\ Head(uq) = "UM_DISCONN" => Tail(uq) = <<>>
  <2>1. Head(uq) = "UM_DISCONN" => Len(Tail(uq)) = 0
    BY <1>1, <1>3
  <2>2. Head(uq) = "UM_DISCONN" => Tail(uq) = <<>>
    BY <1>1, <2>1, EmptySequence
  <2>3. \A i \in DOMAIN Tail(uq) : Tail(uq)[i] = "UM_DISCONN" => i = Len(Tail(uq))
    BY <1>1, <1>3
  <2> QED
    BY <2>2, <2>3
<1> QED
  BY <1>2, <1>3 DEF InEnds

(* The interface takes a message that is not the end of the connection, or *)
(* in the main screen any.                                                 *)
LEMMA TakesInv ==
  ASSUME SessionInv, HasConnection, um_queue[Now] # <<>>, ui' \in UiPhases,
         \/ /\ ui = "WAIT_MSG" /\ Head(um_queue[Now]) # "UM_DISCONN"
            /\ ui' = CASE Head(um_queue[Now]) = "JOIN_OK" -> "MAIN"
                       [] Head(um_queue[Now]) = "JOIN_ERR" -> "WAIT_INPUT"
                       [] Head(um_queue[Now]) = "OTHER" -> "WAIT_MSG"
         \/ ui = "MAIN" /\ ui' \in {"MAIN", "adding", "done"},
         um_queue' = [um_queue EXCEPT ![Now] = Tail(um_queue[Now])],
         UNCHANGED send_queue, UNCHANGED connected, UNCHANGED fd, UNCHANGED table,
         UNCHANGED workers, UNCHANGED lines, UNCHANGED stage
  PROVE  SessionInv'
<1> DEFINE old == um_queue[Now]
           uq == Tail(um_queue[Now])
<1>1. TypeOK /\ Now > 0 /\ table = Opened(Len(workers)) /\ ui # "UI_INIT"
  BY Phases DEF SessionInv
<1>2. old \in Seq(Replies \cup {"UM_DISCONN"})
  BY <1>1, SessionQueues
<1>3. uq \in Seq(Replies \cup {"UM_DISCONN"}) /\ Head(old) \in Replies \cup {"UM_DISCONN"}
  BY <1>2, HeadTail
<1>4. ScreenStep(send_queue[Now], uq)
  <2> HIDE DEF uq
  <2>1. um_queue' = [um_queue EXCEPT ![Now] = uq]
    BY DEF uq
  <2> QED
    BY <1>1, <1>3, <2>1, SessionQueues DEF ScreenStep, TypeOK
<1>5. Screen'
  <2>1. Now' = Now
    BY <1>1, <1>4, ScreenStepType
  <2>2. HasConnection' /\ Opened(Len(workers))' = Opened(Len(workers))
    BY <1>1, <2>1 DEF HasConnection, Opened
  <2> QED
    BY <1>1, <2>2 DEF Screen
<1>6. ASSUME NEW v \in DOMAIN workers, workers[v].queue = Now
      PROVE  StillTalks(v, send_queue[Now], uq)
  <2>1. /\ OutEnds(workers[v].out, send_queue[Now]) /\ InEnds(workers[v].in, old)
        /\ lines[v].alive =>
             During(ui, stage[v], lines[v].up, workers[v].out.held, send_queue[Now],
                    old, workers[v].in.held, lines[v].down)
        /\ old \in Seq(Messages)
    BY <1>1, <1>6, Talking
  <2>2. InEnds(workers[v].in, uq)
    BY <1>2, <2>1, InEndsTail
  <2>3. ASSUME NEW y, NEW z
        PROVE  /\ ~ Nothing(old, y, z)
               /\ One("JOIN_OK", old, y, z) => Head(old) = "JOIN_OK" /\ Nothing(uq, y, z)
               /\ One("JOIN_ERR", old, y, z) => Head(old) = "JOIN_ERR" /\ Nothing(uq, y, z)
    <3>1. /\ "REQUEST" \in Messages /\ "QUIT" \in Messages /\ "JOIN_OK" \in Messages
          /\ "JOIN_ERR" \in Messages
      BY DEF Messages, Requests, Replies
    <3> QED
      BY <2>1, <3>1, OutOfX
  <2>4. ASSUME NEW x, NEW y, NEW z, Nothing(x, y, z) PROVE AllAsk(x, y, z)
    BY <2>4 DEF Nothing, AllAsk, Asks
  <2>5. ASSUME NEW st, NEW x, NEW y, NEW z, NEW e, NEW f, During(ui, st, x, y, z, old, e, f)
        PROVE  ui' # "UI_INIT" /\ During(ui', st, x, y, z, uq, e, f)
    <3> HIDE DEF old, uq
    <3>1. CASE ui = "WAIT_MSG"
      <4>1. \/ st = "new" /\ Nothing(x, y, z) /\ Head(old) = "JOIN_ERR" /\ Nothing(uq, e, f)
            \/ st = "joined" /\ Nothing(x, y, z) /\ Head(old) = "JOIN_OK" /\ Nothing(uq, e, f)
        BY <2>3, <2>5, <3>1 DEF During
      <4>2. /\ Head(old) = "JOIN_ERR" => ui' = "WAIT_INPUT"
            /\ Head(old) = "JOIN_OK" => ui' = "MAIN"
        BY <3>1 DEF old
      <4> QED
        BY <2>4, <4>1, <4>2 DEF During
    <3>2. CASE ui = "MAIN"
      BY <2>5, <3>2 DEF During
    <3> QED
      BY <3>1, <3>2
  <2> HIDE DEF old, uq
  <2>6. lines[v].alive =>
          IF ui' # "UI_INIT"
            THEN During(ui', stage[v], lines[v].up, workers[v].out.held, send_queue[Now],
                        uq, workers[v].in.held, lines[v].down)
            ELSE After(stage[v], lines[v].up, workers[v].out.held, send_queue[Now])
    BY <2>1, <2>5
  <2> QED
    BY <2>1, <2>2, <2>6 DEF StillTalks
<1> HIDE DEF uq
<1> QED
  BY <1>4, <1>5, <1>6, ScreenStepInv

LEMMA MainTakeInv ==
  ASSUME SessionInv, MainTake PROVE SessionInv'
<1>1. /\ ui = "MAIN" /\ um_queue[Now] # <<>> /\ ui' \in {"MAIN", "adding", "done"}
      /\ um_queue' = [um_queue EXCEPT ![Now] = Tail(um_queue[Now])]
      /\ UNCHANGED send_queue /\ UNCHANGED connected /\ UNCHANGED fd /\ UNCHANGED table
      /\ UNCHANGED workers /\ UNCHANGED lines /\ UNCHANGED stage
  BY DEF MainTake, Goes
<1>2. HasConnection /\ ui' \in UiPhases
  BY <1>1, Phases DEF UiPhases
<1> QED
  BY <1>1, <1>2, TakesInv

LEMMA WaitMsgInv ==
  ASSUME SessionInv, WaitMsg PROVE SessionInv'
<1> DEFINE old == um_queue[Now]
           uq == Tail(um_queue[Now])
           n == Len(workers)
<1>1. /\ ui = "WAIT_MSG" /\ old # <<>> /\ um_queue' = [um_queue EXCEPT ![Now] = uq]
      /\ UNCHANGED send_queue /\ UNCHANGED workers /\ UNCHANGED lines /\ UNCHANGED stage
  BY DEF WaitMsg
<1>2. HasConnection /\ Now > 0 /\ TypeOK /\ table = Opened(n) /\ ui # "UI_INIT"
  BY <1>1, Phases DEF SessionInv
<1>3. old \in Seq(Replies \cup {"UM_DISCONN"})
  BY <1>2, SessionQueues
<1>4. uq \in Seq(Replies \cup {"UM_DISCONN"}) /\ Head(old) \in Replies \cup {"UM_DISCONN"}
  BY <1>1, <1>3, HeadTail
<1>5. CASE Head(old) # "UM_DISCONN"
  <2>1. /\ ui' = CASE Head(old) = "JOIN_OK" -> "MAIN"
                   [] Head(old) = "JOIN_ERR" -> "WAIT_INPUT"
                   [] Head(old) = "OTHER" -> "WAIT_MSG"
        /\ UNCHANGED connected /\ UNCHANGED fd /\ UNCHANGED table
    BY <1>5 DEF WaitMsg, Goes
  <2>2. ui' \in UiPhases
    BY <1>4, <1>5, <2>1 DEF UiPhases, Replies
  <2> QED
    BY <1>1, <1>2, <1>5, <2>1, <2>2, TakesInv
<1>6. CASE Head(old) = "UM_DISCONN"
  <2>1. n \in DOMAIN workers /\ workers[n].queue = Now
        /\ \A v \in DOMAIN workers : workers[v].queue = Now => v = n
    BY <1>2, Connection
  <2>2. InEnds(workers[n].in, old) /\ OutEnds(workers[n].out, send_queue[Now])
    BY <1>2, <2>1, Talking
  <2>3. /\ InEnds(workers[n].in, uq) /\ ~ workers[n].in.run /\ workers[n].in.held = <<>>
        /\ uq = <<>>
    BY <1>1, <1>3, <1>6, <2>2, InEndsTail
  <2>4. n \in Nat /\ n > 0 /\ n <= MaxConns /\ n + 2 \in Descriptors /\ fd = n + 2
    <3>1. n \in Nat /\ n > 0 /\ n <= MaxConns /\ fd = n + 2
      BY <1>2, <2>1, Parts DEF HasConnection, TypeOK
    <3> QED
      BY <3>1, SessionAssumption DEF Descriptors
  <2>5. /\ table' = [Opened(n) EXCEPT ![n + 2] = 0]
        /\ connected' = FALSE /\ fd' = -1 /\ ui' = ui
    <3>1. fd # -1
      BY <2>4
    <3> QED
      BY <1>2, <1>6, <2>4, <3>1 DEF WaitMsg
  <2>6. table' \in [Descriptors -> 0 .. MaxConns]
    <3>1. Opened(n) \in [Descriptors -> 0 .. MaxConns]
      BY <1>2 DEF TypeOK
    <3> QED
      BY <2>4, <2>5, <3>1, SessionAssumption
  <2>7. ScreenStep(send_queue[Now], uq)
    <3>a. connected' \in BOOLEAN
      BY <2>5, Zenon
    <3>b. fd' \in Int
      BY <2>5
    <3>c. ui' \in UiPhases
      BY <1>2, <2>5 DEF TypeOK
    <3>1. connected' \in BOOLEAN /\ fd' \in Int /\ ui' \in UiPhases
      BY <3>a, <3>b, <3>c, Zenon
    <3>2. send_queue' = [send_queue EXCEPT ![Now] = send_queue[Now]]
          /\ send_queue[Now] \in Seq(Requests \cup {"UM_DISCONN"})
      BY <1>1, <1>2, SessionQueues
    <3> HIDE DEF uq
    <3> QED
      BY <1>1, <1>2, <1>4, <2>6, <3>1, <3>2 DEF ScreenStep
  <2>8. Now' = Now /\ um_queue'[Now] = uq
    BY <1>2, <2>7, ScreenStepType
  <2>9. Screen'
    <3>1. workers[n].in = [held |-> <<>>, run |-> FALSE]
      <4>1. workers[n].in \in Worker(Replies)
        BY <2>1, Mine
      <4>2. workers[n].in = [held |-> workers[n].in.held, run |-> workers[n].in.run]
        BY <4>1 DEF Worker
      <4>3. workers[n].in.run = FALSE
        BY <2>1, <2>3, Mine
      <4> QED
        BY <2>3, <4>2, <4>3, Zenon
    <3>2. DeadEnd'
      BY <1>1, <1>2, <2>1, <2>3, <2>5, <2>8, <3>1 DEF DeadEnd, HasConnection
    <3>3. n' = n /\ Opened(n)' = Opened(n)
      BY <1>1 DEF Opened
    <3>4. [Opened(n) EXCEPT ![n + 2] = 0]' = [Opened(n) EXCEPT ![n + 2] = 0]
      BY <3>3
    <3> QED
      BY <2>5, <3>2, <3>4 DEF Screen
  <2>10. ASSUME NEW v \in DOMAIN workers, workers[v].queue = Now
         PROVE  StillTalks(v, send_queue[Now], uq)
    <3>1. v = n /\ ~ lines[v].alive
      BY <2>1, <2>3, <2>10, Mine
    <3> QED
      BY <2>2, <2>3, <3>1 DEF StillTalks
  <2> QED
    BY <2>7, <2>9, <2>10, ScreenStepInv
<1> QED
  BY <1>5, <1>6

LEMMA UiInitInv ==
  ASSUME SessionInv, ui_init PROVE SessionInv'
<1>1. TypeOK /\ Screen /\ OwnQueue /\ DeadIsEmpty
  BY DEF SessionInv
<1>2. /\ ui = "UI_INIT" /\ ui' = "WAIT_INPUT" /\ connected' = FALSE /\ fd' = 0
      /\ um_queue' = Append(um_queue, <<>>) /\ send_queue' = Append(send_queue, <<>>)
      /\ workers' = workers /\ table' = table /\ lines' = lines /\ stage' = stage
  BY DEF ui_init
<1>3. Now \in Nat /\ Len(send_queue) = Now /\ DOMAIN um_queue = 1 .. Now
      /\ DOMAIN send_queue = 1 .. Now
  BY <1>1, Parts DEF TypeOK
<1>4. /\ um_queue' \in Seq(Seq(Replies \cup {"UM_DISCONN"}))
      /\ Len(um_queue') = Now + 1 /\ um_queue'[Now + 1] = <<>>
      /\ \A q \in 1 .. Now : um_queue'[q] = um_queue[q]
  <2>1. <<>> \in Seq(Replies \cup {"UM_DISCONN"})
    OBVIOUS
  <2> QED
    BY <1>1, <1>2, <1>3, <2>1, Appended DEF TypeOK, Now
<1>5. /\ send_queue' \in Seq(Seq(Requests \cup {"UM_DISCONN"}))
      /\ Len(send_queue') = Now + 1 /\ send_queue'[Now + 1] = <<>>
      /\ \A q \in 1 .. Now : send_queue'[q] = send_queue[q]
  <2>1. <<>> \in Seq(Requests \cup {"UM_DISCONN"})
    OBVIOUS
  <2> QED
    BY <1>1, <1>2, <1>3, <2>1, Appended DEF TypeOK
<1>6. Now' = Now + 1
  BY <1>4 DEF Now
<1>7. ASSUME NEW v \in DOMAIN workers
      PROVE  workers[v].queue \in 1 .. Now /\ workers[v].queue # Now'
  BY <1>3, <1>6, Mine
<1>8. TypeOK'
  <2>1. workers \in Seq(Workers(Now + 1))
    <3>1. Workers(Now) \subseteq Workers(Now + 1)
      BY <1>3 DEF Workers
    <3> QED
      BY <1>1, <3>1 DEF TypeOK
  <2> QED
    <3>a. connected' \in BOOLEAN
      BY <1>2, Zenon
    <3>b. fd' \in Int
      BY <1>2
    <3>c. ui' \in UiPhases
      BY <1>2 DEF UiPhases
    <3>1. connected' \in BOOLEAN /\ fd' \in Int /\ ui' \in UiPhases
      BY <3>a, <3>b, <3>c, Zenon
    <3>2. /\ lines \in Seq(Line) /\ stage \in Seq({"new", "joined", "gone"})
          /\ Len(lines) = Len(workers) /\ Len(stage) = Len(workers)
          /\ Len(workers) <= MaxConns /\ table \in [Descriptors -> 0 .. MaxConns]
      BY <1>1 DEF TypeOK
    <3>3. workers' \in Seq(Workers(Now')) /\ Len(send_queue') = Now'
      BY <1>2, <1>5, <1>6, <2>1
    <3> QED
      BY <1>2, <1>4, <1>5, <3>1, <3>2, <3>3 DEF TypeOK
<1>9. Screen'
  <2>1. table = Opened(Len(workers))
    BY <1>1, <1>2 DEF Screen, DeadEnd
  <2>2. NotConnected'
    BY <1>2, <1>3, <1>4, <1>5, <1>6, <1>7 DEF NotConnected
  <2>3. Opened(Len(workers))' = Opened(Len(workers))
    BY <1>2 DEF Opened
  <2> QED
    BY <1>2, <2>1, <2>2, <2>3 DEF Screen
<1>10. OwnQueue' /\ DeadIsEmpty'
  BY <1>1, <1>2 DEF OwnQueue, DeadIsEmpty
<1>11. ASSUME NEW v \in DOMAIN workers
       PROVE  /\ OutEnds(workers[v].out, send_queue'[workers[v].queue])
              /\ InEnds(workers[v].in, um_queue'[workers[v].queue])
              /\ lines[v].alive => workers[v].out.run /\ workers[v].in.run /\ Talk(v)'
  <2>1. /\ OutEnds(workers[v].out, send_queue[workers[v].queue])
        /\ InEnds(workers[v].in, um_queue[workers[v].queue])
        /\ lines[v].alive => workers[v].out.run /\ workers[v].in.run /\ Talk(v)
    BY Mine
  <2>2. /\ send_queue'[workers[v].queue] = send_queue[workers[v].queue]
        /\ um_queue'[workers[v].queue] = um_queue[workers[v].queue]
    BY <1>4, <1>5, <1>7
  <2>3. Talk(v) => Talk(v)'
    BY <1>2, <1>7, <2>2 DEF Talk
  <2> QED
    BY <2>1, <2>2, <2>3
<1>12. EndIsLast'
  BY <1>2, <1>11 DEF EndIsLast
<1>13. Conversation'
  <2> SUFFICES ASSUME NEW v \in DOMAIN workers', lines'[v].alive
               PROVE  workers'[v].out.run /\ workers'[v].in.run /\ Talk(v)'
    BY DEF Conversation
  <2> QED
    BY <1>2, <1>11
<1> QED
  BY <1>8, <1>9, <1>10, <1>12, <1>13 DEF SessionInv

(* The lowest free descriptor is the next one: no closed one is below it. *)
LEMMA LowestFree ==
  ASSUME NEW n \in Nat, n < MaxConns, table = Opened(n)
  PROVE  /\ n + 3 \in Descriptors
         /\ (CHOOSE d \in Descriptors :
               table[d] = 0 /\ \A e \in Descriptors : table[e] = 0 => d <= e) = n + 3
         /\ [table EXCEPT ![n + 3] = n + 1] = Opened(n + 1)
<1>1. MaxConns \in Nat /\ n + 3 \in Descriptors
  BY SessionAssumption DEF Descriptors
<1>2. ASSUME NEW d \in Descriptors PROVE d \in Nat /\ d >= 3
  BY <1>1 DEF Descriptors
<1>3. ASSUME NEW d \in Descriptors PROVE (table[d] = 0) <=> (n + 3 <= d)
  <2>1. table[d] = IF d <= n + 2 THEN d - 2 ELSE 0
    BY <1>3 DEF Opened
  <2> QED
    BY <1>2, <2>1
<1>4. table[n + 3] = 0 /\ \A e \in Descriptors : table[e] = 0 => n + 3 <= e
  BY <1>1, <1>3
<1>5. ASSUME NEW d \in Descriptors, table[d] = 0,
             \A e \in Descriptors : table[e] = 0 => d <= e
      PROVE  d = n + 3
  <2>1. d <= n + 3 /\ n + 3 <= d
    BY <1>1, <1>3, <1>4, <1>5
  <2> QED
    BY <1>2, <2>1
<1> DEFINE Lowest(d) == table[d] = 0 /\ \A e \in Descriptors : table[e] = 0 => d <= e
<1>6. (CHOOSE d \in Descriptors : Lowest(d)) = n + 3
  <2>1. Lowest(n + 3) /\ n + 3 \in Descriptors
    BY <1>1, <1>4
  <2>2. \A d \in Descriptors : Lowest(d) => d = n + 3
    BY <1>5
  <2> HIDE DEF Lowest
  <2> QED
    BY <2>1, <2>2
<1>7. [table EXCEPT ![n + 3] = n + 1] = Opened(n + 1)
  <2>1. ASSUME NEW d \in Descriptors
        PROVE  [table EXCEPT ![n + 3] = n + 1][d] = Opened(n + 1)[d]
    BY <1>2 DEF Opened
  <2>2. Opened(n + 1) = [d \in Descriptors |-> Opened(n + 1)[d]]
        /\ [table EXCEPT ![n + 3] = n + 1]
             = [d \in Descriptors |-> [table EXCEPT ![n + 3] = n + 1][d]]
    BY DEF Opened
  <2> QED
    BY <2>1, <2>2, Zenon
<1> QED
  BY <1>1, <1>6, <1>7

NewLine == [up |-> <<>>, down |-> <<>>, alive |-> TRUE]
NewWorkers(n) == [fd |-> n + 3, queue |-> Now, in |-> Idle, out |-> Idle]

LEMMA Newborn ==
  ASSUME NEW n \in Nat, n + 3 \in Descriptors, Now \in Nat, Now > 0
  PROVE  /\ Idle.run /\ Idle.held = <<>> /\ Idle \in Worker(Replies)
         /\ Idle \in Worker(Requests)
         /\ NewLine.alive /\ NewLine.up = <<>> /\ NewLine.down = <<>> /\ NewLine \in Line
         /\ NewWorkers(n).fd = n + 3 /\ NewWorkers(n).queue = Now
         /\ NewWorkers(n).in = Idle /\ NewWorkers(n).out = Idle
         /\ NewWorkers(n) \in Workers(Now)
<1>1. Idle.run /\ NewLine.alive
  BY Zenon DEF Idle, NewLine
<1>2. \A M : <<>> \in Seq(M)
  OBVIOUS
<1>3. Idle \in Worker(Replies) /\ Idle \in Worker(Requests)
  BY <1>2, Zenon DEF Idle, Worker
<1>4. NewLine \in Line
  BY <1>2, Zenon DEF NewLine, Line
<1>5. Idle.held = <<>> /\ NewLine.up = <<>> /\ NewLine.down = <<>>
  BY Zenon DEF Idle, NewLine
<1>6. /\ NewWorkers(n).fd = n + 3 /\ NewWorkers(n).queue = Now
      /\ NewWorkers(n).in = Idle /\ NewWorkers(n).out = Idle
  BY DEF NewWorkers
<1>7. Now \in 1 .. Now
  OBVIOUS
<1>8. NewWorkers(n) \in Workers(Now)
  BY <1>3, <1>7 DEF NewWorkers, Workers
<1> QED
  BY <1>1, <1>3, <1>4, <1>5, <1>6, <1>8, Zenon

LEMMA ConnectInv ==
  ASSUME SessionInv, Connect PROVE SessionInv'
<1> PICK n : n = Len(workers)
  OBVIOUS
<1>1. TypeOK /\ OwnQueue /\ DeadIsEmpty
  BY DEF SessionInv
<1>2. ui = "TO_CONNECT" /\ ~ connected /\ n = Len(lines) /\ n = Len(stage) /\ n < MaxConns
  BY <1>1 DEF Connect, TypeOK
<1>3. NotConnected /\ table = Opened(n) /\ Now > 0 /\ Now \in Nat
  <2>1. ui # "UI_INIT" /\ ui # "WAIT_MSG"
    BY <1>2
  <2>2. ~ DeadEnd
    BY <2>1 DEF DeadEnd
  <2> QED
    BY <1>2, <2>1, <2>2, Phases
<1>4. n \in Nat /\ DOMAIN workers = 1 .. n /\ DOMAIN lines = 1 .. n /\ DOMAIN stage = 1 .. n
  BY <1>1, Parts
<1>5. /\ n + 3 \in Descriptors /\ fd' = n + 3 /\ table' = Opened(n + 1)
      /\ workers' = Append(workers, NewWorkers(n))
  <2>1. /\ n + 3 \in Descriptors
        /\ (CHOOSE d \in Descriptors :
               table[d] = 0 /\ \A e \in Descriptors : table[e] = 0 => d <= e) = n + 3
        /\ [table EXCEPT ![n + 3] = n + 1] = Opened(n + 1)
    BY <1>2, <1>3, <1>4, LowestFree
  <2> QED
    BY <1>2, <2>1 DEF Connect, NewWorkers
<1>6. /\ lines' = Append(lines, NewLine) /\ stage' = Append(stage, "new")
      /\ ui' = "SEND_JOIN" /\ um_queue' = um_queue /\ send_queue' = send_queue
  BY Zenon DEF Connect, NewLine, queueVars
<1>7. connected' = TRUE
  BY Zenon DEF Connect
<1>8. Now' = Now
  BY <1>6 DEF Now
<1>9. /\ Idle.run /\ Idle.held = <<>> /\ Idle \in Worker(Replies)
      /\ Idle \in Worker(Requests)
      /\ NewLine.alive /\ NewLine.up = <<>> /\ NewLine.down = <<>> /\ NewLine \in Line
      /\ NewWorkers(n).fd = n + 3 /\ NewWorkers(n).queue = Now
      /\ NewWorkers(n).in = Idle /\ NewWorkers(n).out = Idle
      /\ NewWorkers(n) \in Workers(Now)
  BY <1>3, <1>4, <1>5, Newborn
<1>10. /\ workers' \in Seq(Workers(Now)) /\ Len(workers') = n + 1
       /\ DOMAIN workers' = 1 .. n + 1 /\ workers' # <<>>
       /\ workers'[n + 1] = NewWorkers(n)
       /\ \A w \in 1 .. n : workers'[w] = workers[w]
  BY <1>1, <1>4, <1>5, <1>9, Appended DEF TypeOK
<1>11. /\ lines' \in Seq(Line) /\ Len(lines') = n + 1 /\ lines'[n + 1] = NewLine
       /\ \A w \in 1 .. n : lines'[w] = lines[w]
  BY <1>1, <1>2, <1>4, <1>6, <1>9, Appended DEF TypeOK
<1>12. /\ stage' \in Seq({"new", "joined", "gone"}) /\ Len(stage') = n + 1
       /\ stage'[n + 1] = "new" /\ \A w \in 1 .. n : stage'[w] = stage[w]
  BY <1>1, <1>2, <1>4, <1>6, Appended DEF TypeOK
<1>13. um_queue[Now] = <<>> /\ send_queue[Now] = <<>>
       /\ \A w \in 1 .. n : workers[w].queue # Now
  BY <1>3, <1>4 DEF NotConnected
<1>14. \A w \in DOMAIN workers' : w \in 1 .. n \/ w = n + 1
  BY <1>4, <1>10
<1>15. TypeOK'
  <2>1. connected' \in BOOLEAN
    BY <1>7, Zenon
  <2>2. fd' \in Int /\ ui' \in UiPhases /\ n + 1 <= MaxConns
    BY <1>2, <1>4, <1>5, <1>6, SessionAssumption DEF UiPhases
  <2>3. table' \in [Descriptors -> 0 .. MaxConns]
    BY <1>2, <1>4, <1>5, SessionAssumption DEF Opened, Descriptors
  <2>4. /\ um_queue' \in Seq(Seq(Replies \cup {"UM_DISCONN"}))
        /\ send_queue' \in Seq(Seq(Requests \cup {"UM_DISCONN"}))
        /\ Len(send_queue') = Now'
    BY <1>1, <1>6, <1>8 DEF TypeOK
  <2>5. Len(lines') = Len(workers') /\ Len(stage') = Len(workers')
        /\ Len(workers') <= MaxConns /\ workers' \in Seq(Workers(Now'))
    BY <1>8, <1>10, <1>11, <1>12, <2>2
  <2> QED
    BY <1>11, <1>12, <2>1, <2>2, <2>3, <2>4, <2>5 DEF TypeOK
<1>16. Screen'
  <2>1. /\ Now' > 0 /\ workers' # <<>> /\ workers'[Len(workers')].queue = Now'
        /\ fd' = Len(workers') + 2
    BY <1>3, <1>4, <1>5, <1>8, <1>9, <1>10
  <2>2. HasConnection'
    BY <1>7, <2>1, Zenon DEF HasConnection
  <2>3. Opened(Len(workers))' = Opened(n + 1)
    BY <1>10 DEF Opened
  <2> QED
    BY <1>5, <2>2, <2>3 DEF Screen
<1>17. OwnQueue'
  <2>1. SUFFICES ASSUME NEW w \in DOMAIN workers'
                 PROVE  /\ workers'[w].fd = w + 2
                        /\ \A v \in DOMAIN workers' :
                             workers'[v].queue = workers'[w].queue => v = w
    BY DEF OwnQueue
  <2>2. CASE w = n + 1
    BY <1>4, <1>9, <1>10, <1>13, <1>14, <2>2
  <2>3. CASE w \in 1 .. n
    <3>1. workers'[w] = workers[w] /\ w \in DOMAIN workers /\ workers[w].queue # Now
      BY <1>4, <1>10, <1>13, <2>3
    <3>2. workers[w].fd = w + 2
          /\ \A v \in DOMAIN workers : workers[v].queue = workers[w].queue => v = w
      BY <1>1, <3>1 DEF OwnQueue
    <3> QED
      BY <1>4, <1>9, <1>10, <1>14, <3>1, <3>2
  <2> QED
    BY <1>14, <2>1, <2>2, <2>3
<1>18. ASSUME NEW w \in 1 .. n
       PROVE  /\ OutEnds(workers'[w].out, send_queue'[workers'[w].queue])
              /\ InEnds(workers'[w].in, um_queue'[workers'[w].queue])
              /\ lines'[w].alive => workers'[w].out.run /\ workers'[w].in.run /\ Talk(w)'
              /\ ~ lines'[w].alive => lines'[w].up = <<>>
  <2>1. /\ workers'[w] = workers[w] /\ lines'[w] = lines[w] /\ stage'[w] = stage[w]
        /\ w \in DOMAIN workers /\ workers[w].queue # Now
    BY <1>4, <1>10, <1>11, <1>12, <1>13
  <2>2. /\ OutEnds(workers[w].out, send_queue[workers[w].queue])
        /\ InEnds(workers[w].in, um_queue[workers[w].queue])
        /\ ~ lines[w].alive => lines[w].up = <<>>
        /\ lines[w].alive => workers[w].out.run /\ workers[w].in.run /\ Talk(w)
    BY <2>1, Mine
  <2>3. Talk(w) => Talk(w)'
    BY <1>6, <1>8, <2>1 DEF Talk
  <2> QED
    BY <1>6, <2>1, <2>2, <2>3
<1>19. /\ OutEnds(workers'[n + 1].out, send_queue'[workers'[n + 1].queue])
       /\ InEnds(workers'[n + 1].in, um_queue'[workers'[n + 1].queue])
       /\ workers'[n + 1].out.run /\ workers'[n + 1].in.run /\ Talk(n + 1)'
       /\ lines'[n + 1].alive
  <2>1. /\ workers'[n + 1].out = Idle /\ workers'[n + 1].in = Idle
        /\ workers'[n + 1].queue = Now /\ lines'[n + 1] = NewLine
    BY <1>9, <1>10, <1>11
  <2>2. \A m : Without(<<>>, m)
    BY DEF Without
  <2>3. OutEnds(Idle, <<>>) /\ InEnds(Idle, <<>>)
    BY <1>9, <2>2, Zenon DEF OutEnds, InEnds
  <2>4. During("SEND_JOIN", "new", <<>>, <<>>, <<>>, <<>>, <<>>, <<>>)
    BY DEF During, Nothing
  <2>5. Talk(n + 1)'
    <3>1. During(ui', stage'[n + 1], lines'[n + 1].up, workers'[n + 1].out.held,
                 send_queue'[Now], um_queue'[Now], workers'[n + 1].in.held,
                 lines'[n + 1].down)
      BY <1>6, <1>9, <1>12, <1>13, <2>1, <2>4
    <3>2. ui' # "UI_INIT" /\ workers'[n + 1].queue = Now'
      BY <1>6, <1>8, <2>1
    <3>3. workers'[n + 1].queue = Now
      BY <2>1
    <3> QED
      BY <3>1, <3>2, <3>3 DEF Talk
  <2>6. /\ OutEnds(workers'[n + 1].out, send_queue'[workers'[n + 1].queue])
        /\ InEnds(workers'[n + 1].in, um_queue'[workers'[n + 1].queue])
    BY <1>6, <1>13, <2>1, <2>3
  <2>7. workers'[n + 1].out.run /\ workers'[n + 1].in.run /\ lines'[n + 1].alive
    BY <1>9, <2>1
  <2> QED
    BY <2>5, <2>6, <2>7
<1>20. EndIsLast'
  <2> SUFFICES ASSUME NEW w \in DOMAIN workers'
               PROVE  /\ OutEnds(workers'[w].out, send_queue'[workers'[w].queue])
                      /\ InEnds(workers'[w].in, um_queue'[workers'[w].queue])
    BY DEF EndIsLast
  <2> QED
    BY <1>14, <1>18, <1>19
<1>21. Conversation'
  <2> SUFFICES ASSUME NEW w \in DOMAIN workers', lines'[w].alive
               PROVE  workers'[w].out.run /\ workers'[w].in.run /\ Talk(w)'
    BY DEF Conversation
  <2> QED
    BY <1>14, <1>18, <1>19
<1>22. DeadIsEmpty'
  <2> SUFFICES ASSUME NEW w \in DOMAIN workers', ~ lines'[w].alive
               PROVE  lines'[w].up = <<>>
    BY DEF DeadIsEmpty
  <2> QED
    BY <1>14, <1>18, <1>19
<1> QED
  BY <1>15, <1>16, <1>17, <1>20, <1>21, <1>22 DEF SessionInv
----------------------------------------------------------------------------
LEMMA SessionInit ==
  ASSUME Init PROVE SessionInv
<1>1. /\ um_queue = <<>> /\ send_queue = <<>> /\ workers = <<>> /\ lines = <<>>
      /\ stage = <<>> /\ ui = "UI_INIT" /\ fd = 0
      /\ table = [d \in Descriptors |-> 0]
  BY DEF Init
<1>2. connected = FALSE
  BY Zenon DEF Init
<1>3. Now = 0 /\ Len(workers) = 0 /\ DOMAIN workers = {} /\ 0 \in 0 .. MaxConns
  BY <1>1, SessionAssumption DEF Now
<1>4. TypeOK
  <2>1. connected \in BOOLEAN
    BY <1>2, Zenon
  <2>2. ui \in UiPhases /\ fd \in Int /\ table \in [Descriptors -> 0 .. MaxConns]
        /\ Len(send_queue) = Now /\ Len(lines) = Len(workers)
        /\ Len(stage) = Len(workers) /\ Len(workers) <= MaxConns
    BY <1>1, <1>3, SessionAssumption DEF UiPhases
  <2>3. \A S : <<>> \in Seq(S)
    OBVIOUS
  <2> QED
    BY <1>1, <2>1, <2>2, <2>3, Zenon DEF TypeOK
<1>5. Screen
  <2>1. table = Opened(Len(workers))
    BY <1>1, <1>3 DEF Opened, Descriptors
  <2>2. NotStarted
    BY <1>1, <1>2, <1>3, Zenon DEF NotStarted
  <2> QED
    BY <2>1, <2>2 DEF Screen
<1>6. OwnQueue /\ EndIsLast /\ Conversation /\ DeadIsEmpty
  BY <1>3 DEF OwnQueue, EndIsLast, Conversation, DeadIsEmpty
<1> QED
  BY <1>4, <1>5, <1>6 DEF SessionInv

LEMMA SessionStutter ==
  ASSUME SessionInv, UNCHANGED vars PROVE SessionInv'
<1>1. /\ ui' = ui /\ connected' = connected /\ fd' = fd /\ um_queue' = um_queue
      /\ send_queue' = send_queue /\ workers' = workers /\ table' = table
      /\ lines' = lines /\ stage' = stage
  BY DEF vars, uiVars, queueVars
<1>2. TypeOK' /\ Now' = Now
  BY <1>1 DEF SessionInv, TypeOK, Now
<1>3. Screen' /\ OwnQueue' /\ EndIsLast' /\ DeadIsEmpty'
  BY <1>1, <1>2 DEF SessionInv, Screen, NotStarted, NotConnected, HasConnection,
     DeadEnd, Opened, OwnQueue, EndIsLast, DeadIsEmpty
<1>4. Conversation'
  BY <1>1, <1>2 DEF SessionInv, Conversation, Talk
<1> QED
  BY <1>2, <1>3, <1>4 DEF SessionInv

(* SessionInvariant: whatever the player, the workers of all sessions, the *)
(* server and the network do, a session of the client program has at most  *)
(* one connection, whose workers alone hold its descriptor and its queues; *)
(* the news of its end is the last they tell; and what is in the two       *)
(* queues, the hands of the two workers and the two directions of the      *)
(* connection is together one login.                                       *)
THEOREM SessionInvariant == Spec => []SessionInv
<1>1. Init => SessionInv
  BY SessionInit
<1>2. SessionInv /\ [Next]_vars => SessionInv'
  <2> SUFFICES ASSUME SessionInv, [Next]_vars PROVE SessionInv'
    OBVIOUS
  <2>1. CASE ui_init \/ Enter
    BY <2>1, UiInitInv, EnterInv
  <2>2. CASE UiLogin
    BY <2>2, ConnectInv, ConnectFailsInv, ConnectedAlreadyInv, SendJoinInv, WaitMsgInv
    DEF UiLogin
  <2>3. CASE MainTake \/ MainKey \/ MainAdds
    BY <2>3, MainTakeInv, MainKeyInv, MainAddsInv
  <2>4. ASSUME NEW w \in DOMAIN workers,
               OutTake(w) \/ OutSend(w) \/ OutEnd(w) \/ InRecv(w) \/ InAdd(w)
        PROVE  SessionInv'
    BY <2>4, OutTakeInv, OutSendInv, OutEndInv, InRecvInv, InAddInv
  <2>5. ASSUME NEW w \in DOMAIN workers, Serve(w) \/ Break(w)
        PROVE  SessionInv'
    BY <2>5, ServeInv, BreakInv
  <2>6. CASE UNCHANGED vars
    BY <2>6, SessionStutter
  <2> QED
    BY <2>1, <2>2, <2>3, <2>4, <2>5, <2>6 DEF Next
<1> QED
  BY <1>1, <1>2, PTL DEF Spec

(* SessionWellSequenced: what the server reads from a connection next is   *)
(* always what a client in its stage may send, a JOIN, then requests, then *)
(* one QUIT, although the workers of earlier sessions are never joined and *)
(* still hold descriptors and queues.                                      *)
THEOREM SessionWellSequenced == Spec => []WellSequenced
<1>1. SessionInv => WellSequenced
  <2> SUFFICES ASSUME SessionInv, NEW c \in DOMAIN lines, lines[c].up # <<>>
               PROVE  Head(lines[c].up) \in Expected[stage[c]]
    BY DEF WellSequenced
  <2>1. c \in DOMAIN workers /\ TypeOK
    BY Parts DEF SessionInv
  <2>2. lines[c].up \in Seq(Requests) /\ Talk(c)
    BY <2>1, Mine
  <2>3. "REQUEST" \in Requests /\ "QUIT" \in Requests /\ "JOIN" \in Requests
    BY DEF Requests
  <2>4. /\ Expected["new"] = {"JOIN"} /\ Expected["joined"] = {"REQUEST", "QUIT"}
    BY DEF Expected
  <2>5. ASSUME NEW y, NEW z
        PROVE  /\ ~ Nothing(lines[c].up, y, z)
               /\ One("JOIN", lines[c].up, y, z) => Head(lines[c].up) = "JOIN"
               /\ AllAsk(lines[c].up, y, z) => Head(lines[c].up) = "REQUEST"
               /\ LastLeaves(lines[c].up, y, z) => Head(lines[c].up) \in {"REQUEST", "QUIT"}
    BY <2>2, <2>3, OutOfX
  <2>6. CASE workers[c].queue = Now /\ ui # "UI_INIT"
    <3>1. During(ui, stage[c], lines[c].up, workers[c].out.held,
                 send_queue[workers[c].queue], um_queue[workers[c].queue],
                 workers[c].in.held, lines[c].down)
      BY <2>2, <2>6 DEF Talk
    <3> QED
      BY <2>4, <2>5, <3>1 DEF During
  <2>7. CASE ~ (workers[c].queue = Now /\ ui # "UI_INIT")
    <3>1. After(stage[c], lines[c].up, workers[c].out.held, send_queue[workers[c].queue])
      BY <2>2, <2>7 DEF Talk
    <3> QED
      BY <2>4, <2>5, <3>1 DEF After
  <2> QED
    BY <2>6, <2>7
<1> QED
  BY <1>1, SessionInvariant, PTL

(* SessionOneSender: no two running workers empty the same send_queue, and *)
(* the ui_msg_t that an ending worker adds to it, where only message_t     *)
(* belong, is never sent.                                                  *)
THEOREM SessionOneSender == Spec => []OneSender
<1>1. SessionInv => OneSender
  <2> SUFFICES ASSUME SessionInv, NEW w \in DOMAIN workers, workers[w].out.run
               PROVE  /\ "UM_DISCONN" \notin {send_queue[workers[w].queue][i] :
                                i \in DOMAIN send_queue[workers[w].queue]}
                      /\ \A v \in DOMAIN workers :
                           workers[v].out.run /\ workers[v].queue = workers[w].queue => v = w
    BY DEF OneSender
  <2>1. Without(send_queue[workers[w].queue], "UM_DISCONN")
    BY Mine DEF OutEnds
  <2>2. "UM_DISCONN" \notin {send_queue[workers[w].queue][i] :
                               i \in DOMAIN send_queue[workers[w].queue]}
    BY <2>1 DEF Without
  <2>3. \A v \in DOMAIN workers : workers[v].queue = workers[w].queue => v = w
    BY DEF SessionInv, OwnQueue
  <2> QED
    BY <2>2, <2>3
<1> QED
  BY <1>1, SessionInvariant, PTL
=============================================================================
