-------------------------------- MODULE Wire --------------------------------
(***************************************************************************)
(* One direction of a connection, down to the bytes (messages.c and        *)
(* recv_count of common.c): the packed layout of the messages, the         *)
(* conversion between the byte order of a host and that of the network,    *)
(* the reads that put a packet together and the checks on it.              *)
(*                                                                         *)
(* A byte is a number below 256; memory and the stream are sequences of    *)
(* bytes.                                                                  *)
(***************************************************************************)
EXTENDS Integers, SequencesExt, FiniteSetsExt

CONSTANTS
  UCHANGE_MAX_UCNT,   \* users a UCHANGE has room for
  TextLen,            \* bytes of a nickname or of a text
  Samples,            \* bound: the numbers that messages are made from
  Junk,               \* bound: what the bytes of a buffer may be at first
  MaxMsgs,            \* bound: messages that are sent
  ShortIn,            \* bound: the parts of a packet that recv may split ...
  MaxShort            \* ... and how often it does

ASSUME WireAssumption ==
  /\ UCHANGE_MAX_UCNT \in 1 .. 255 /\ TextLen \in Nat \ {0}
  /\ Samples \subseteq Nat /\ Junk \subseteq 0 .. 255
  /\ MaxMsgs \in Nat /\ MaxShort \in Nat /\ ShortIn \subseteq {"head", "body"}

Orders == {"little", "big"}
----------------------------------------------------------------------------
(* The fields of a body.  msg_body_conv converts all numbers but the score *)
(* of a user.                                                              *)
Number(w) == [w |-> w, text |-> FALSE, conv |-> TRUE]
Plain(w) == [w |-> w, text |-> FALSE, conv |-> FALSE]
Text == [w |-> TextLen, text |-> TRUE, conv |-> FALSE]

(* nickname, id, state and score of a user of a UCHANGE. *)
UserFields == <<Text, Number(2), Number(2), Plain(4)>>

(* JOIN, JOIN_R, QUIT, UCHANGE, CHALLENGE, CHALLENGE_R, TURN, TURN_R and   *)
(* SENDMSG are 1 to 9.                                                     *)
UCHANGE == 4
Kinds == 1 .. 9

Layout ==
  << <<Text>>,
     <<Text, Number(2), Number(2), Number(4)>>,
     <<Number(4), Number(2)>>,
     [i \in 1 .. 1 + Len(UserFields) * UCHANGE_MAX_UCNT |->
        IF i = 1 THEN Number(4) ELSE UserFields[((i - 2) % Len(UserFields)) + 1]],
     <<Number(2), Number(2), Number(4), Number(2), Number(2)>>,
     <<Number(2), Number(2), Number(2), Number(2), Number(1)>>,
     <<Number(2), Number(2), Number(4), Number(2), Number(2)>>,
     <<Number(2), Number(2), Number(2), Number(2), Number(2),
       Number(4), Number(4), Number(4), Number(4), Number(1)>>,
     <<Number(2), Number(4), Text>> >>

(* The sums of the first numbers of q. *)
Sums(q) ==
  LET sum[i \in 0 .. Len(q)] == IF i = 0 THEN 0 ELSE sum[i - 1] + q[i] IN sum

(* Where the fields of kind end, and the bytes before its field i. *)
Ends == [kind \in Kinds |-> Sums([i \in DOMAIN Layout[kind] |-> Layout[kind][i].w])]

Offset(kind, i) == Ends[kind][i - 1]

msg_body_size(kind) == Offset(kind, Len(Layout[kind]) + 1)

(* The head of a packet has two bytes for the size of the body. *)
ASSUME SizesFit == \A kind \in Kinds : msg_body_size(kind) < 256 ^ 2

HeadSize == 4
BufSize == HeadSize + Max({msg_body_size(kind) : kind \in Kinds})
----------------------------------------------------------------------------
(* The bytes of a number, most significant first, and in memory. *)
Digits(n, w) == [i \in 1 .. w |-> (n \div 256 ^ (w - i)) % 256]

Swap(order, b) == IF order = "little" THEN Reverse(b) ELSE b

Stored(order, n, w) == Swap(order, Digits(n, w))

(* No number is longer than four bytes. *)
Value(order, b) ==
  LET d == Swap(order, b)
      digit(i) == IF i < Len(d) THEN d[Len(d) - i] ELSE 0
  IN  digit(0) + 256 * digit(1) + 256 ^ 2 * digit(2) + 256 ^ 3 * digit(3)

(* The fields of a body in memory, the memory that has these fields, and a *)
(* body as a message says it.                                              *)
Fields(kind, b) ==
  [i \in DOMAIN Layout[kind] |->
     SubSeq(b, Offset(kind, i) + 1, Offset(kind, i) + Layout[kind][i].w)]

Bytes(kind, fields) ==
  [k \in 1 .. msg_body_size(kind) |->
     LET i == CHOOSE j \in DOMAIN fields : k \in Offset(kind, j) + 1 .. Offset(kind, j + 1)
     IN  fields[i][k - Offset(kind, i)]]

Meaning(order, kind, fields) ==
  [i \in DOMAIN fields |-> IF Layout[kind][i].text THEN fields[i]
                           ELSE Value(order, fields[i])]

InMemory(order, kind, body) ==
  [i \in DOMAIN body |-> IF Layout[kind][i].text THEN body[i]
                         ELSE Stored(order, body[i], Layout[kind][i].w)]

(* The fields the loop of msg_body_conv reaches.  Its bound is the count   *)
(* as it is once it has been converted itself: on the way out of a little  *)
(* endian host that is the swapped number.                                 *)
Reached(order, kind, fields) ==
  IF kind # UCHANGE THEN DOMAIN fields
  ELSE LET count == Value(order, Swap(order, fields[1]))
       IN  1 .. 1 + Len(UserFields) * Min({count, UCHANGE_MAX_UCNT})

(* Mutant: the number of a TURN is left out. *)
msg_body_conv_NoTurnNo(order, kind, fields) ==
  [i \in DOMAIN fields |->
     IF Layout[kind][i].conv /\ i \in Reached(order, kind, fields) /\ <<kind, i>> # <<7, 4>>
       THEN Swap(order, fields[i]) ELSE fields[i]]

(* msg_body_l2n and msg_body_n2l. *)
msg_body_conv(order, kind, fields) ==
  [i \in DOMAIN fields |->
     IF Layout[kind][i].conv /\ i \in Reached(order, kind, fields)
       THEN Swap(order, fields[i]) ELSE fields[i]]

null_terminated(b) == \E i \in DOMAIN b : b[i] = 0

(* The texts that msg_check_form looks at. *)
msg_check_form(kind, body) ==
  /\ kind = UCHANGE => body[1] <= UCHANGE_MAX_UCNT
  /\ \A i \in DOMAIN body :
       Layout[kind][i].text =>
         \/ null_terminated(body[i])
         \/ kind = UCHANGE /\ i > 1 + Len(UserFields) * body[1]
----------------------------------------------------------------------------
(* The messages that are sent: a text is terminated, a UCHANGE has the     *)
(* users it counts and zeros behind them (init_msg_buf), a number is one   *)
(* that its field can hold (bound: below 2^16, TLC's numbers are signed).  *)
TextOf(n) == [i \in 1 .. TextLen |-> IF i < TextLen THEN (n + i) % 256 ELSE 0]

(* Field i of a message made from n. *)
Sample(field, n, i) ==
  IF field.text THEN TextOf(n + i) ELSE (n + i) % 256 ^ Min({field.w, 2})

Blank(field) == IF field.text THEN [i \in 1 .. TextLen |-> 0] ELSE 0

(* A message of kind made from n; of a UCHANGE, with count users. *)
Message(kind, n, count) ==
  [kind |-> kind,
   body |-> [i \in DOMAIN Layout[kind] |->
               IF kind # UCHANGE THEN Sample(Layout[kind][i], n, i)
               ELSE IF i = 1 THEN count
               ELSE IF i <= 1 + Len(UserFields) * count
                 THEN Sample(Layout[kind][i], n, i)
               ELSE Blank(Layout[kind][i])]]

Messages ==
  {Message(kind, n, count) : kind \in Kinds, n \in Samples,
                             count \in 0 .. UCHANGE_MAX_UCNT}

(* msg_send: the bytes of a message. *)
Packet ==
  [order \in Orders |-> [m \in Messages |->
     (Digits(m.kind, 2) \o Digits(msg_body_size(m.kind), 2))
     \o Bytes(m.kind, msg_body_conv(order, m.kind, InMemory(order, m.kind, m.body)))]]
----------------------------------------------------------------------------
VARIABLES
  from, to,   \* the byte orders of the two hosts
  stream,     \* bytes on their way
  buf,        \* the receiver's buffer
  part,       \* what msg_recv is reading: "head", "body"; "ended" once it failed
  len,        \* bytes of it that recv_count still wants
  short,      \* how often recv has given less than was asked for
  sent, got   \* messages sent and received

vars == <<from, to, stream, buf, part, len, short, sent, got>>

Init ==
  /\ from \in Orders /\ to \in Orders
  /\ stream = <<>>
  /\ buf \in {[i \in 1 .. BufSize |-> j] : j \in Junk}
  /\ part = "head" /\ len = HeadSize
  /\ short = 0
  /\ sent = <<>> /\ got = <<>>

msg_send(m) ==
  /\ Len(sent) < MaxMsgs
  /\ stream' = stream \o Packet[from][m]
  /\ sent' = Append(sent, m)
  /\ UNCHANGED <<from, to, buf, part, len, short, got>>

Base == IF part = "head" THEN 1 ELSE HeadSize + 1

(* The buffer when recv has put n bytes there. *)
Taken(n) ==
  [i \in DOMAIN buf |-> IF i \in Base .. Base + n - 1 THEN stream[i - Base + 1] ELSE buf[i]]

(* Mutant: what recv gives is taken for all of it. *)
recv_count_Once(n) ==
  /\ part # "ended" /\ len > 0 /\ n \in 1 .. Min({len, Len(stream)})
  /\ \/ n = len /\ UNCHANGED short
     \/ part \in ShortIn /\ n < len /\ short < MaxShort /\ short' = short + 1
  /\ buf' = Taken(n)
  /\ stream' = SubSeq(stream, n + 1, Len(stream))
  /\ len' = 0
  /\ UNCHANGED <<from, to, part, sent, got>>

(* One recv of recv_count, of n bytes.  They go to where the first ones    *)
(* went: the pointer is not advanced.                                      *)
recv_count(n) ==
  /\ part # "ended" /\ len > 0 /\ n \in 1 .. Min({len, Len(stream)})
  /\ \/ n = len /\ UNCHANGED short
     \/ part \in ShortIn /\ n < len /\ short < MaxShort /\ short' = short + 1
  /\ buf' = Taken(n)
  /\ stream' = SubSeq(stream, n + 1, Len(stream))
  /\ len' = len - n
  /\ UNCHANGED <<from, to, part, sent, got>>

(* The head, converted, and the body behind it. *)
HeadField(i) == Value("big", SubSeq(buf, 2 * i - 1, 2 * i))

HeadOk == HeadField(1) \in Kinds /\ HeadField(2) = msg_body_size(HeadField(1))

(* msg_recv after its first recv_count. *)
RecvHead ==
  /\ part = "head" /\ len = 0
  /\ part' = IF HeadOk THEN "body" ELSE "ended"
  /\ len' = IF HeadOk THEN HeadField(2) ELSE 0
  /\ UNCHANGED <<from, to, stream, buf, short, sent, got>>

Received ==
  LET kind == HeadField(1)
      body == SubSeq(buf, HeadSize + 1, HeadSize + msg_body_size(kind))
  IN  [kind |-> kind,
       body |-> Meaning(to, kind, msg_body_conv(to, kind, Fields(kind, body)))]

(* msg_recv after its second one; the caller takes the message or ends. *)
RecvBody ==
  /\ part = "body" /\ len = 0
  /\ IF msg_check_form(Received.kind, Received.body)
       THEN got' = Append(got, Received) /\ part' = "head" /\ len' = HeadSize
       ELSE part' = "ended" /\ len' = 0 /\ UNCHANGED got
  /\ UNCHANGED <<from, to, stream, buf, short, sent>>

Next ==
  \/ \E m \in Messages : msg_send(m)
  \/ \E n \in 1 .. BufSize : recv_count(n)
  \/ RecvHead \/ RecvBody

Spec == Init /\ [][Next]_vars
----------------------------------------------------------------------------
(* A message arrives as it was sent; between hosts of different byte       *)
(* orders, with every field but the scores.                                *)
Alike(m, n) ==
  /\ m.kind = n.kind
  /\ \A i \in DOMAIN m.body :
       \/ m.body[i] = n.body[i]
       \/ from # to /\ ~ Layout[m.kind][i].conv /\ ~ Layout[m.kind][i].text

(* FieldsIntact: as long as recv gives what is asked for, every message    *)
(* that has been sent arrives with its fields, for each pair of byte       *)
(* orders, and none is refused.                                            *)
FieldsIntact ==
  short = 0 => /\ part # "ended" /\ Len(got) <= Len(sent)
               /\ \A i \in DOMAIN got : Alike(got[i], sent[i])

(* The bytes of the messages sent after the first n. *)
After(n) ==
  LET sum == Sums([i \in DOMAIN sent |-> HeadSize + msg_body_size(sent[i].kind)])
  IN  sum[Len(sent)] - sum[n]

(* Framed: a body that arrives in pieces costs no more than itself.  The   *)
(* receiver reads each head where a packet begins, and so has the kinds    *)
(* of the messages right, or has ended the connection.                     *)
Framed ==
  /\ \A i \in DOMAIN got : got[i].kind = sent[i].kind
  /\ part = "head" /\ len = HeadSize => Len(stream) = After(Len(got))

(* Received as sent: "Receive packets and store into queue"                *)
(* (client.c:64).                                                          *)
PacketsStored ==
  /\ part # "ended"
  /\ \A i \in DOMAIN got : Alike(got[i], sent[i])
=============================================================================
