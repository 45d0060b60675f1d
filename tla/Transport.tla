------------------------------ MODULE Transport ------------------------------
(***************************************************************************)
(* The threads between an interface and the packet handler, with the       *)
(* limits of what lies between them:                                       *)
(*                                                                         *)
(*   ui -> send_queue -> io_worker OUT -> socket -> serve -> incoming_queue *)
(*   ui <- um_queue   <- io_worker IN  <- socket <------- pkt_handler      *)
(*                                                                         *)
(* A queue is a bounded sequence (Fifo), a call on it one step.  A thread  *)
(* that has something in its hands waits until there is room for it.       *)
(***************************************************************************)
EXTENDS Fanout

CONSTANTS
  QSIZE,            \* capacity of um_queue and send_queue
  MAX_QUEUE_SIZE,   \* capacity of incoming_queue
  SockRoom,         \* messages a direction of a connection has room for
  Speakers,         \* bound: the clients whose players press keys
  Fragile           \* bound: the connections that may break

ASSUME LimitsAssumption ==
  /\ QSIZE \in Nat \ {0} /\ MAX_QUEUE_SIZE \in Nat \ {0}
  /\ SockRoom \in Nat \ {0}

VARIABLES
  ui,           \* client -> where its interface thread is
  want,         \* client -> the message that thread is adding to send_queue
  send_queue, um_queue,
  out, in,      \* client -> its workers: what they hold, whether they go on
  upsock, downsock,
  serve,        \* client -> the server's thread for its connection
  incoming_queue,
  todo,         \* the batches the handler has still to send
  members,      \* the clients in the server's trees
  broken        \* the clients whose connection has broken

uiVars == <<ui, want>>
upVars == <<send_queue, out, upsock, serve>>
downVars == <<downsock, in, um_queue>>
handlerVars == <<todo, members>>
vars == <<uiVars, upVars, incoming_queue, handlerVars, downVars, broken>>

(* The messages of a connection that are on their way, next one first. *)
Entries == [fd : Clients, kind : UpKinds]

From(c) ==
  Flatten(incoming_queue, [e \in Entries |-> IF e.fd = c THEN <<e.kind>> ELSE <<>>])

UpPath(c) ==
  ((From(c) \o serve[c].held) \o upsock[c])
  \o IF c \notin broken THEN out[c].held \o send_queue[c]
     ELSE IF serve[c].run THEN <<"EDISCONN">> ELSE <<>>

DownPath(c) ==
  ((um_queue[c] \o in[c].held) \o downsock[c])
  \o IF c \notin broken THEN Pending(c, todo)
     ELSE IF in[c].run THEN <<"UM_DISCONN">> ELSE <<>>

Abstract == INSTANCE Pipe WITH up <- [c \in Clients |-> UpPath(c)],
                               down <- [c \in Clients |-> DownPath(c)],
                               lost <- broken
----------------------------------------------------------------------------
Idle == [held |-> <<>>, run |-> TRUE]

(* Everyone has logged in and read everything: ui_main, before its loop.   *)
Init ==
  /\ ui = [c \in Clients |-> "poll"]
  /\ want = [c \in Clients |-> [kind |-> "QUIT", back |-> "done"]]
  /\ send_queue = [c \in Clients |-> <<>>]
  /\ um_queue = [c \in Clients |-> <<>>]
  /\ out = [c \in Clients |-> Idle]
  /\ in = [c \in Clients |-> Idle]
  /\ serve = [c \in Clients |-> Idle]
  /\ upsock = [c \in Clients |-> <<>>]
  /\ downsock = [c \in Clients |-> <<>>]
  /\ incoming_queue = <<>>
  /\ todo = <<>>
  /\ members = Clients
  /\ broken = {}

(* A thread takes something into its hands, its last thing, or lets it go. *)
Holds(w, c, m) == [w EXCEPT ![c].held = <<m>>]
LastHolds(w, c, m) == [w EXCEPT ![c] = [held |-> <<m>>, run |-> FALSE]]
LetsGo(w, c) == [w EXCEPT ![c].held = <<>>]

Push(f, c, m) == [f EXCEPT ![c] = Append(@, m)]
Pop(f, c) == [f EXCEPT ![c] = Tail(@)]
----------------------------------------------------------------------------
(* io_worker, OUT. *)
OutTake(c) ==
  /\ out[c].run /\ out[c].held = <<>>
  /\ send_queue[c] # <<>>
  /\ out' = Holds(out, c, Head(send_queue[c]))
  /\ send_queue' = Pop(send_queue, c)
  /\ UNCHANGED <<uiVars, upsock, serve, incoming_queue, handlerVars, downVars,
                 broken>>

(* The send goes to the connection; of one that is gone it fails, and is   *)
(* the worker's last, or the system takes the message nevertheless.        *)
OutSend(c) ==
  /\ out[c].run /\ out[c].held # <<>>
  /\ \/ /\ c \notin broken /\ Len(upsock[c]) < SockRoom
        /\ upsock' = Push(upsock, c, out[c].held[1])
        /\ out' = LetsGo(out, c)
     \/ /\ c \in broken
        /\ out' = LastHolds(out, c, "UM_DISCONN") \/ out' = LetsGo(out, c)
        /\ UNCHANGED upsock
  /\ UNCHANGED <<uiVars, send_queue, serve, incoming_queue, handlerVars, downVars,
                 broken>>

(* The worker's last element goes into the queue it has been emptying. *)
OutEnd(c) ==
  /\ ~ out[c].run /\ out[c].held # <<>>
  /\ Len(send_queue[c]) < QSIZE
  /\ send_queue' = Push(send_queue, c, out[c].held[1])
  /\ out' = LetsGo(out, c)
  /\ UNCHANGED <<uiVars, upsock, serve, incoming_queue, handlerVars, downVars,
                 broken>>

(* io_worker, IN. *)
InRecv(c) ==
  /\ in[c].run /\ in[c].held = <<>>
  /\ \/ /\ downsock[c] # <<>>
        /\ in' = Holds(in, c, Head(downsock[c]))
        /\ downsock' = Pop(downsock, c)
     \/ /\ downsock[c] = <<>> /\ c \in broken
        /\ in' = LastHolds(in, c, "UM_DISCONN")
        /\ UNCHANGED downsock
  /\ UNCHANGED <<uiVars, upVars, incoming_queue, handlerVars, um_queue, broken>>

(* Mutant: the worker adds to a full queue. *)
InAdd_Overfills(c) ==
  /\ in[c].held # <<>>
  /\ um_queue' = Push(um_queue, c, in[c].held[1])
  /\ in' = LetsGo(in, c)
  /\ UNCHANGED <<uiVars, upVars, incoming_queue, handlerVars, downsock, broken>>

(* Mutant: the message is dropped when the queue is full. *)
InAdd_NoBlock(c) ==
  /\ in[c].held # <<>>
  /\ um_queue' = IF Len(um_queue[c]) < QSIZE
                   THEN Push(um_queue, c, in[c].held[1]) ELSE um_queue
  /\ in' = LetsGo(in, c)
  /\ UNCHANGED <<uiVars, upVars, incoming_queue, handlerVars, downsock, broken>>

InAdd(c) ==
  /\ in[c].held # <<>>
  /\ Len(um_queue[c]) < QSIZE
  /\ um_queue' = Push(um_queue, c, in[c].held[1])
  /\ in' = LetsGo(in, c)
  /\ UNCHANGED <<uiVars, upVars, incoming_queue, handlerVars, downsock, broken>>
----------------------------------------------------------------------------
(* Mutant: the thread ends without telling the handler. *)
ServeRecv_NoNews(c) ==
  /\ serve[c].run /\ serve[c].held = <<>>
  /\ \/ /\ upsock[c] # <<>>
        /\ serve' = Holds(serve, c, Head(upsock[c]))
        /\ upsock' = Pop(upsock, c)
     \/ /\ upsock[c] = <<>> /\ c \in broken
        /\ serve' = [serve EXCEPT ![c].run = FALSE]
        /\ UNCHANGED upsock
  /\ UNCHANGED <<uiVars, send_queue, out, incoming_queue, handlerVars, downVars,
                 broken>>

(* serve, the server's thread for a connection. *)
ServeRecv(c) ==
  /\ serve[c].run /\ serve[c].held = <<>>
  /\ \/ /\ upsock[c] # <<>>
        /\ serve' = Holds(serve, c, Head(upsock[c]))
        /\ upsock' = Pop(upsock, c)
     \/ /\ upsock[c] = <<>> /\ c \in broken
        /\ serve' = LastHolds(serve, c, "EDISCONN")
        /\ UNCHANGED upsock
  /\ UNCHANGED <<uiVars, send_queue, out, incoming_queue, handlerVars, downVars,
                 broken>>

ServeAdd(c) ==
  /\ serve[c].held # <<>>
  /\ Len(incoming_queue) < MAX_QUEUE_SIZE
  /\ incoming_queue' = Append(incoming_queue, [fd |-> c, kind |-> serve[c].held[1]])
  /\ serve' = LetsGo(serve, c)
  /\ UNCHANGED <<uiVars, send_queue, out, upsock, handlerVars, downVars, broken>>

(* pkt_handler takes the next entry once it has sent everything. *)
PktTake ==
  /\ todo = <<>> /\ incoming_queue # <<>>
  /\ \E o \in Outcomes(Head(incoming_queue).fd, Head(incoming_queue).kind, members) :
       todo' = o.todo /\ members' = o.members
  /\ incoming_queue' = Tail(incoming_queue)
  /\ UNCHANGED <<uiVars, upVars, downVars, broken>>

(* The client the handler sends to next: twalk goes by id. *)
Recipient == CHOOSE c \in todo[1].to : \A d \in todo[1].to : c <= d

(* A blocking msg_send; the handler does not look whether it fails. *)
PktSend ==
  /\ todo # <<>>
  /\ \/ /\ Recipient \notin broken /\ Len(downsock[Recipient]) < SockRoom
        /\ downsock' = Push(downsock, Recipient, todo[1].msg)
     \/ /\ Recipient \in broken
        /\ UNCHANGED downsock
  /\ todo' = IF todo[1].to = {Recipient} THEN Tail(todo)
             ELSE [todo EXCEPT ![1].to = @ \ {Recipient}]
  /\ UNCHANGED <<uiVars, upVars, incoming_queue, members, in, um_queue, broken>>
----------------------------------------------------------------------------
(* The interface thread.  It is "adding" while it is in queue_add, and     *)
(* then goes back to where it was.                                         *)
Adds(c, kind, phase) ==
  /\ ui' = [ui EXCEPT ![c] = "adding"]
  /\ want' = [want EXCEPT ![c] = [kind |-> kind, back |-> phase]]

Goes(c, phase) ==
  /\ ui' = [ui EXCEPT ![c] = phase]
  /\ UNCHANGED want

UiAdd(c) ==
  /\ ui[c] = "adding"
  /\ Len(send_queue[c]) < QSIZE
  /\ send_queue' = Push(send_queue, c, want[c].kind)
  /\ Goes(c, want[c].back)
  /\ UNCHANGED <<out, upsock, serve, incoming_queue, handlerVars, downVars, broken>>

(* ui_main takes what is there.  A CHALLENGE may make it add a C_REJECT;   *)
(* the end of the connection is the end of the session.                    *)
UiTake(c) ==
  /\ ui[c] = "poll" /\ um_queue[c] # <<>>
  /\ um_queue' = Pop(um_queue, c)
  /\ \/ Head(um_queue[c]) # "UM_DISCONN" /\ UNCHANGED uiVars
     \/ Head(um_queue[c]) = "UM_DISCONN" /\ Adds(c, "QUIT", "done")
     \/ Head(um_queue[c]) = "REPLY" /\ c \in Speakers /\ Adds(c, "REQUEST", "poll")
  /\ UNCHANGED <<upVars, incoming_queue, handlerVars, downsock, in, broken>>

(* It looks for keys when the queue is empty, and polls again after them.  *)
UiTurn(c) ==
  /\ \/ ui[c] = "poll" /\ um_queue[c] = <<>> /\ c \in Speakers /\ Goes(c, "keys")
     \/ ui[c] = "keys" /\ Goes(c, "poll")
  /\ UNCHANGED <<upVars, incoming_queue, handlerVars, downVars, broken>>

(* A key that makes a request, and UC_QUIT. *)
Press(c) ==
  /\ ui[c] = "keys"
  /\ Adds(c, "REQUEST", "keys") \/ Adds(c, "QUIT", "done")
  /\ UNCHANGED <<upVars, incoming_queue, handlerVars, downVars, broken>>

(* The connection breaks: a beginning of what it carried still arrives. *)
Break(c) ==
  /\ c \in Fragile \ broken
  /\ broken' = broken \cup {c}
  /\ \E n \in 0 .. Len(upsock[c]) : upsock' = [upsock EXCEPT ![c] = SubSeq(@, 1, n)]
  /\ \E n \in 0 .. Len(downsock[c]) :
       downsock' = [downsock EXCEPT ![c] = SubSeq(@, 1, n)]
  /\ UNCHANGED <<uiVars, send_queue, out, serve, incoming_queue, handlerVars, in,
                 um_queue>>
----------------------------------------------------------------------------
Threads(c) ==
  \/ OutTake(c) \/ OutSend(c) \/ OutEnd(c)
  \/ InRecv(c) \/ InAdd(c)
  \/ ServeRecv(c) \/ ServeAdd(c)

Interface(c) == UiAdd(c) \/ UiTake(c) \/ UiTurn(c)

Handler == PktTake \/ PktSend

Next ==
  \/ Handler
  \/ \E c \in Clients :
       Threads(c) \/ Interface(c) \/ Press(c) \/ Break(c)

Spec == Init /\ [][Next]_vars

(* Every thread that can go on does so at last.  Nobody has to press a    *)
(* key, or to stop pressing keys, and no connection has to break.  Of the  *)
(* threads that add to incoming_queue none is overtaken for ever.          *)
FairSpec ==
  /\ Spec /\ WF_vars(Handler)
  /\ \A c \in Clients :
       /\ WF_vars(OutTake(c) \/ OutSend(c) \/ OutEnd(c))
       /\ WF_vars(InRecv(c)) /\ WF_vars(InAdd(c))
       /\ WF_vars(ServeRecv(c)) /\ SF_vars(ServeAdd(c))
       /\ WF_vars(Interface(c))
----------------------------------------------------------------------------
Thread(kinds) == [held : {<<>>} \cup {<<m>> : m \in kinds}, run : BOOLEAN]

UpTo(n, S) == UNION {[1 .. k -> S] : k \in 0 .. n}

(* TypeOK: nothing ever holds more than it has room for. *)
TypeOK ==
  /\ ui \in [Clients -> {"poll", "keys", "adding", "done"}]
  /\ want \in [Clients -> [kind : UpKinds, back : {"poll", "keys", "done"}]]
  /\ send_queue \in [Clients -> UpTo(QSIZE, UpKinds \cup {"UM_DISCONN"})]
  /\ um_queue \in [Clients -> UpTo(QSIZE, DownKinds)]
  /\ out \in [Clients -> Thread(UpKinds \cup {"UM_DISCONN"})]
  /\ in \in [Clients -> Thread(DownKinds)]
  /\ serve \in [Clients -> Thread(UpKinds)]
  /\ upsock \in [Clients -> UpTo(SockRoom, UpKinds)]
  /\ downsock \in [Clients -> UpTo(SockRoom, DownKinds)]
  /\ incoming_queue \in UpTo(MAX_QUEUE_SIZE, Entries)
  /\ members \subseteq Clients /\ broken \subseteq Clients

(* InOrder: the threads implement the channels of Pipe: per connection     *)
(* nothing is lost, doubled or reordered, the answers to an entry come as  *)
(* if they were all sent at once, and the news of the end comes last.      *)
InOrder == Abstract!PipeSpec

(* The handler is blocked on a client that does not read. *)
Deaf(c) ==
  /\ todo # <<>> /\ Recipient = c /\ c \notin broken
  /\ Len(downsock[c]) = SockRoom /\ in[c].held # <<>>
  /\ Len(um_queue[c]) = QSIZE

(* It does not read because it is adding to a send_queue that is full, and *)
(* everything from there to the handler is full as well.                   *)
Cycle(c) ==
  /\ Deaf(c) /\ ui[c] = "adding"
  /\ Len(send_queue[c]) = QSIZE /\ out[c].held # <<>>
  /\ Len(upsock[c]) = SockRoom /\ serve[c].held # <<>>
  /\ Len(incoming_queue) = MAX_QUEUE_SIZE

(* It does not read because it has left, and the handler is still at or    *)
(* before its QUIT, which it answers to everyone, the one who quits too.   *)
Leaving(c) ==
  /\ Deaf(c) /\ ui[c] = "done"
  /\ c \notin members \/ \E i \in DOMAIN UpPath(c) : UpPath(c)[i] = "QUIT"

Stalled == \E c \in Clients : Cycle(c) \/ Leaving(c)

(* HandlerFlows: the handler's blocking sends come to an end, whatever     *)
(* requests are made and answered in the given Ways, unless every queue    *)
(* around a client is full or a client has left with more sent to it than  *)
(* its queue has room for.  No other behaviour of a client whose threads   *)
(* keep running, leaving or breaking included, stops the server.           *)
HandlerFlows == (todo # <<>>) ~> (todo = <<>> \/ Stalled)

(* LeaversForgotten: a client that has left, by QUIT or because its        *)
(* connection broke, is taken out of the server's trees.                   *)
LeaversForgotten ==
  \A c \in Clients : (ui[c] = "done") ~> (c \notin members \/ Stalled)
=============================================================================
