------------------------------- MODULE Session -------------------------------
(***************************************************************************)
(* The client program over several sessions (ui, ui_init, ui_login and     *)
(* io_worker of client.c; of ui_main what it does to the queues): the      *)
(* login screen, its connections and their two workers, which hold a       *)
(* descriptor and a queue by value and are never joined, cancelled or told *)
(* that a session is over.  The server is how it looks from here: it       *)
(* answers, and it may be gone at any time.                                *)
(***************************************************************************)
EXTENDS Integers, Sequences

CONSTANTS
  QSIZE,         \* capacity of um_queue and send_queue
  SockRoom,      \* messages a direction of a connection has room for
  MaxSessions,   \* bound: sessions, each with its queues
  MaxConns       \* bound: connections that are made

ASSUME SessionAssumption ==
  /\ QSIZE \in Nat \ {0} /\ SockRoom \in Nat \ {0}
  /\ MaxSessions \in Nat \ {0} /\ MaxConns \in Nat \ {0}

VARIABLES
  ui,          \* where the interface thread is
  connected,   \* ui_login's flag
  fd,          \* ui_login's descriptor
  um_queue,    \* session -> its queue of ui_msg_t
  send_queue,  \* session -> its queue of message_t
  workers,     \* connection -> the two workers made for it
  table,       \* descriptor -> the connection it names, 0 when closed
  lines,       \* connection -> what is on it, and whether it is alive
  stage        \* connection -> what the server knows of it

uiVars == <<ui, connected, fd>>
queueVars == <<um_queue, send_queue>>
vars == <<uiVars, queueVars, workers, table, lines, stage>>

Conns == 1 .. MaxConns
Now == Len(um_queue)   \* the session the interface is in

Descriptors == 3 .. 2 + MaxConns

Init ==
  /\ ui = "UI_INIT" /\ connected = FALSE /\ fd = 0
  /\ um_queue = <<>> /\ send_queue = <<>>
  /\ workers = <<>> /\ lines = <<>> /\ stage = <<>>
  /\ table = [d \in Descriptors |-> 0]

Goes(phase) == ui' = phase /\ UNCHANGED <<connected, fd>>

(* The interface thread adds m to the send_queue of its session, waiting   *)
(* for room.                                                               *)
Adds(m) ==
  /\ Len(send_queue[Now]) < QSIZE
  /\ send_queue' = [send_queue EXCEPT ![Now] = Append(@, m)]
  /\ UNCHANGED um_queue
----------------------------------------------------------------------------
(* Mutant: the first session's queues are used again. *)
ui_init_OldQueues ==
  /\ ui = "UI_INIT" /\ Now < MaxSessions
  /\ IF Now = 0 THEN um_queue' = <<<<>>>> /\ send_queue' = <<<<>>>>
     ELSE UNCHANGED queueVars
  /\ ui' = "WAIT_INPUT" /\ connected' = FALSE /\ fd' = 0
  /\ UNCHANGED <<workers, table, lines, stage>>

(* ui_init, and the locals of ui_login. *)
ui_init ==
  /\ ui = "UI_INIT" /\ Now < MaxSessions
  /\ um_queue' = Append(um_queue, <<>>)
  /\ send_queue' = Append(send_queue, <<>>)
  /\ ui' = "WAIT_INPUT" /\ connected' = FALSE /\ fd' = 0
  /\ UNCHANGED <<workers, table, lines, stage>>

(* WAIT_INPUT: the player enters a nickname. *)
Enter ==
  /\ ui = "WAIT_INPUT"
  /\ Goes("TO_CONNECT")
  /\ UNCHANGED <<queueVars, workers, table, lines, stage>>

Idle == [held |-> <<>>, run |-> TRUE]

(* TO_CONNECT: the lowest free descriptor, and a worker for each direction. *)
Connect ==
  /\ ui = "TO_CONNECT" /\ ~ connected /\ Len(lines) < MaxConns
  /\ LET c == Len(lines) + 1
         d == CHOOSE d \in Descriptors :
                table[d] = 0 /\ \A e \in Descriptors : table[e] = 0 => d <= e
     IN  /\ fd' = d
         /\ table' = [table EXCEPT ![d] = c]
         /\ workers' = Append(workers, [fd |-> d, queue |-> Now, in |-> Idle, out |-> Idle])
  /\ lines' = Append(lines, [up |-> <<>>, down |-> <<>>, alive |-> TRUE])
  /\ stage' = Append(stage, "new")
  /\ ui' = "SEND_JOIN" /\ connected' = TRUE
  /\ UNCHANGED queueVars

ConnectFails ==
  /\ ui = "TO_CONNECT" /\ ~ connected
  /\ ui' = "WAIT_INPUT" /\ fd' = -1
  /\ UNCHANGED <<connected, queueVars, workers, table, lines, stage>>

(* A connection that was refused a nickname is used again. *)
ConnectedAlready ==
  /\ ui = "TO_CONNECT" /\ connected
  /\ Goes("SEND_JOIN")
  /\ UNCHANGED <<queueVars, workers, table, lines, stage>>

SendJoin ==
  /\ ui = "SEND_JOIN"
  /\ Adds("JOIN") /\ Goes("WAIT_MSG")
  /\ UNCHANGED <<workers, table, lines, stage>>

(* Mutant: the player may try again at once. *)
WaitMsg_Retry ==
  /\ ui = "WAIT_MSG" /\ um_queue[Now] # <<>>
  /\ um_queue' = [um_queue EXCEPT ![Now] = Tail(@)]
  /\ LET m == Head(um_queue[Now])
     IN  IF m = "UM_DISCONN"
           THEN /\ table' = IF fd # -1 THEN [table EXCEPT ![fd] = 0] ELSE table
                /\ ui' = "WAIT_INPUT" /\ connected' = FALSE /\ fd' = -1
           ELSE /\ Goes(CASE m = "JOIN_OK" -> "MAIN"
                          [] m = "JOIN_ERR" -> "WAIT_INPUT"
                          [] m = "OTHER" -> "WAIT_MSG")
                /\ UNCHANGED table
  /\ UNCHANGED <<send_queue, workers, lines, stage>>

(* WAIT_MSG: the end of the connection closes it and leaves the state as   *)
(* it is, a JOIN_R ends the login or brings the prompt back, anything else *)
(* is ignored.                                                             *)
WaitMsg ==
  /\ ui = "WAIT_MSG" /\ um_queue[Now] # <<>>
  /\ um_queue' = [um_queue EXCEPT ![Now] = Tail(@)]
  /\ LET m == Head(um_queue[Now])
     IN  IF m = "UM_DISCONN"
           THEN /\ table' = IF fd # -1 THEN [table EXCEPT ![fd] = 0] ELSE table
                /\ connected' = FALSE /\ fd' = -1 /\ UNCHANGED ui
           ELSE /\ Goes(CASE m = "JOIN_OK" -> "MAIN"
                          [] m = "JOIN_ERR" -> "WAIT_INPUT"
                          [] m = "OTHER" -> "WAIT_MSG")
                /\ UNCHANGED table
  /\ UNCHANGED <<send_queue, workers, lines, stage>>
----------------------------------------------------------------------------
(* ui_main: messages first, some of which it answers; then keys; at the    *)
(* end, however it comes, a QUIT.                                          *)
MainTake ==
  /\ ui = "MAIN" /\ um_queue[Now] # <<>>
  /\ um_queue' = [um_queue EXCEPT ![Now] = Tail(@)]
  /\ \/ Head(um_queue[Now]) = "UM_DISCONN" /\ Goes("done")
     \/ Head(um_queue[Now]) # "UM_DISCONN" /\ (Goes("MAIN") \/ Goes("adding"))
  /\ UNCHANGED <<send_queue, workers, table, lines, stage>>

MainKey ==
  /\ ui = "MAIN" /\ um_queue[Now] = <<>>
  /\ Goes("adding") \/ Goes("done")
  /\ UNCHANGED <<queueVars, workers, table, lines, stage>>

MainAdds ==
  /\ \/ ui = "adding" /\ Adds("REQUEST") /\ Goes("MAIN")
     \/ ui = "done" /\ Adds("QUIT") /\ Goes("UI_INIT")
  /\ UNCHANGED <<workers, table, lines, stage>>
----------------------------------------------------------------------------
(* The workers of connection w, by the descriptor they hold. *)
Reaches(w) == table[workers[w].fd]

Alive(w) == Reaches(w) # 0 /\ lines[Reaches(w)].alive

OutTake(w) ==
  LET q == workers[w].queue
  IN  /\ workers[w].out = Idle /\ send_queue[q] # <<>>
      /\ workers' = [workers EXCEPT ![w].out.held = <<Head(send_queue[q])>>]
      /\ send_queue' = [send_queue EXCEPT ![q] = Tail(@)]
      /\ UNCHANGED <<uiVars, um_queue, table, lines, stage>>

(* The send goes to the connection; of one that is gone it fails, and is   *)
(* the worker's last, or the system takes the message nevertheless.        *)
OutSend(w) ==
  /\ workers[w].out.run /\ workers[w].out.held # <<>>
  /\ \/ /\ Alive(w) /\ Len(lines[Reaches(w)].up) < SockRoom
        /\ lines' = [lines EXCEPT ![Reaches(w)].up = @ \o workers[w].out.held]
        /\ workers' = [workers EXCEPT ![w].out.held = <<>>]
     \/ /\ ~ Alive(w)
        /\ workers' = [workers EXCEPT ![w].out = [held |-> <<"UM_DISCONN">>, run |-> FALSE]]
        /\ UNCHANGED lines
     \/ /\ ~ Alive(w) /\ Reaches(w) # 0
        /\ workers' = [workers EXCEPT ![w].out.held = <<>>]
        /\ UNCHANGED lines
  /\ UNCHANGED <<uiVars, queueVars, table, stage>>

(* Its news goes into the queue it has been emptying. *)
OutEnd(w) ==
  LET q == workers[w].queue
  IN  /\ ~ workers[w].out.run /\ workers[w].out.held # <<>>
      /\ Len(send_queue[q]) < QSIZE
      /\ send_queue' = [send_queue EXCEPT ![q] = @ \o workers[w].out.held]
      /\ workers' = [workers EXCEPT ![w].out.held = <<>>]
      /\ UNCHANGED <<uiVars, um_queue, table, lines, stage>>

InRecv(w) ==
  /\ workers[w].in = Idle
  /\ \/ /\ Reaches(w) # 0 /\ lines[Reaches(w)].down # <<>>
        /\ workers' = [workers EXCEPT ![w].in.held = <<Head(lines[Reaches(w)].down)>>]
        /\ lines' = [lines EXCEPT ![Reaches(w)].down = Tail(@)]
     \/ /\ ~ Alive(w) /\ (Reaches(w) # 0 => lines[Reaches(w)].down = <<>>)
        /\ workers' = [workers EXCEPT ![w].in = [held |-> <<"UM_DISCONN">>, run |-> FALSE]]
        /\ UNCHANGED lines
  /\ UNCHANGED <<uiVars, queueVars, table, stage>>

(* Mutant: the worker ends without a word. *)
InAdd_Silent(w) ==
  LET q == workers[w].queue
  IN  /\ workers[w].in.held # <<>>
      /\ Len(um_queue[q]) < QSIZE
      /\ um_queue' = IF workers[w].in.run
                       THEN [um_queue EXCEPT ![q] = @ \o workers[w].in.held] ELSE um_queue
      /\ workers' = [workers EXCEPT ![w].in.held = <<>>]
      /\ UNCHANGED <<uiVars, send_queue, table, lines, stage>>

InAdd(w) ==
  LET q == workers[w].queue
  IN  /\ workers[w].in.held # <<>>
      /\ Len(um_queue[q]) < QSIZE
      /\ um_queue' = [um_queue EXCEPT ![q] = @ \o workers[w].in.held]
      /\ workers' = [workers EXCEPT ![w].in.held = <<>>]
      /\ UNCHANGED <<uiVars, send_queue, table, lines, stage>>
----------------------------------------------------------------------------
(* The server takes a message from connection c and answers it (a request  *)
(* or a QUIT perhaps, with a UCHANGE or a reply).                          *)
Answers(m) == CASE m = "JOIN" -> {<<"JOIN_OK">>, <<"JOIN_ERR">>}
                [] OTHER -> {<<>>, <<"OTHER">>}

Learns(c, m, r) == CASE m = "QUIT" -> "gone"
                     [] r = <<"JOIN_OK">> -> "joined"
                     [] OTHER -> stage[c]

Serve(c) ==
  /\ lines[c].alive /\ lines[c].up # <<>>
  /\ \E r \in Answers(Head(lines[c].up)) :
       /\ Len(lines[c].down) + Len(r) <= SockRoom
       /\ lines' = [lines EXCEPT ![c].up = Tail(@), ![c].down = @ \o r]
       /\ stage' = [stage EXCEPT ![c] = Learns(c, Head(lines[c].up), r)]
  /\ UNCHANGED <<uiVars, queueVars, workers, table>>

(* The connection breaks, or the server is gone; a beginning of what it    *)
(* has sent still arrives.                                                 *)
Break(c) ==
  /\ lines[c].alive
  /\ \E n \in 0 .. Len(lines[c].down) :
       lines' = [lines EXCEPT ![c] = [up |-> <<>>, down |-> SubSeq(@.down, 1, n),
                                      alive |-> FALSE]]
  /\ UNCHANGED <<uiVars, queueVars, workers, table, stage>>
----------------------------------------------------------------------------
UiLogin == Connect \/ ConnectFails \/ ConnectedAlready \/ SendJoin \/ WaitMsg

Next ==
  \/ ui_init \/ Enter \/ UiLogin
  \/ MainTake \/ MainKey \/ MainAdds
  \/ \E w \in DOMAIN workers :
       \/ OutTake(w) \/ OutSend(w) \/ OutEnd(w)
       \/ InRecv(w) \/ InAdd(w)
       \/ Serve(w) \/ Break(w)

Spec == Init /\ [][Next]_vars

(* Threads that can go on do, and a living server answers.  Nobody has to  *)
(* press a key, and no connection has to break.                            *)
FairSpec ==
  /\ Spec /\ WF_vars(UiLogin \/ MainTake \/ MainAdds)
  /\ \A w \in Conns :
       /\ WF_vars(w \in DOMAIN workers /\ (OutTake(w) \/ OutSend(w) \/ OutEnd(w)))
       /\ WF_vars(w \in DOMAIN workers /\ (InRecv(w) \/ InAdd(w)))
       /\ WF_vars(w \in DOMAIN workers /\ Serve(w))
----------------------------------------------------------------------------
(* WellSequenced: the server sees each connection through one login: a     *)
(* JOIN until one is accepted, then requests, and nothing after a QUIT.    *)
(* What an earlier session left behind never reaches a later one's         *)
(* connection, nor the other way round.                                    *)
Expected == [new |-> {"JOIN"}, joined |-> {"REQUEST", "QUIT"}, gone |-> {}]

WellSequenced ==
  \A c \in DOMAIN lines :
    lines[c].up # <<>> => Head(lines[c].up) \in Expected[stage[c]]

(* OneSender: a send_queue is emptied by one worker, and what that worker  *)
(* adds to it at its end, a ui_msg_t among message_t, is taken by nobody.  *)
OneSender ==
  \A w \in DOMAIN workers :
    workers[w].out.run =>
      /\ "UM_DISCONN" \notin {send_queue[workers[w].queue][i] :
                                i \in DOMAIN send_queue[workers[w].queue]}
      /\ \A v \in DOMAIN workers :
           workers[v].out.run /\ workers[v].queue = workers[w].queue => v = w

(* LoginSettles: a JOIN that is waiting for its answer gets one, unless    *)
(* the connection ends first; then the screen says so, and stays.          *)
LoginSettles == (ui = "WAIT_MSG") ~> (ui # "WAIT_MSG" \/ ~ connected)

(* The interface waits to add to a queue whose worker has ended. *)
Wedged ==
  /\ ui \in {"adding", "done"} /\ Len(send_queue[Now]) = QSIZE
  /\ \A w \in DOMAIN workers : workers[w].queue = Now => ~ workers[w].out.run

(* SessionEnds: when the connection breaks the main screen is left for a   *)
(* new login, unless so many requests were made after the sending worker   *)
(* gave up that its queue has no room for the QUIT.                        *)
SessionEnds ==
  \A w \in Conns :
    (ui \in {"MAIN", "adding", "done"} /\ w \in DOMAIN lines
       /\ workers[w].queue = Now /\ ~ lines[w].alive)
      ~> (ui = "UI_INIT" \/ Wedged)
=============================================================================
