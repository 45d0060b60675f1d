-------------------------------- MODULE Pipe --------------------------------
(***************************************************************************)
(* What the threads, queues and sockets between the interfaces and the     *)
(* packet handler amount to, and what Protocol takes for granted: a        *)
(* message sent is a message on its way, the handler answers an entry in   *)
(* one step, everything comes in the order it was sent, and a connection   *)
(* that breaks keeps a beginning of what was on its way, followed by the   *)
(* news of its end.                                                        *)
(***************************************************************************)
EXTENDS Fanout

VARIABLES
  up,        \* client -> what is on its way to the handler
  down,      \* client -> what is on its way to its interface
  members,   \* the clients in the server's trees
  lost       \* the clients whose connection has broken

pipeVars == <<up, down, members, lost>>

PipeInit ==
  /\ up = [c \in Clients |-> <<>>]
  /\ down = [c \in Clients |-> <<>>]
  /\ members = Clients
  /\ lost = {}

Put(c, kind) ==
  /\ c \notin lost
  /\ up' = [up EXCEPT ![c] = Append(@, kind)]
  /\ UNCHANGED <<down, members, lost>>

Get(c) ==
  /\ down[c] # <<>>
  /\ down' = [down EXCEPT ![c] = Tail(@)]
  /\ UNCHANGED <<up, members, lost>>

Handle(c) ==
  /\ up[c] # <<>>
  /\ \E o \in Outcomes(c, Head(up[c]), members) :
       /\ up' = [up EXCEPT ![c] = Tail(@)]
       /\ down' = [d \in Clients |-> IF d \in lost THEN down[d]
                                     ELSE down[d] \o Pending(d, o.todo)]
       /\ members' = o.members
  /\ UNCHANGED lost

Break(c) ==
  /\ c \notin lost
  /\ lost' = lost \cup {c}
  /\ \E n \in 0 .. Len(up[c]) :
       up' = [up EXCEPT ![c] = Append(SubSeq(@, 1, n), "EDISCONN")]
  /\ \E n \in 0 .. Len(down[c]) :
       down' = [down EXCEPT ![c] = Append(SubSeq(@, 1, n), "UM_DISCONN")]
  /\ UNCHANGED members

PipeNext ==
  \E c \in Clients :
    \/ \E kind \in UpKinds \ {"EDISCONN"} : Put(c, kind)
    \/ Get(c) \/ Handle(c) \/ Break(c)

PipeSpec == PipeInit /\ [][PipeNext]_pipeVars
=============================================================================
