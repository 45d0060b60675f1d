# Verification of janken

janken is a rock-paper-scissors game for several players: a server
(`src/server/server.c`), a curses client (`src/client/client.c`) and a small
library they share (`src/lib/`). This directory holds TLA+ models of its
parts, the TLC configurations that check them, and proofs that TLAPS checks.

## 1. The system

| Part | State | Operations | Hard because |
|---|---|---|---|
| Packet handler of the server (`pkt_handler` and the `handle_*` functions) | the users in three search trees (`user_by_id`, `user_by_fd`, `user_by_nick`), `user_cnt`, the challenges in `ch_by_id` | JOIN, QUIT, CHALLENGE (C_START, C_CANCEL, C_ACCEPT, C_REJECT), TURN, SENDMSG, lost connection | entries of many connections come in any order; users vanish in the middle of an invitation or a battle |
| Connection threads of the server (`serve`) | the socket; `incoming_queue` is shared | receive a packet, queue it; queue EDISCONN at the end | the handler sends with blocking writes while these threads may block on a full queue |
| Client session (`ui_login`, `ui_main`) | `game_state_t`, `waiting_for` (the popup on screen), the user list | one message or one key at a time | answers come late, for requests the player has given up; three kinds of message describe one battle |
| Client workers (`io_worker`) | the socket, `um_queue`, `send_queue` | socket to queue, queue to socket | two threads hold a descriptor and a queue by value and outlive the session they were made for |
| Bounded queue (`queue.c`) | ring `data`, `lo`, `hi`, `sz`, a mutex, two condition variables | `queue_add`, `queue_take`, blocking or not | wakeups are sent after the unlock; indices wrap |
| Messages (`messages.c`, `common.h`) | none | make, convert byte order, check, send, receive; rules of a turn | sizes and byte order of nested records |
| User list of the client | sorted menu items, the selection | sort, keep the selection across updates | the tree changes with every message, the menu only before keys are read |
| Logging, argument parsing, drawing, `listen`/`connect` | | | not game logic |

Client and server are joined by one TCP connection per session. On the server
one thread per connection feeds a single handler thread; on the client two
threads feed and drain the single interface thread. So each component's own
state has one writer, and everything that can go wrong comes from the order in
which messages meet.

What makes each part correct:

* handler: the trees describe the same users; a user is in at most one
  battle, and that battle exists and has it as a player; a battle waits for an
  action of somebody who is there; no handler meets a user that is gone;
* session: what the screen shows of the users and of the battle is what the
  server holds, once the messages on their way have been read; the player is
  never locked out of a turn the server waits for;
* queue: it is a bounded FIFO, no wakeup is lost, nobody sleeps for ever;
* transport: per connection nothing is lost, doubled or reordered; no client
  stops the handler; a client that leaves is forgotten;
* program of the client: nothing that one session leaves behind reaches the
  next, and a login or a session whose connection breaks comes to an end;
* wire: a message arrives with its fields between any two hosts;
* user list: what Enter acts on is a user who is there.

The hazards, each at its line with the properties that would catch it, are in
`PROJECT.json`.

## 2. The modules

| Module | Models | Uses |
|---|---|---|
| `Protocol` | identifiers, `get_turn_result`, the messages, the channels of a connection | |
| `Server` | the handler thread: one action per path of each handler | `Protocol` |
| `Client` | the sessions: login, the message loop of `ui_main`, its keys, the loss of a connection | `Protocol` |
| `Janken` | both together; the type invariant; safety of the server's state | `Server`, `Client` |
| `JankenViews` | properties that relate a client to the server through the messages on their way; liveness; what the program's own words promise | `Janken` |
| `JankenTurns` | the game with a history of who has acted before being told of a turn | `JankenViews` |
| `MCJanken` | a start in which everyone but the `Newcomers` has logged in, for the runs of the game | `JankenViews` |
| `MCTurns` | the same start for `JankenTurns` | `MCJanken`, `JankenTurns` |
| `Fifo` | what the queue promises: calls that take effect at one instant on a bounded sequence | |
| `Queue` | `queue.c` at the grain of mutex and condition variable calls, and the mapping to `Fifo` | `Fifo` |
| `Fanout` | whom each handler of the server sends to, and in which order | |
| `Pipe` | what the threads and queues between interface and handler promise: the ordered channels that `Protocol` takes for granted | `Fanout` |
| `Transport` | those threads, queues and sockets with their limits, and the mapping to `Pipe` | `Fanout`, `Pipe` |
| `Session` | the client program over several sessions: `ui`, `ui_init`, the states of `ui_login`, its connections and workers | |
| `Wire` | `messages.c` and `recv_count` down to the bytes | |
| `UserList` | the user list, its order and cursor, and the focus of the main screen | |
| `QueueProofs` | theorems about `Queue` | `Queue` |
| `JankenProofs` | theorems about `Janken` and `JankenViews`: types, logins, battles | `JankenViews` |
| `ViewProofs` | theorems about `JankenViews`: the user lists and names the clients see | `JankenProofs` |
| `DuelProofs` | theorems about `JankenViews` and `JankenTurns`: the battles and outcomes the clients see, which player may act and when | `ViewProofs`, `JankenTurns` |
| `TransportProofs` | theorems about `Transport`, its refinement of `Pipe` | `Transport` |
| `SessionProofs` | theorems about `Session` | `Session` |
| `UserListProofs` | theorems about `UserList` | `UserList` |
| `WireProofs` | theorems about `Wire` | `Wire` |

The layers rest on each other. `Queue` implements `Fifo`, so `Transport` may
take a queue call for one step on a bounded sequence. `Transport` implements
`Pipe`, so `Janken` may take what lies between an interface and the handler for
one sequence per direction, and a handler with all its sends for one step.
`Wire` says when a message of these sequences is the message that was sent.

### The game: `Protocol`, `Server`, `Client`, `Janken`

* A connection is named by the server's descriptor `fd`. The server never
  closes a descriptor (`server.c:688` says so), so a name is used once.
* `up[fd]` is the client's `send_queue`, its sending worker, the socket, the
  thread `serve` and the part of `incoming_queue` that came from `fd`.
  `incoming_queue` merges the connections' entries in an arbitrary order that
  keeps each connection's own; taking the head of any `up[fd]` gives exactly
  these orders. `down[fd]` is the socket, the receiving worker and `um_queue`.
  Neither has a limit in these modules; `Transport` has the limits.
* A handler is one action: only the handler thread touches the trees, and its
  sends do not depend on anything but the descriptor.
* A search tree is a function from keys to entries. `act1` and `acted1` are one
  field, with `NoAct` for an action not yet taken; likewise `act2`.
* A session's random key is represented by its descriptor: equal keys mean the
  same session. A nickname is a class under `nick_cmp`, which ignores case.
* `user_add` looks its user up by a descriptor that is not set yet: the value
  it finds is a choice over all descriptors and none (`stale`).
  `game_state_init` leaves `acted` and `state` unset: the values are chosen
  from `UnsetActed` and `UnsetState`. Every run with battles has both values
  of `gs.acted`; `login` has none, and nothing in it reads the field. A `turn_no` of
  0 stands for the unset one, which a TURN may carry.
* `JankenTurns` adds `hasty`, the connections whose player has acted `Untold`, that is
  before the first TURN_R of the session. It follows the game and restricts nothing:
  `Act` happens as it does without it.
* `turn_no` is taken modulo `UINT16_MAX + 1`. `UINT16_MAX` is a constant: 65535
  in the program, a small number in the run that reaches the wrap.
* `random()` for damage, bonus and penalty is a choice from a set. A challenge
  id is a choice of a free one; `FreshIds = TRUE` adds that it was not used
  before. Sixteen draws of ids that are all taken end in the assertion of
  `add_challenge`; the model enters `server = "exhausted"`. A failing assertion
  about the trees or a NULL dereference is `server = "crashed"`.
* When a connection is lost (`Lose`), any suffix of what was sent may be lost
  with it, and EDISCONN follows the rest. The phase `GONE` also stands for
  `ui_login` after UM_DISCONN, which waits for ever.
* After `ui_main` returns, the receiving worker keeps filling a queue that is
  not read (`Discards`).

### The threads: `Fanout`, `Pipe`, `Transport`

* Each thread is a record of what it holds in its hands and whether its loop
  goes on: `out` and `in` are the two calls of `io_worker`, `serve` the thread
  of the server. `OutTake`/`OutSend`, `InRecv`/`InAdd` and
  `ServeRecv`/`ServeAdd` are the two halves of their loops. A thread whose
  receive fails holds the news (UM_DISCONN, EDISCONN) and has stopped.
* The news of the sending worker goes into `send_queue`, the queue that worker
  was draining (`OutEnd`): that is where `client.c:231` puts it.
* `PktTake` is one round of `pkt_handler` up to its sends, `PktSend` one
  `msg_send`, which blocks while the socket is full. `todo` is what the handler
  has still to send. What a handler decides is reduced to whom it sends:
  `Outcomes` of `Fanout`.
* The interface thread polls `um_queue` until it is empty and only then looks
  for keys (`UiTake`, `UiTurn`, `Press`); it blocks in `queue_add` (`adding`).
* `Break` ends a connection with a beginning of what it carried.
* A client whose process is stopped without its connection breaking is left out: all
  its threads go on.

### The program of a client: `Session`

* `ui` is the state of the interface thread; `um_queue` and `send_queue` grow by
  one queue per `ui_init`, since the old ones stay with the old workers.
* A worker holds a descriptor, not a connection. `table` says which connection
  a descriptor names, and `Connect` takes the lowest free one, as the system
  does; so a descriptor that `close(fd)` gives back may come to name another
  connection while an old worker still holds it.
* `MainKey` reads a key only while `um_queue` is empty. The code empties the queue and
  then reads all the keys there are, so a message may come before the last of them;
  such a key does what it would have done before that message came. The end of a session by the player's own UOFFLINE is left out,
  since that UCHANGE only follows its QUIT.
* The server is external here: `Serve` answers JOIN with either JOIN_R and
  anything else perhaps; `stage` is what it knows of a connection.

### The bytes: `Wire`

* `Layout` is the packed structs of `common.h`, `msg_body_conv` what
  `msg_body_l2n` and `msg_body_n2l` do to them: both hosts may be of either
  byte order, the score of a user is not converted, and the loop over the users
  of a UCHANGE runs up to its bound as it is after its own conversion.
* `Ends` are the offsets of the fields of a body; `Bytes` puts fields where `Fields`
  reads them.
* `recv_count(n)` is one `recv` of n bytes. It writes to where the first bytes
  went, because the code passes `p` unchanged. The buffer starts with any of
  the bytes of `Junk`.
* `RecvHead` and `RecvBody` are the checks of `msg_recv` and `msg_check_form`.

### The list: `UserList`

* `Receive` is the UCHANGE case of `ui_main`, `Rebuild` what it does once the
  queue is empty: items from the tree, `qsort_r`, `set_menu_items`,
  `set_current_item`, the old items freed.
* The id of the old selection is read from a `user_cmd_t`, of which it is the
  kind: it is always 0 (`OldId`), so the cursor returns to the first item.
* `Invite` without a current item reaches the command of the nameless last item
  of the other menus, UC_MAX, and the assertion at `client.c:1274` (`aborted`).
* A sort is any sequence of the same elements in which no two are the wrong way
  round (`InOrder`): that is all that `qsort_r` promises.

## 3. The runs

| Run | Question | Result |
|---|---|---|
| `duel` | Two players, one invitation, a battle of any length with turn numbers that wrap, one may quit: `BattleSound`, `BattleConverges`, `NobodyStuck`, `ActsInTurn`, `ResultShown`, `ScoresMoveAtTheEnd`, and under fairness `TurnsAreJudged` | holds |
| `lobby` | Three players, two invitations that cross, are withdrawn, rejected, accepted late: `BattlePairing`, `UsersOfTheChallenge` | holds |
| `quit` | Three players, one quits, another's connection breaks: `NoCrash`, `BattlePairing`, `RosterConverges` | holds |
| `login` | Two logins with the list sent in two messages, room for three, while one of two users quits and the other's connection breaks, a chat: `IndexesAgree`, `JoinOnce`, `RosterConverges`, `NamesResolve`, and under fairness `JoinAnswered` | holds |
| `queue` | Two adders, two takers, two slots: `TypeOK`, `MutualExclusion`, `RingSound`, `NoLostWakeup`, refinement of `Fifo` (`Linearizable`), and under fairness `TakesProgress`, `AddsProgress` | holds |
| `transport` | Two clients, one slot everywhere, requests, quits and a connection that breaks: `TypeOK`, refinement of `Pipe` (`InOrder`), and under fairness `HandlerFlows`, `LeaversForgotten` | holds |
| `session` | Two sessions and two connections, with refusals, failed connects, breaks: `WellSequenced`, `OneSender`, and under fairness `LoginSettles`, `SessionEnds` | holds |
| `userlist` | Three users who come, go and score while the player sorts, moves, invites: `ListShown`, `CountRight`, `EnterSafe`, `InvitesListed` | holds |
| `wire` | Every kind of message, two in a row, either byte order on either side: `FieldsIntact`, `Framed` | holds |
| `cancel` | "press any key to cancel": does C_CANCEL withdraw the invitation? (`CancelWithdraws`) | no |
| `early_turn` | "Expected next turn": does the server note an action only for the turn it expects? (`TurnIsExpected`) | no |
| `short_read` | "Receive packets and store into queue": is a packet that arrives in pieces stored? (`PacketsStored`) | no |

The three runs that end in a counterexample are the findings in `PROJECT.json`.

* `cancel`: `UC_CHL_USER` does not set `gs.opponent_id`, so the first C_CANCEL
  of a session names user 0 and is refused with NXID; the invitation remains.
* `early_turn`: `gs.acted` and `gs.turn_no` are unset when `ui_main` begins, and
  `gs` is on its stack, where an earlier session may have left anything. The
  UCHANGE of an accepted challenge sets `gs.state` to UBATTLING; CHALLENGE_R, which
  sets `gs.acted`, comes after it. If `gs.acted` holds FALSE, a key between the two
  sends a TURN with a `turn_no` that nobody has set, and `handle_turn`, which does
  not compare it with the challenge's, notes the action for turn 1. TURN_R then
  lets the player act again, so it can stay an action ahead for the rest of the
  battle, each action counted for the next turn. `ActsInTurn` says what remains
  true: of everyone who has not acted so, every action noted is for the turn the
  battle is at, also when its opponent has, and in battles after others. And
  `duel` shows that the battle goes on all the same and its ends agree.
* `short_read`: `recv_count` does not advance its pointer. A head that arrives
  in two pieces is refused and ends a connection that is in order; a body is
  stored with its beginning overwritten, or refused. `Framed` says what remains
  true of a body: the packets behind it are found where they begin.

What the passing properties leave room for, because the code does:

* `HandlerFlows` and `LeaversForgotten` have two exceptions, `Stalled`. In
  `Cycle` every queue around a client is full: its interface waits to add, its
  sending worker and the server's thread wait as well, and the handler waits for
  the same client to read. In `Leaving` a client has left while more was sent to
  it than its queue and socket have room for, its own last UCHANGE included.
  In both the server stands still for everyone. The properties say that nothing
  else does that, as long as the threads of the clients keep running: a client
  whose process is suspended with its connection open is not covered.
* `LoginSettles` ends in `~ connected` when the connection breaks before the
  answer: `ui_login` stays in WAIT_MSG, with no message to come and no key that
  it reads. This dead end is also what keeps `OneSender` true: if the login
  went back to its prompt, a second connection would be made beside the first
  one's sending worker (the mutant `WaitMsg_Retry`).
* `SessionEnds` has the exception `Wedged`: the sending worker has given up and
  the player has filled `send_queue` before UM_DISCONN is read.
* `FieldsIntact` leaves out the scores of UCHANGE between hosts of different
  byte orders.
* `EnterSafe` leaves out Enter before the first list, which aborts the client.
* A battle whose `turn_no` wraps to 0 loses one pair of actions: `judge_turn`
  takes turn 0 for the start of the battle. `TurnsAreJudged` and the others hold
  across the wrap, since a judgement follows all the same.
* `UsersOfTheChallenge` is checked with `FreshIds = TRUE`: C_ACCEPT compares the
  users it names with neither player of the challenge, so if `random()` repeats
  the id of a withdrawn challenge while an answer to it is on its way, the
  property fails. It holds as long as ids do not repeat.
* JOINTWICE may be said to a connection that has not joined, when the unset
  descriptor that `user_add` looks up happens to be a user's. `JoinAnswered`
  and `JoinOnce` hold nevertheless.
* An error that answers the player's own earlier request takes away the popup
  of somebody else's challenge, and says that it was cancelled.

### Bounds

* Game: `MaxInvites` (C_START requests), `MaxTurns` (a player does not act in a
  later turn), `Chatters` (who chats, one line at a time), `Leavers` (whose
  players quit), `Fragile` (whose connections break). Everything else is
  unbounded; queues grow as far as these let them.
* Two players, `MAXHP = 3` and damage 2 give turns that end the battle, turns
  that do not, and draws without end. `UINT16_MAX = 6` is the smallest value
  for which the descriptors 4 and 5 are still their own ids, and the numbers of
  the turns run from 1 over 6 to 0 and on, which `MaxTurns = 6` never forbids.
  Three players are the smallest number in which one can be invited by two, or
  be in a battle while invited by a third. Two invitations are enough for two to
  cross, and for one to be withdrawn and followed by another.
* `UCHANGE_MAX_UCNT = 2` with three users makes the list of the one who logs in last
  (`login`) need two messages, the second not full. `MAX_USER_COUNT = 3` with four
  connections makes TOOMANYUSER happen, three nicknames make DUPNICK happen.
* `Seated`, the start of the runs of the game, is a state that the login leads to:
  everyone has joined and read the list, except the `Newcomers` of `login`. Its two
  other users may both leave, so its newcomers also meet an empty server. The
  theorems are about `Spec`, which starts with one.
* `duel` has one invitation, so its battle is the first of both players. That
  `ActsInTurn` and the others hold in battles after others is proved.
* Queue: two slots with two threads of each kind wrap, fill, empty and have two
  sleepers of one kind. One item value is enough for what a run can show of
  wakeups and progress; that elements come out in the order they went in is
  proved for every set of items (`QueueLinearizable`).
* Transport: with one slot everywhere each queue and socket is full or empty at
  every step, the states in which threads wait for each other, and a path still
  holds five entries. `Ways`, the ways of answering a request that are explored, is one reply to any
  one user; a message to everyone comes with each QUIT and lost connection. The
  other ways of `Fanout` (to all, the result of a turn, the start and the end of
  a battle) differ in how many sends follow each other; with any of them the
  state space does not fit the time of a run. That they too keep the order is
  proved (`TransportInOrder`); their part in progress is not covered.
  Only one client presses keys and breaks; the other one receives.
* Session: two sessions and two connections, the fewest in which something can
  be left from one to the next; `QSIZE = 2` leaves room for a request and the
  QUIT behind it.
* Wire: two samples, of which 255 makes carries into the second byte; texts of
  two bytes, one of them the terminator; two users in a UCHANGE, of which none,
  one or both are used; one split, at each place. `wire` splits bodies and
  `short_read` heads too.
* User list: three users, two scores (equal scores are ordered by name), two
  changes after the first list.

Deadlock is not checked in the runs of the game, of the client and of the
transport: players need not press a key, sessions end, and a wire or a list may
have nothing more to carry. It is checked in the run of the queue.

### Fairness

* `Fairness` of `Janken` is weak fairness of the handler for each connection and
  of each interface for taking its messages: the handler thread takes whatever
  is queued, each connection's thread adds to the queue in its turn, and
  `pkt_handler` has a handler for each kind of entry (so the formula need name only
  the taking: no other step shortens `up[fd]` at its head);
  `ui_main` polls `um_queue` every hundredth of a second, also while a popup is
  up. No fairness is assumed of keys, of quitting or of connections breaking.
* `FairSpec` of `Queue` is weak fairness of the steps of a thread that holds the
  mutex or signals, and strong fairness of `Lock`: a thread that wants the mutex
  while it is free again and again gets it at last. POSIX does not promise this
  of a mutex; it is an assumption about the scheduler. Threads need not call.
* `FairSpec` of `Transport` is weak fairness of each thread, of the handler and
  of each interface, and strong fairness of `ServeAdd`: the server's threads
  contend for the slots of `incoming_queue`, and none of them is overtaken for
  ever. That is again the scheduler's part.
* `FairSpec` of `Session` is weak fairness of the interface (of its own steps,
  not of the player), of each worker, and of the server's answers on a
  connection that lives.

## 4. The proofs

### The queue

`QueueProofs` proves, for every capacity of at least one, every finite set of
adders and takers and every set of items:

* `QueueTypeOK`, `QueueMutualExclusion`, `QueueRingSound`: from the inductive
  invariant `IInv == TypeOK /\ MutualExclusion /\ RingSound /\ CarriesItem`.
  `CarriesItem` (a thread in `queue_add` carries a pointer its caller gave) is
  the strengthening: without it a step that stores could put `Junk` in the
  ring. Mutual exclusion is needed for the ring because only the thread in the
  body may move the indices. The index arithmetic is in `ModWrap`, `ModStep`
  and `ModDistinct`: fewer than `cap` slots after `lo`, no two are the same.
* `QueueNoLostWakeup`: while somebody sleeps for an element, every element is
  accounted for by a taker that is awake or a signal still to come. This is
  inductive relative to `IInv`; the lemmas `MovesCovered`, `StaysCovered`,
  `KeepsCovered` and `SignalCovered` say how a step changes the two counts,
  once for both kinds of thread.
* `QueueLinearizable`: `Spec => Abstract!FifoSpec`. The initial state maps to
  the empty FIFO, storing appends to the content of the ring
  (`StoresContent`), removing takes its head (`RemovesContent`), and every
  other step is a call, a return or a stutter.

The assumptions are `CapAssumption` (the capacity is not zero; every call of
`queue_create` passes a positive constant), `JunkAssumption` and
`ThreadsAssumption`, which TLC evaluates in the runs of the queue.

### The game: logins

`JankenProofs` proves, for every finite set of connections, every set of
nicknames and challenge ids and every value of the rules' constants:

* `JankenTypeOK`, `JankenIndexesAgree`, `JankenJoinOnce`: from the inductive
  invariant `LoginInv == TypeOK /\ OwnIds /\ IndexesAgree /\ JoinOnce`.

None of the four is inductive alone. `handle_disconnect` goes from `user_by_fd`
to the user without a check, so `TypeOK` needs `IndexesAgree`. A new user is
entered into trees that must not hold its descriptor, its id or its nickname
yet: `user_add` looks only the nickname up under the right key. That the
descriptor is new is `JoinOnce`, which is a fact about both ends of the
connection and what is on its way between them: the login screen sends JOIN
only before the first answer or after a refusal, and the server answers each
JOIN once. That the id is new then follows from `OwnIds`, a user's id is its
descriptor. In the other direction, a refusal may bring the login screen back
only if the server has not entered the connection, hence the last clause of
`JoinOnce`.

`JankenProofs` begins with one lemma per action for `TypeOK`. For the rest, the
handlers that neither add nor remove a user share one argument: they `Keep` the
users' descriptors and nicknames and send nothing about joins (`Quiet`);
`JudgeSame` shows that for `judge_turn`, whether it ends the battle or not.
`JoinOkIndexes`, `JoinOkOnce` and `QuitUserInv` are the other cases, and each
step of a session is reduced to its own connection by `SessionStep`.

The assumptions are `UintAssumption` (`UINT16_MAX` is not zero), `FdsAssumption`
(descriptors are between 1 and `UINT16_MAX - 1`, so `fd % UINT16_MAX` is the
descriptor and ids do not collide), `ChIdsAssumption`, `RuleAssumption`,
`RoomAssumption` and `UnsetAssumption`; TLC evaluates them in the runs of the
game.

### The game: battles

`JankenProofs` proves further, for every finite set of connections and every value of
the rules' constants, as long as `FreshIds` (`random()` does not repeat a
challenge id):

* `JankenBattlePairing`, `JankenBattleSound`, `JankenNoCrash` and
  `JankenUsersOfTheChallenge`, from the inductive invariant
  `BattleInv == Words /\ Rest /\ Paired /\ NoCrash` on top of `LoginInv`;
* `JankenScores`: a step that changes a score ends the battle of that user,
  from the same invariant.

Why so much is needed: `handle_challenge` takes the users that it puts into
battle from the C_ACCEPT, and that C_ACCEPT repeats what a session was told in a
CHALLENGE some time ago. So pairing users with battles depends on `Words`: what
is on its way, or kept in a session, about a challenge is true of that challenge
if it still exists. `handle_turn` likewise does not ask whether the challenge
has started; that the first TURN of a challenger cannot arrive while it is open
is the clause `NotAsker` of `Words`. `Rest` is what keeps `judge_turn` away from
open challenges, and `Paired` is why it finds both its players, hence `NoCrash`.
`Words` speaks of challenges by id, and is true only because an id means one
challenge: with ids that repeat, a late C_ACCEPT would be about a challenge it
does not know. `Moves` is the one fact about the handlers that all of `Words`
rests on: no id drawn before comes to name another challenge, and a challenge
keeps its players and never becomes open again.

### The game: what the clients see

`ViewProofs` proves `JankenRosterConverges`, for every finite set of connections,
every capacity of an UCHANGE and every value of the rules' constants, whether or
not challenge ids repeat: a session's list of users, once the messages on their way
are taken, is the server's. The invariant is `RosterInv`, on top of `LoginInv`:

* `Awake`: nobody in the tree is UOFFLINE between two handlers. A client drops an
  entry that is, so otherwise the two lists could not be equal.
* `Begins`: until a connection is admitted, what is on its way over it is only the
  dialogue of the login, and the session's list is empty.
* `Enters`: a session that is admitted and has not read so has the answer to its
  JOIN at the head of what it reads. `ui_login` drops every other message in that
  state: a broadcast that came first would be lost, and its list wrong for good.
* `OwnId`: the id a session has or will have is its descriptor.
* `Sees`: what is on its way does not end the session, and turns its list into the
  server's.

The messages' effect on a list is a function on sequences, defined by recursion over
their length (`After`). Its laws are proved by induction over sets of numbers
(`NatInduct`): what one more message does (`AfterAppend`), what the first one does
(`AfterHead`), and that a sequence can be taken in two parts (`AfterConcat`).
`ListOfAll` is the heart of a login: the chunks that `send_user_info` cuts the tree
into for ALL_TO_ONE (`AllUsers`) add up to the whole tree. The handlers then share one
argument. A
handler `Informs` the connections it knows if what it appends to each takes the list
from the old tree to the new one and answers no JOIN; that is transitive, so a handler
that tells of several changes is a chain of such steps (`Told`), and `TellsRoster`
turns it into the invariant. For a session's own steps, `SessionRoster` reduces the
invariant to its connection.

`JankenNamesResolve` is proved on top of that, under the same assumptions: whoever
chats with, challenges or fights the user at a screen is in the list of that screen
when the message is read. That the list becomes the server's in the end is not enough;
the list must have the user at that point of the sequence. So the invariant,
`NamesInv`, is about every message on its way: `Resolves` says that each one finds the
users it names in the list as the messages before it leave that list. It needs
`Waits`, that a session whose JOIN has been taken has a JOIN_R at the head of what it
reads, so that `ui_login` never throws away a message that the others count on
(`AnswerFirst`). A handler `Follows` the invariant if what it has sent so far
`Resolves` at every session. A message without a name always may follow, one with
names if those users are in the tree and the receiver has been told of the tree as it
is (`Told`, `FollowsTold`). Within `HandleAccept` that tree is a new one: the replies
name both users after the broadcast that both are in a battle.

### The game: the players' view of a battle

`DuelProofs` proves `JankenBattleConverges`, for every finite set of connections and
every value of the rules' constants, as long as challenge ids do not repeat: once it has
read what is on its way, a client is in a battle exactly if the server has it in one,
and then in that one, on its side, against its opponent, at its turn and with its hit
points. The invariant is `DuelInv`, on top of `LoginInv`, `RosterInv` and `BattleInv`.
It says of every user of the server that its session `Tracks` what the server has:

* A session that is at the main screen is compared after the messages on their way. One
  that is admitted and does not know so yet is compared from the state it will begin in
  (`Ready`), whatever `gs.state` and `gs.acted` hold there: the list that follows the
  JOIN_R has the user's own entry in one of its chunks (`FreeAfterAll`), which sets the
  state.
* `Claim` has four grades: in no battle; in one; and knows which; and at its turn. The
  messages of a handler take a session from grade to grade (`Turns`). `HandleAccept`
  needs all of them: the broadcast says "in one", the CHALLENGE_R which, the TURN_R of
  the first `judge_turn` the rest. The last TURN_R of a battle takes the session back to
  "in one", as it does not set the turn, and the broadcast after it to none.
* `Firm` is why the keys of the player do not matter. `ui_main` takes a CHALLENGE only
  when no popup is up, and then replaces the opponent and the challenge that it has, so
  what the messages on their way lead to depends on a popup that the player may close
  before they are read. No CHALLENGE is behind the CHALLENGE_R that starts a battle
  (`handle_challenge` refuses to challenge a user in one), and that CHALLENGE_R sets
  both fields. So two sessions that differ in their popup are `Alike` after the same
  messages if these are `Firm` (`AfterAlike`), and `TracksAlike` covers the keys.

`Watched` carries the invariant through a handler: what it has sent so far to each user
fits users and challenges as it has changed them. `JudgeDuel` is `judge_turn`, for a turn
(`TurnJudgedDuel`) and for a player that leaves (`QuitUserDuel`).

`JankenResultShown` says that the outcome a client prints for a turn is the change of
the hit points on its screen. The screen is computed from two messages, the TURN_R
before and this one, and from a side the client has noted; the outcome from the actions
in this one. So the invariant `ShownInv` says of every message on its way that it fits
the session its reader will have become by then (`Shows`): each TURN_R after the first
of a battle fits the hit points that the messages before it lead to. Every new message
has to fit only at the end of the queue, where `DuelInv` says what the reader will have
on screen (its side, and the hit points of the challenge that `judge_turn` changes); keys
do not disturb it, because hit points and sides depend on no popup (`SamePoints`).

### The game: whose turn it is

`DuelProofs` also proves, for every finite set of connections and every value of the rules'
constants, as long as challenge ids do not repeat:

* `JankenNobodyStuck`: if the server waits for a player's action, that action is on its
  way, or the player will be able to act when it has read what it was sent;
* `JankenActsInTurn`: `TurnsSpec => []ActsInTurn`. An action that is noted is for the
  turn its challenge is at, unless its player has acted before it was told of a turn,
  whatever `gs.acted` held before `ui_main` set it. Without the exception it would not
  be true: see `early_turn` in section 3.

The invariant is `TurnsInv(H)`, on top of all the others. `H` is the set of connections
that may have acted untold; nothing is claimed of when they act. For each player it
relates three things: how the server sees it (`World`: unknown, idle, waited for, noted),
what its session does after the messages on their way, and the TURNs on their way back.

* `Own`: a session has the key of its own user, and so do its TURNs. Otherwise
  `handle_turn` would drop the action the battle waits for.
* `Go`: a player waited for has a TURN of that battle on its way, or `gs.acted` is FALSE
  after what it has still to read. This is `NobodyStuck` at any point of a login too.
* `Late`, of those not in `H`: at every point of what it has to read, not only the last,
  a session that has been told of a turn (`Aware`) and may act is in a battle that is
  over, or in the one that waits for it, has not sent its action, and has no message left
  to read that changes the turn. `NobodyStuck` and `ActsInTurn` are facts about the ends
  of the queues; they are kept only because a key may be pressed at each point between.
* `Prompt`, of those not in `H`: a TURN on its way is of a battle that is over, or the
  only one of the one that waits for it, and has its turn number.

Why the exception has to be there is in `Late`: a session is in battle by the broadcast of
`HandleAccept`, before CHALLENGE_R sets `gs.acted`. If that holds FALSE there it can act,
at a turn it does not know. `Aware` is what tells such a session from the others: hit
points of a session are 0 until the first TURN_R, and a TURN_R that lets the player act
shows more than 0 (`BattleSound`). `ReadsUntold` and `AwareTrails` say what the messages
do to it.

`NextTurns` proves that a step keeps `TurnsInv(H)`, provided that whoever acts untold in it
is in `H`, and `TurnsMore` that `H` may grow. With all connections in `H` the proviso is
empty: that is `NobodyStuck`, a theorem of `Spec`. With `H = hasty` the history meets it:
that is `ActsInTurn`, a theorem of `TurnsSpec`, to which the other invariants carry over
because `hasty` restricts nothing (`TurnsIsGame`).

The messages of a handler do four things to a player: nothing to what it may do (`Mild`,
`TidyMild`), begin a battle (CHALLENGE_R, which `Seals`), open a turn (TURN_R), and end
a battle. `judge_turn` opens a turn only for a battle that has both actions, so that
neither player has a TURN on its way then: that is `Prompt` again. Battles of others
leave a player alone, as do new and withdrawn challenges (`GoesOn`, `Stays`), and a
battle that ends makes whatever was said about it harmless (`Bygone`): here the ids must
not repeat. `Kept` carries the invariant through a handler, message by message. Of the
client, only `Act` and the messages that set `gs.acted` matter; popups come and go
without effect on either (`PopupTurns`), as in `DuelInv`.

### The threads

`TransportProofs` proves, for every finite set of clients, every capacity of
queues and sockets and every set of ways to answer:

* `TransportTypeOK`: nothing ever holds more than it has room for;
* `TransportInOrder`: `Spec => Abstract!PipeSpec`, the refinement of `Pipe` on which
  `Janken` rests. From the inductive invariant `TransportInv`, which adds two
  facts to the types: while a connection is not broken its three threads run
  (`Working`), and neither `send_queue` nor the sending worker holds the news of
  its end (`Clean`). Without the second one that news could be sent as a packet.

The mapping puts the pieces of a path together: what the interface is adding,
`send_queue`, the worker's hands, the socket, the hands of `serve`, and this
connection's share of `incoming_queue`. That last one, and what the handler has
still to send to one client, are sums over a sequence (`Flatten`); the lemmas on
what appending to it and taking its head do to the sum are by induction over its
length. Then a path changes in few ways (`PathTakes`, `PathAdds`, `PathSends`,
`PathEnds`, `PathGrows`, `PathTaken`, `PathBreaks`): moving an element from one
piece to the next leaves it as it is, and each action of a thread is one of them.

The assumptions are `ClientsAssumption`, `WaysAssumption` and
`LimitsAssumption` (no capacity is zero), which TLC evaluates in `transport`.

### The program of a client

`SessionProofs` proves, for every capacity and every number of sessions and
connections, `SessionWellSequenced` and `SessionOneSender`, from the inductive
invariant `SessionInv`: types; `Screen`, which of four situations the interface
is in and that the descriptors were given out in order; `OwnQueue`, no two
connections share a queue; `EndIsLast`, the end of a connection is the last that
a worker tells; `Conversation`, what is on its way over each connection fits the
state of the interface and what the server knows; `DeadIsEmpty`.

`OneSender` is about descriptors, which can be reused after a `close`. The heart
of the invariant is why they are not: the only close is that of the login screen
when a connection breaks before its answer (`DeadEnd`), and after it nothing can
arrive that would let the interface go on to another `connect`. For that one must
know that UM_DISCONN was the last message of that queue, that nothing else was on
its way over it, and that no other worker adds to it: the other conjuncts.

The assumption is `SessionAssumption` (no capacity or bound is zero).

### The user list

`UserListProofs` proves, for every finite set of users, all nicknames and scores and
every capacity of an UCHANGE, all that the run checks: `UserListShown`,
`UserListCountRight`, `UserListEnterSafe` and `UserListInvitesListed`, from the
inductive invariant `ListInv == Way /\ MenuInv /\ Drawn`.

* `Way`: the messages on their way take the client's tree to the server's users, by
  trees whose count is right. It is stated by the sequence of these trees (`Trail`), so
  that receiving a message takes its head and sending one appends to it. That two users
  of the tree have different nicknames follows: the server's have at any time, and the
  client's tree is one that the server had, or a part of its first list.
* `MenuInv`: once there is an item the tree has users, and so any list that is drawn
  later. This rests on `Trail` as well: a message that does not end the session leaves
  somebody in a tree that had somebody, as it comes from a server that has Me. Without it
  `set_menu_items` would get an empty list and the items under the cursor be freed.
* `Drawn`: unless it is to be drawn anew the menu is the tree, in the chosen order.

What a message does to a tree is a recursive function (`Took`), the parts of the first
list add up by induction over their users (`TookPart`), and that a set can be sorted by
an order is proved by induction over its size (`SortExists`): otherwise the CHOOSE in
`InOrder` would say nothing. That the order is strict, as `ListShown` says, is because
the nicknames are different.

The assumption is `UserListAssumption`, which TLC evaluates in `userlist`.

### The bytes

`WireProofs` proves, for every length of a text, every capacity of an UCHANGE and all
contents of the buffer at first, from the inductive invariant
`WireInv == Typed /\ Framing /\ Intact`:

* `WireFieldsIntact`: as long as `recv` gives what is asked for, every message arrives
  with its fields and none is refused, between hosts of any byte orders, but for the
  scores of users between hosts of different ones;
* `WireFramed`: if no head is cut in two (`"head" \notin ShortIn`), a body that comes in
  pieces costs no message but itself. The run `short_read` shows what a head in pieces does.

Two things have to be known. One is where the packets are: the bytes that are wanted and
the stream behind them end where the packets of the messages sent end (`Framing`), so that
the place of each packet follows from the lengths of the ones after it (`AfterOf`), and
taking bytes from the front moves them all (`CarriesLess`). A recv that is short leaves
the body wrong and the head where it was, and what is wanted still ends at the border:
this is why only heads must be whole. The other is that a body is read as it was written:
fields are found where they were put (`BytesOf`, by induction over where fields end),
a number is the sum of its digits (`BigDigits`), and both hosts' loops over the users of a
UCHANGE reach every user there is (`ReadBack`): the sender's bound, the count after its
conversion, is too large or right, never too small (`CountReads`), and what lies beyond the
count is zeros, which look the same both ways round.

The assumptions are `WireAssumption` and `SizesFit` (the length of a body fits the two
bytes for it in a head), which TLC evaluates in `wire`.

### What is not proved

Every invariant that the passing runs check is proved. All liveness, and with it everything that
needs fairness or ENABLED, is out of the prover's reach and only model-checked:
`TurnsAreJudged`, `JoinAnswered`, `TakesProgress`, `AddsProgress`, `HandlerFlows`,
`LeaversForgotten`, `LoginSettles`, `SessionEnds`. Induction over numbers is within
its reach when it is stated of a set of numbers instead of an operator (`Least` and
`Induct` of `TransportProofs`, `NatInduct` of the others): that is how the recursive
functions on numbers are reasoned about. RECURSIVE operators are not used.

## 5. Not modelled

Not modelled, because they keep no state that the game depends on: logging,
argument parsing, drawing, and the calls that set up the listening socket. Of
the nickname rules only `nick_cmp` is modelled: `is_nickstr` is applied by the login
screen (`client.c:355`), so every nickname of the models is legal. `user_add` does not
apply it again; the server takes whatever name a JOIN has.
What a key does to a line that is being typed is left out as well.

Two hazards of `PROJECT.json` have no property: that `add_challenge` runs out of
ids is true of the code, and a question of probabilities; that descriptors run
out is a limit of the operating system.
