------------------------------ MODULE UserList ------------------------------
(***************************************************************************)
(* The user list of the main screen (ui_main of client.c): the tree that   *)
(* UCHANGE messages keep, the menu that is rebuilt from it when a round of *)
(* messages is over, its order, its cursor, and the keys that act on it.   *)
(* Nobody is invited or challenged by others here (Client has that): keys  *)
(* go to the focus, or to the popup of an invitation of one's own.         *)
(*                                                                         *)
(* A nickname is its place in the order of strncasecmp.                    *)
(***************************************************************************)
EXTENDS Integers, SequencesExt, FiniteSetsExt

CONSTANTS
  Ids,                \* users, by id
  Me,                 \* the user at the screen
  Nicks,              \* nicknames
  Scores,             \* bound: the scores users may have
  UCHANGE_MAX_UCNT,   \* users of one UCHANGE
  MaxChanges          \* bound: UCHANGEs the server sends later on

ASSUME UserListAssumption ==
  /\ Ids \subseteq Nat \ {0} /\ IsFiniteSet(Ids) /\ Me \in Ids
  /\ Nicks \subseteq Nat /\ Scores \subseteq Int
  /\ UCHANGE_MAX_UCNT \in Nat \ {0} /\ MaxChanges \in Nat

VARIABLES
  online,        \* the server's users: id -> nickname and score
  chan,          \* UCHANGEs on their way, each a sequence of users
  changes,       \* UCHANGEs sent so far
  user_by_id,    \* the client's tree, like online
  user_cnt,
  menu,          \* the items of user_list_menu
  cursor,        \* the current item, 0 if the menu has none
  freed,         \* the menu's items have been freed
  sort_by,
  user_list_updated,
  focus_idx,     \* 0 user list, 1 chat input, 2 battle actions, 3 main menu
  phase,         \* "poll" for messages or "keys"; "done", or "aborted"
  asked          \* the user of the invitation in the popup (W_CANCEL), or 0

serverVars == <<online, chan, changes>>
treeVars == <<user_by_id, user_cnt>>
menuVars == <<menu, cursor, freed>>
keyVars == <<sort_by, focus_idx, asked>>
vars == <<serverVars, treeVars, menuVars, keyVars, user_list_updated, phase>>

User(nick, score) == [nick |-> nick, score |-> score]

(* A user of a UCHANGE. *)
Change(id, u, offline) == [id |-> id, nick |-> u.nick, score |-> u.score,
                           offline |-> offline]

(* The elements of S, each once, one after the other as R has them.        *)
InOrder(S, R) ==
  CHOOSE s \in [1 .. Cardinality(S) -> S] :
    /\ Range(s) = S
    /\ \A i, j \in DOMAIN s : i < j => <<s[i], s[j]>> \in R

(* A walk through the tree of users by id.                                 *)
ChangesOf(users) ==
  LET S == {Change(id, users[id], FALSE) : id \in DOMAIN users}
  IN  InOrder(S, {p \in S \X S : p[1].id < p[2].id})

(* What a new user is told: everyone, in messages of limited size. *)
Chunks(s) ==
  [k \in 1 .. (Len(s) + UCHANGE_MAX_UCNT - 1) \div UCHANGE_MAX_UCNT |->
     SubSeq(s, (k - 1) * UCHANGE_MAX_UCNT + 1, Min({k * UCHANGE_MAX_UCNT, Len(s)}))]

(* The nicknames of users are different. *)
Users == UNION {{f \in [S -> [nick : Nicks, score : Scores]] :
                   \A i, j \in S : f[i].nick = f[j].nick => i = j} : S \in SUBSET Ids}

(* ui_main, before its loop: the list is on its way. *)
Init ==
  /\ online \in {f \in Users : Me \in DOMAIN f}
  /\ chan = Chunks(ChangesOf(online)) /\ changes = 0
  /\ user_by_id = <<>> /\ user_cnt = 0
  /\ menu = <<>> /\ cursor = 0 /\ freed = FALSE
  /\ sort_by = "BY_SCORE"
  /\ user_list_updated = FALSE
  /\ focus_idx = 0
  /\ phase = "poll" /\ asked = 0
----------------------------------------------------------------------------
(* The server: a user joins, has another score, or leaves (Me too). *)
Tells(c) ==
  /\ changes < MaxChanges /\ changes' = changes + 1
  /\ chan' = Append(chan, <<c>>)
  /\ UNCHANGED <<treeVars, menuVars, keyVars, user_list_updated, phase>>

Without(f, id) == [i \in DOMAIN f \ {id} |-> f[i]]
With(f, id, u) == [i \in DOMAIN f \cup {id} |-> IF i = id THEN u ELSE f[i]]

ServerTells ==
  \/ \E id \in Ids, u \in [nick : Nicks, score : Scores] :
       /\ With(online, id, u) \in Users /\ Me \in DOMAIN online
       /\ id \in DOMAIN online => u.nick = online[id].nick
       /\ online' = With(online, id, u)
       /\ Tells(Change(id, u, FALSE))
  \/ \E id \in DOMAIN online :
       /\ Me \in DOMAIN online
       /\ online' = Without(online, id)
       /\ Tells(Change(id, online[id], TRUE))
----------------------------------------------------------------------------
(* Mutant: the count stays when a user goes. *)
Updated_NoCount(t, c) ==
  IF c.offline
    THEN [users |-> Without(t.users, c.id), cnt |-> t.cnt]
  ELSE [users |-> With(t.users, c.id, User(c.nick, c.score)),
        cnt |-> IF c.id \in DOMAIN t.users THEN t.cnt ELSE t.cnt + 1]

(* One user of a UCHANGE and the tree with its count. *)
Updated(t, c) ==
  IF c.offline
    THEN [users |-> Without(t.users, c.id),
          cnt |-> IF c.id \in DOMAIN t.users THEN t.cnt - 1 ELSE t.cnt]
  ELSE [users |-> With(t.users, c.id, User(c.nick, c.score)),
        cnt |-> IF c.id \in DOMAIN t.users THEN t.cnt ELSE t.cnt + 1]

(* The users of a UCHANGE, from the first to the last. *)
Took(t, msg) ==
  LET f[i \in 0 .. Len(msg)] == IF i = 0 THEN t ELSE Updated(f[i - 1], msg[i])
  IN  f[Len(msg)]

(* Mutant: a user that goes does not make the list be drawn anew. *)
OnUchange_NotUpdated(msg) ==
  LET t == Took([users |-> user_by_id, cnt |-> user_cnt], msg)
  IN  /\ user_by_id' = t.users /\ user_cnt' = t.cnt
      /\ user_list_updated' = (user_list_updated \/ \E i \in DOMAIN msg : ~ msg[i].offline)
      /\ UNCHANGED phase

(* Mutant: one's own end is a change like others. *)
OnUchange_Stays(msg) ==
  LET t == Took([users |-> user_by_id, cnt |-> user_cnt], msg)
  IN  /\ user_by_id' = t.users /\ user_cnt' = t.cnt
      /\ user_list_updated' = TRUE
      /\ UNCHANGED phase

(* The case of UCHANGE; one's own end is the end of the session, at once. *)
OnUchange(msg) ==
  IF \E i \in DOMAIN msg : msg[i].offline /\ msg[i].id = Me
    THEN phase' = "done" /\ UNCHANGED <<treeVars, user_list_updated>>
  ELSE LET t == Took([users |-> user_by_id, cnt |-> user_cnt], msg)
       IN  /\ user_by_id' = t.users /\ user_cnt' = t.cnt
           /\ user_list_updated' = TRUE
           /\ UNCHANGED phase

Receive ==
  /\ phase = "poll" /\ chan # <<>>
  /\ OnUchange(Head(chan))
  /\ chan' = Tail(chan)
  /\ UNCHANGED <<online, changes, menuVars, keyVars>>
----------------------------------------------------------------------------
(* populate_user_list makes an item of each user, in the order of their    *)
(* ids and at most user_cnt of them: the user as it is now.                *)
Items == SubSeq(ChangesOf(user_by_id), 1, user_cnt)

(* Mutant: the lowest score first. *)
cmp_item_for_sort_Ascending(i, j) ==
  LET by_name == i.nick - j.nick
      by_score == i.score - j.score
  IN  IF sort_by = "BY_NAME" THEN IF by_name = 0 THEN by_score ELSE by_name
      ELSE IF by_score = 0 THEN by_name ELSE by_score

(* cmp_item_for_sort, and the order it stands for. *)
cmp_item_for_sort(i, j) ==
  LET by_name == i.nick - j.nick
      by_score == j.score - i.score
  IN  IF sort_by = "BY_NAME" THEN IF by_name = 0 THEN by_score ELSE by_name
      ELSE IF by_score = 0 THEN by_name ELSE by_score

qsort_r(items) ==
  LET S == Range(items)
  IN  InOrder(S, {p \in S \X S : cmp_item_for_sort(p[1], p[2]) <= 0})

(* The old selection.  An item's user pointer is a user_cmd_t, and what is *)
(* read as an id is its kind, UC_CHL_USER: 0.                              *)
OldId == IF cursor = 0 THEN {} ELSE {0}

(* The menu is made anew: set_menu_items takes no empty list, and puts the *)
(* cursor on the first item; set_current_item puts it on the old selection *)
(* if that was found.  The old items are freed in any case.                *)
Rebuild ==
  LET items == qsort_r(Items)
      found == {i \in DOMAIN items : items[i].id \in OldId}
  IN  /\ menu' = IF items = <<>> THEN menu ELSE items
      /\ cursor' = IF items = <<>> THEN cursor
                   ELSE IF found = {} THEN 1 ELSE Min(found)
      /\ freed' = (freed \/ (items = <<>> /\ menu # <<>>))
      /\ user_list_updated' = FALSE

(* No message is there (others may be on their way): the list is drawn if  *)
(* it has changed, and keys are looked for.                                *)
EndPoll ==
  /\ phase = "poll"
  /\ IF user_list_updated THEN Rebuild ELSE UNCHANGED <<menuVars, user_list_updated>>
  /\ phase' = "keys"
  /\ UNCHANGED <<serverVars, treeVars, keyVars>>

(* No key is there: the loop begins again. *)
EndKeys ==
  /\ phase = "keys"
  /\ phase' = "poll"
  /\ UNCHANGED <<serverVars, treeVars, menuVars, keyVars, user_list_updated>>
----------------------------------------------------------------------------
Focused(idx) == phase = "keys" /\ asked = 0 /\ focus_idx = idx

FocusCnt == 4

(* Tab and back tab. *)
Tab ==
  /\ phase = "keys" /\ asked = 0
  /\ \/ focus_idx' = (focus_idx + 1) % FocusCnt
     \/ focus_idx' = (focus_idx + FocusCnt - 1) % FocusCnt
  /\ UNCHANGED <<serverVars, treeVars, menuVars, sort_by, asked, user_list_updated,
                 phase>>

(* An arrow key moves the cursor of the list. *)
Move ==
  /\ Focused(0)
  /\ \E i \in DOMAIN menu : cursor' = i
  /\ UNCHANGED <<serverVars, treeVars, menu, freed, keyVars, user_list_updated, phase>>

(* Enter in the list: the current item's user is invited, unless it is     *)
(* oneself.  Without a current item the command is the one that was given  *)
(* to the item without a name at the end of the other menus, UC_MAX.       *)
Invite ==
  /\ Focused(0)
  /\ \/ cursor = 0 /\ phase' = "aborted" /\ UNCHANGED asked
     \/ cursor # 0 /\ menu[cursor].id # Me /\ asked' = menu[cursor].id /\ UNCHANGED phase
  /\ UNCHANGED <<serverVars, treeVars, menuVars, sort_by, focus_idx, user_list_updated>>

(* The popup of the invitation goes, with a key or with the answer. *)
Dismiss ==
  /\ phase \in {"poll", "keys"} /\ asked # 0
  /\ asked' = 0
  /\ UNCHANGED <<serverVars, treeVars, menuVars, sort_by, focus_idx, user_list_updated,
                 phase>>

(* Enter on an item of the main menu: UC_SORT and UC_QUIT. *)
MainCommand ==
  /\ Focused(3)
  /\ \/ /\ sort_by' \in {"BY_NAME", "BY_SCORE"}
        /\ user_list_updated' = TRUE
        /\ UNCHANGED phase
     \/ /\ phase' = "done"
        /\ UNCHANGED <<sort_by, user_list_updated>>
  /\ UNCHANGED <<serverVars, treeVars, menuVars, focus_idx, asked>>

Next ==
  \/ ServerTells \/ Receive \/ EndPoll \/ EndKeys
  \/ Tab \/ Move \/ Invite \/ Dismiss \/ MainCommand

Spec == Init /\ [][Next]_vars
----------------------------------------------------------------------------
(* Ahead(i, j): i belongs before j in the list. *)
Ahead(i, j) ==
  IF sort_by = "BY_NAME" THEN i.nick < j.nick
  ELSE i.score > j.score \/ (i.score = j.score /\ i.nick < j.nick)

(* ListShown: when keys are read the menu has every user of the tree once, *)
(* with the score it has now, in the chosen order unless the order has     *)
(* been chosen since.                                                      *)
ListShown ==
  phase = "keys" =>
    /\ {menu[i] : i \in DOMAIN menu} = {Change(id, user_by_id[id], FALSE) :
                                          id \in DOMAIN user_by_id}
    /\ ~ user_list_updated =>
         \A i, j \in DOMAIN menu : i < j => Ahead(menu[i], menu[j])

(* CountRight: user_cnt is the number of users in the tree, so that the    *)
(* array of items is filled to its end and no further.                     *)
CountRight == user_cnt = Cardinality(DOMAIN user_by_id)

(* EnterSafe: once a list has been shown Enter has an item that has not    *)
(* been freed: the list is never empty again, though set_menu_items would  *)
(* refuse an empty one and its items be freed all the same.  Only before   *)
(* the first list does Enter run into the assertion on UC_MAX              *)
(* (client.c:1274).                                                        *)
EnterSafe ==
  /\ ~ freed
  /\ menu # <<>> => cursor \in DOMAIN menu /\ phase # "aborted"

(* InvitesListed: whoever is invited is in the list at that time.          *)
InvitesListed == [][asked' \in {0, asked} \cup DOMAIN user_by_id]_vars

=============================================================================
