----------------------------- MODULE JankenTurns -----------------------------
(***************************************************************************)
(* The game with a history of who has acted untold.  gs.acted is unset     *)
(* when ui_main begins (game_state_init); where it happens to be FALSE, a  *)
(* player who is in a battle by UCHANGE can act before TURN_R has told the *)
(* turn, and may be a turn behind from then on.  What is true of everyone  *)
(* else is stated with this history.                                       *)
(***************************************************************************)
EXTENDS JankenViews

VARIABLE hasty  \* the connections whose player has acted untold

turnVars == <<vars, hasty>>

(* gs.hp is 0 (game_state_init) until the first TURN_R of a session, and   *)
(* positive in each TURN_R that lets the player act; the last one of a     *)
(* lost battle shows 0 again, but leaves gs.acted set.                     *)
Untold(fd) == session[fd].hp = 0

TurnsInit == Init /\ hasty = {}

(* The history follows the game and does not restrict it. *)
Remember ==
  hasty' = hasty \cup {fd \in Fds : Untold(fd) /\ \E action \in Acts : Act(fd, action)}

TurnsNext == Next /\ Remember

TurnsSpec == TurnsInit /\ [][TurnsNext]_turnVars

(* ActsInTurn: the action that handle_turn notes of a player who has never *)
(* acted untold is one for the turn the challenge is at ("Expected next    *)
(* turn", common.h:88), though handle_turn does not compare the two: such  *)
(* a player has no way to act between its turns, whatever its opponents    *)
(* do, in this battle and after others.                                    *)
ActsInTurn ==
  \A fd \in Fds \ hasty :
    (up[fd] # <<>> /\ Head(up[fd]).kind = "TURN" /\ TurnTaken(Head(up[fd]))) =>
      LET m == Head(up[fd]) IN
      NotedBy(m) # ch_by_id[m.chid] => m.turn_no = ch_by_id[m.chid].turn_no
=============================================================================
