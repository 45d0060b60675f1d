------------------------------ MODULE MCJanken ------------------------------
EXTENDS JankenViews

CONSTANT Newcomers  \* the connections that have yet to log in

(* A state of the server in which every other session has logged in and    *)
(* read the user list, under a nickname that is its descriptor's number.   *)
Seated ==
  LET seated == Fds \ Newcomers
      users == [fd \in seated |-> user_create(fd, fd)]
      list == {Info(fd, users[fd]) : fd \in seated}
      Begun(fd, acted) == [NewSession EXCEPT
                             !.phase = "MAIN", !.id = fd, !.key = fd,
                             !.acted = acted, !.state = "UONLINE",
                             !.user_by_id = list]
  IN  /\ ChannelsInit
      /\ user_by_id = users
      /\ user_by_fd = [fd \in seated |-> fd]
      /\ user_by_nick = [fd \in seated |-> fd]
      /\ user_cnt = Cardinality(seated)
      /\ ch_by_id = Empty /\ drawn = {} /\ server = "running"
      /\ \E acted \in [seated -> UnsetActed] :
           session = [fd \in Fds |-> IF fd \in seated THEN Begun(fd, acted[fd])
                                                      ELSE NewSession]
      /\ invites = 0

SeatedSpec == Seated /\ [][Next]_vars

FairSeatedSpec == SeatedSpec /\ Fairness
=============================================================================
