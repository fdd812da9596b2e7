---------------------------- MODULE MCWebClient ----------------------------
EXTENDS WebClient, TLC

CONSTANTS e1, e2, u1, u2, s1, s2, s3

(* A call may take any place. *)
SlotSymmetry == Permutations(Slot)

Row(u, start, end, status) ==
  [user |-> u, start |-> start, end |-> end, brk |-> 0, onbrk |-> 0, status |-> status]

MCBodies == {[start |-> 1, end |-> 1, brk |-> 0], [start |-> 1, end |-> 2, brk |-> 0]}

OneOpen == [id \in Id |-> IF id = e1 THEN Row(u1, 1, 1, StatusOpen) ELSE NoEntry]
TwoUsers == [id \in Id |-> IF id = e1 THEN Row(u1, 1, 1, StatusSubmitted)
                           ELSE Row(u2, 1, 1, StatusSubmitted)]

OneRunning == [id \in Id |-> IF id = e1 THEN Row(u1, 1, 1, StatusSubmitted)
                             ELSE Row(u1, 1, 0, StatusOpen)]

MCStarts == { [table |-> OneOpen, approval |-> TRUE, admin |-> FALSE],
              [table |-> OneRunning, approval |-> TRUE, admin |-> FALSE],
              [table |-> TwoUsers, approval |-> TRUE, admin |-> TRUE] }

TeamStart == {[table |-> TwoUsers, approval |-> TRUE, admin |-> TRUE]}

MCPeriods == {[weeks |-> {1}, dated |-> TRUE], [weeks |-> {1, 2}, dated |-> FALSE],
              [weeks |-> {}, dated |-> TRUE]}
=============================================================================
