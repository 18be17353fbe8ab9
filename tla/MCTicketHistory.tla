---------------------------- MODULE MCTicketHistory ----------------------------
(* TicketHistory for TLC: callers move tickets, one status per update.      *)
EXTENDS TicketHistory

NoChange == [status |-> Keep, title |-> Keep, other |-> FALSE, blocks |-> NoKey, relates |-> NoKey]

Moving == {[NoChange EXCEPT !.status = s] : s \in allStatuses}

===============================================================================
