----------------------------- MODULE MCTicketStore -----------------------------
(***************************************************************************)
(* TicketStore for TLC: the updates callers ask for in each run, and the   *)
(* promise of the documentation that TLC refutes.                          *)
(***************************************************************************)
EXTENDS TicketStore

NoChange == [status |-> Keep, title |-> Keep, other |-> FALSE, blocks |-> NoKey, relates |-> NoKey]

\* One status at a time.
Moving == {[NoChange EXCEPT !.status = s] : s \in allStatuses}

\* A move and a new title in one call, every pair of them.
MovingAndRenaming ==
  {[NoChange EXCEPT !.status = s, !.title = t] : s \in allStatuses \cup {Keep}, t \in Titles \cup {Keep}}

\* Those, and a link that may point at the ticket itself or at one not there yet.
MovingRenamingLinking == MovingAndRenaming \cup {[NoChange EXCEPT !.blocks = 1]}

\* States that differ in the last answer alone are one state: no step reads the
\* answer, and no property of the run does but TypeOK, whose conjunct about the
\* answer is proved.
Stored == <<tickets, counters, links, comments, now>>

-------------------------------------------------------------------------------
\* A ticket still in todo can be pushed to backlog (docs/DESIGN.md:273).
TodoCanBeParked ==
  reply.out = "illegal_move" /\ reply.status = Backlog => tickets[reply.key].status # Todo

===============================================================================
