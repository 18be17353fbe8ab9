------------------------------- MODULE Workflow -------------------------------
(***************************************************************************)
(* The fixed ticket workflow of internal/domain: the seven statuses, the   *)
(* moves between them and what counts as the end of the work.  Pure: the   *)
(* store calls these operators inside its transactions.                    *)
(***************************************************************************)

Backlog    == "backlog"
Todo       == "todo"
InProgress == "in_progress"
InReview   == "in_review"
Blocked    == "blocked"
Done       == "done"
WontDo     == "wont_do"

allStatuses == {Backlog, Todo, InProgress, InReview, Blocked, Done, WontDo}

\* From each status, the statuses a ticket may be moved to.
transitions ==
  [s \in allStatuses |->
     CASE s = Backlog    -> {Todo, WontDo}
       [] s = Todo       -> {InProgress, Blocked, WontDo}
       [] s = InProgress -> {InReview, Done, Blocked, Todo}
       [] s = InReview   -> {Done, InProgress}
       [] s = Blocked    -> {Todo, InProgress, WontDo}
       [] s \in {Done, WontDo} -> {}]

IsTerminal(s) == transitions[s] = {}

\* Variants used to show that the properties of TicketStore are about this
\* table: finished work that can be reopened, a shortcut past the work.
CanReopen(from, to) == to \in transitions[from] \/ (from = Done /\ to = InProgress)
CanSkipWork(from, to) == to \in transitions[from] \/ (from = Todo /\ to = Done)

CanTransition(from, to) == to \in transitions[from]

\* "No error" of ValidateTransition: staying put is always allowed.
ValidTransition(from, to) == from = to \/ CanTransition(from, to)

===============================================================================
