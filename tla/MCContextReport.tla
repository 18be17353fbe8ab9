---------------------------- MODULE MCContextReport ----------------------------
(***************************************************************************)
(* ContextReport for TLC: what callers do in each run, and the promise of  *)
(* the rendered report that TLC refutes.                                   *)
(***************************************************************************)
EXTENDS ContextReport

NoChange == [status |-> Keep, title |-> Keep, other |-> FALSE, blocks |-> NoKey, relates |-> NoKey]

\* Work starts, is reviewed, gets stuck and goes back to the queue.
Shuffling == {[NoChange EXCEPT !.status = s] : s \in {Todo, InProgress, InReview, Blocked}}

NoUpdates == {}

\* Bound of the run Report: the first ticket, of the default project, is the one that
\* things happen to.  A second one may wait in the queue, for the limits and for the
\* reports about one project.
FirstTicketOnly ==
  /\ 1 \in DOMAIN tickets => tickets[1].project = DefaultProject
  /\ 2 \in DOMAIN tickets => tickets[2].status = Todo /\ tickets[2].claimedBy = NoAgent
  /\ \A i \in DOMAIN comments : comments[i].ticket = 1

\* Nothing reads the last answer of the store.
Unanswered == <<tickets, counters, links, comments, now, readerVars, memory>>

-------------------------------------------------------------------------------
\* A report that suggests nothing because of claims says that all todo tickets
\* are claimed (internal/mcptools/render.go:192).
AllClaimedWhenSaid ==
  Complete /\ report.nextUp = {} /\ report.hidden # {} =>
    WithStatus(Todo, report.project) \ (moved \cup reclaimed) \subseteq report.hidden

===============================================================================
