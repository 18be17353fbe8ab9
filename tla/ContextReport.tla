----------------------------- MODULE ContextReport -----------------------------
(***************************************************************************)
(* get_context: one reader assembles a report from several queries while   *)
(* the operations of TicketStore go on.  Each query sees one committed     *)
(* state, but nothing holds the queries together: ContextReport opens no   *)
(* transaction.                                                            *)
(***************************************************************************)
EXTENDS TicketStore, FiniteSets

CONSTANTS
  Scopes,       \* project arguments of get_context, NoProject for all projects
  StaleAfter,   \* ticks a ticket in progress may go untouched
  FetchLimit,   \* todo tickets fetched: 50
  TopN          \* todo tickets suggested: 5

ASSUME ReportConstants ==
  /\ StaleAfter \in Nat /\ FetchLimit \in Nat /\ TopN \in Nat
  /\ Scopes \subseteq ProjectNames \cup {NoProject}

VARIABLES
  step,      \* the query the reader is about to make
  pending,   \* tickets of the section still to be completed
  report     \* the report so far

\* What the report is measured against, remembered from its first query on.
VARIABLES
  commentsThen,  \* comments there were
  moved,         \* tickets created since, or whose status changed
  reclaimed      \* tickets whose claim columns changed since

readerVars == <<step, pending, report>>
memory == <<commentsThen, moved, reclaimed>>
reportVars == <<vars, readerVars, memory>>

NoReport == [project    |-> NoProject,
             inProgress |-> {}, stale |-> {}, holders |-> {}, last |-> {},   \* entries of comments
             blocked    |-> [k \in {} |-> {}],
             nextUp     |-> {}, hidden |-> {},     \* ClaimedN counts the hidden
             backlogN   |-> 0, doneN |-> 0]

ReportInit ==
  /\ Init
  /\ step = "idle"
  /\ pending = {}
  /\ report = NoReport
  /\ commentsThen = 0
  /\ moved = {}
  /\ reclaimed = {}

-------------------------------------------------------------------------------
(* The queries *)

InScope(k, project) == project = NoProject \/ tickets[k].project = project

\* Variant: tickets in review are forgotten.
OnlyInProgress(k) == tickets[k].status = InProgress

UnderWay(k) == tickets[k].status \in {InProgress, InReview}

WithStatus(status, project) ==
  {k \in DOMAIN tickets : tickets[k].status = status /\ InScope(k, project)}

\* Untouched for longer than StaleAfter, by the stored second of the last touch.
IsStale(k) == tickets[k].updatedAt < now - StaleAfter

\* The worklog of k, newest first by (created_at, id).
Newer(i, j) ==
  comments[i].at > comments[j].at \/ (comments[i].at = comments[j].at /\ i >= j)

WorklogOf(k) == {i \in DOMAIN comments : comments[i].ticket = k}

\* Variant: the first entry of the worklog instead of the last.
OldestComment(k) ==
  {i \in WorklogOf(k) : \A j \in WorklogOf(k) : Newer(j, i)}

LastComment(k) ==
  {i \in WorklogOf(k) : \A j \in WorklogOf(k) : Newer(i, j)}

\* Incoming links: tickets that k is blocked on.
BlockersOf(k) == {link[1] : link \in {l \in links : l[2] = k /\ l[3] = "blocks"}}

\* The first query and the reading of its rows.  The clock is read several times on
\* the way, here once: StaleMeansQuiet and the others hold of any later time as well.
StartReport(project) ==
  LET found == {k \in DOMAIN tickets : UnderWay(k) /\ InScope(k, project)}
  IN  /\ step = "idle"
      /\ report' = [NoReport EXCEPT
                      !.project = project,
                      !.inProgress = found,
                      !.stale = {k \in found : IsStale(k)},
                      !.holders = {k \in found : ClaimActiveAt(tickets[k], now)}]
      /\ pending' = found
      /\ step' = "last comments"
      /\ commentsThen' = Len(comments)
      /\ moved' = {}
      /\ reclaimed' = {}
      /\ UNCHANGED vars

ReadLastComment(k) ==
  /\ step = "last comments"
  /\ k \in pending
  /\ report' = [report EXCEPT !.last = @ \cup LastComment(k)]
  /\ pending' = pending \ {k}
  /\ UNCHANGED <<vars, memory, step>>

ReadBlocked ==
  LET found == WithStatus(Blocked, report.project)
  IN  /\ step = "last comments"
      /\ pending = {}
      /\ report' = [report EXCEPT !.blocked = [k \in found |-> {}]]
      /\ pending' = found
      /\ step' = "blockers"
      /\ UNCHANGED <<vars, memory>>

ReadBlockers(k) ==
  /\ step = "blockers"
  /\ k \in pending
  /\ report' = [report EXCEPT !.blocked[k] = BlockersOf(k)]
  /\ pending' = pending \ {k}
  /\ UNCHANGED <<vars, memory, step>>

\* Variant: no limit.
Everything(S, n) == {S}

\* The ways to take the first n of S in an order that is not known.
Top(S, n) ==
  IF Cardinality(S) <= n THEN {S} ELSE {T \in SUBSET S : Cardinality(T) = n}

\* Variant: claimed tickets are suggested like any other.
HideNothing(fetched) == {}

HideClaimed(fetched) == {k \in fetched : ClaimActiveAt(tickets[k], now)}

\* At most FetchLimit todo tickets are fetched, and of those nobody claims at most
\* TopN are kept.  Which come first is up to their priorities, which TicketStore
\* does not keep, so it may be any of them.
ReadNextUp ==
  LET todo == WithStatus(Todo, report.project)
  IN  /\ step = "blockers"
      /\ pending = {}
      /\ \E fetched \in Top(todo, FetchLimit) :
           \E kept \in Top(fetched \ HideClaimed(fetched), TopN) :
             report' = [report EXCEPT !.nextUp = kept, !.hidden = HideClaimed(fetched)]
      /\ step' = "backlog count"
      /\ UNCHANGED <<vars, memory, pending>>

ReadBacklogCount ==
  /\ step = "backlog count"
  /\ report' = [report EXCEPT !.backlogN = Cardinality(WithStatus(Backlog, report.project))]
  /\ step' = "done count"
  /\ UNCHANGED <<vars, memory, pending>>

ReadDoneCount ==
  /\ step = "done count"
  /\ report' = [report EXCEPT !.doneN = Cardinality(WithStatus(Done, report.project))]
  /\ step' = "complete"
  /\ UNCHANGED <<vars, memory, pending>>

\* The report is handed over, or a query failed and the error is.
EndReport ==
  /\ step # "idle"
  /\ step' = "idle"
  /\ report' = NoReport
  /\ pending' = {}
  /\ commentsThen' = 0
  /\ moved' = {}
  /\ reclaimed' = {}
  /\ UNCHANGED vars

\* The store goes on; a report under way remembers what changed beneath it.
StoreStep ==
  /\ Next
  /\ UNCHANGED <<readerVars, commentsThen>>
  /\ IF step = "idle"
     THEN UNCHANGED <<moved, reclaimed>>
     ELSE /\ moved' = moved \cup
               {k \in DOMAIN tickets' : \/ k \notin DOMAIN tickets
                                        \/ tickets'[k].status # tickets[k].status}
          /\ reclaimed' = reclaimed \cup
               {k \in DOMAIN tickets : \/ tickets'[k].claimedBy # tickets[k].claimedBy
                                       \/ tickets'[k].claimedAt # tickets[k].claimedAt}

ReaderStep ==
  \/ \E project \in Scopes : StartReport(project)
  \/ \E k \in pending : ReadLastComment(k) \/ ReadBlockers(k)
  \/ ReadBlocked
  \/ ReadNextUp
  \/ ReadBacklogCount
  \/ ReadDoneCount
  \/ EndReport

ReportNext == StoreStep \/ ReaderStep

ReportSpec == ReportInit /\ [][ReportNext]_reportVars

-------------------------------------------------------------------------------
(* Properties of the report as it is handed over *)

Complete == step = "complete"

Reported == {k \in DOMAIN tickets : InScope(k, report.project)}

ReportTypeOK ==
  /\ step \in {"idle", "last comments", "blockers", "backlog count", "done count", "complete"}
  /\ pending \cup moved \cup reclaimed \subseteq DOMAIN tickets
  /\ report.stale \cup report.holders \subseteq report.inProgress
  /\ report.inProgress \subseteq DOMAIN tickets
  /\ report.last \subseteq DOMAIN comments
  /\ DOMAIN report.blocked \subseteq DOMAIN tickets
  /\ report.blocked \in [DOMAIN report.blocked -> SUBSET DOMAIN tickets]
  /\ report.nextUp \cup report.hidden \subseteq DOMAIN tickets
  /\ report.nextUp \cap report.hidden = {}
  /\ Cardinality(report.nextUp) <= TopN
  /\ Cardinality(report.nextUp \cup report.hidden) <= FetchLimit
  /\ report.backlogN \in 0..MaxTickets /\ report.doneN \in 0..MaxTickets
  /\ commentsThen \in 0..Len(comments)

\* A ticket that nobody moved while the report was assembled is in no section but
\* that of its status, and in none at all if the report is for another project; if it
\* is under way or blocked, it is there.  (A todo ticket may be left out of its section
\* by the limits.)
SettledTicketsInPlace ==
  Complete => \A k \in (DOMAIN tickets) \ moved :
                /\ k \in report.inProgress <=>
                     k \in Reported /\ tickets[k].status \in {InProgress, InReview}
                /\ k \in DOMAIN report.blocked <=> k \in Reported /\ tickets[k].status = Blocked
                /\ k \in report.nextUp \cup report.hidden =>
                     k \in Reported /\ tickets[k].status = Todo

\* A suggested ticket that was neither moved nor claimed since is there for the
\* taking: the claim that follows a get_context is refused only if somebody acted
\* in between.
SuggestionsArePickable ==
  Complete => \A k \in report.nextUp \ (moved \cup reclaimed) :
                tickets[k].status = Todo /\ ~ClaimActiveAt(tickets[k], now)

\* The excerpt shown for a ticket is no older than the newest entry its worklog
\* had when the report began: the next session resumes from the latest note.
ExcerptsAreFresh ==
  step \notin {"idle", "last comments"} =>
    \A i \in 1..commentsThen :
      comments[i].ticket \in report.inProgress =>
        \E j \in report.last : comments[j].ticket = comments[i].ticket /\ i <= j

\* A ticket flagged stale had no worklog entry in the last StaleAfter.
StaleMeansQuiet ==
  \A i \in 1..commentsThen :
    comments[i].ticket \in report.stale => comments[i].at < now - StaleAfter

===============================================================================
