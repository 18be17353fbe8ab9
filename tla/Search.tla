--------------------------------- MODULE Search ---------------------------------
(***************************************************************************)
(* search_tickets and ticketd ls: one reader makes up to three queries     *)
(* while the operations of TicketStore go on, merges the hits of the first *)
(* two by ticket, filters with the third, sorts and cuts.  No transaction  *)
(* holds the queries together.                                             *)
(*                                                                         *)
(* A title stands for all a ticket's index entry is made of, title and     *)
(* description: triggers keep both indexes in the transaction of the       *)
(* change, so a query of an index sees the committed rows.  The ranks are  *)
(* SQLite's, and depend on everything indexed at the time of the query:    *)
(* they may be any.  Labels and snippets are left out, and so is a status  *)
(* filter that is no status, which is refused before the last query.       *)
(***************************************************************************)
EXTENDS TicketStore, FiniteSets, SequencesExt

CONSTANTS
  MatchingTitles,    \* titles that have every word of the query
  MatchingComments,  \* comments that do, by the order they are written in
  Ranks,             \* values of bm25, the better the lower
  StatusFilters,     \* status arguments of callers, AnyStatus when omitted
  AnyStatus,
  Scopes,            \* project arguments of callers, NoProject for all projects
  Limits,            \* limit arguments of callers
  DefaultLimit,      \* 10
  MaxLimit           \* 50

ASSUME SearchConstants ==
  /\ MatchingTitles \subseteq Titles /\ MatchingComments \subseteq Nat
  /\ Ranks \subseteq Int /\ Limits \subseteq Int
  /\ StatusFilters \subseteq allStatuses \cup {AnyStatus}
  /\ DefaultLimit \in 1..MaxLimit /\ MaxLimit \in Nat

VARIABLES
  step,     \* the query the reader is about to make
  params,   \* SearchParams; a query of white space only is none
  hits,     \* key -> what the indexes said of the ticket
  results   \* the keys handed over, best first

\* What the results are measured against, remembered from the first query on.
VARIABLES
  commentsThen,  \* comments there were
  touched        \* tickets created, renamed or moved since

readerVars == <<step, params, hits, results>>
memory == <<commentsThen, touched>>
searchVars == <<vars, readerVars, memory>>

Params == [query : BOOLEAN, status : StatusFilters, project : Scopes, limit : Limits]

NoParams == [query |-> FALSE, status |-> AnyStatus, project |-> NoProject, limit |-> 0]
NoHits == [k \in {} |-> {}]

SearchInit ==
  /\ Init
  /\ step = "idle"
  /\ params = NoParams
  /\ hits = NoHits
  /\ results = <<>>
  /\ commentsThen = 0
  /\ touched = {}

-------------------------------------------------------------------------------
(* The queries *)

\* Variant: only an omitted limit is replaced.
UnclampedLimit(limit) == IF limit <= 0 THEN DefaultLimit ELSE limit

EffectiveLimit(limit) ==
  IF limit <= 0 THEN DefaultLimit ELSE IF limit > MaxLimit THEN MaxLimit ELSE limit

TitleMatches(k) == tickets[k].title \in MatchingTitles

StartSearch(p) ==
  /\ step = "idle"
  /\ params' = p
  /\ step' = IF p.query THEN "titles" ELSE "rows"
  /\ hits' = NoHits
  /\ results' = <<>>
  /\ commentsThen' = Len(comments)
  /\ touched' = {}
  /\ UNCHANGED vars

QueryTitles ==
  LET found == {k \in DOMAIN tickets : TitleMatches(k)}
  IN  /\ step = "titles"
      /\ \E rank \in [found -> Ranks] :
           hits' = [k \in found |-> [title |-> TRUE, body |-> FALSE, rank |-> rank[k]]]
      /\ step' = "comments"
      /\ UNCHANGED <<vars, memory, params, results>>

\* One hit per ticket, with the best rank of its title and its comments.
MergeHits(found, rank) ==
  LET byBody   == {comments[i].ticket : i \in found}
      ranks(k) == {rank[i] : i \in {j \in found : comments[j].ticket = k}}
                    \cup {hits[j].rank : j \in DOMAIN hits \cap {k}}
  IN  [k \in DOMAIN hits \cup byBody |->
         [title |-> k \in DOMAIN hits, body |-> k \in byBody, rank |-> Min(ranks(k))]]

\* Variant: a search without hits goes on, and lists all tickets.
StepAfterHits(merged) == "rows"

\* A search without hits ends here: the next query would have no key to ask for.
NextStep(merged) == IF DOMAIN merged = {} THEN "complete" ELSE "rows"

QueryComments ==
  LET found == {i \in DOMAIN comments : i \in MatchingComments}
  IN  /\ step = "comments"
      /\ \E rank \in [found -> Ranks] :
           LET merged == MergeHits(found, rank)
           IN  hits' = merged /\ step' = NextStep(merged)
      /\ UNCHANGED <<vars, memory, params, results>>

PassesFilters(k) ==
  /\ params.status # AnyStatus => tickets[k].status = params.status
  /\ params.project # NoProject => tickets[k].project = params.project

\* The first n, or all.
Cut(list, n) == SubSeq(list, 1, IF Len(list) <= n THEN Len(list) ELSE n)

\* Insertion from the back, past the entries that rank worse.
InsertByRank(list, k) ==
  LET before == Cardinality({i \in DOMAIN list : hits[list[i]].rank <= hits[k].rank})
  IN  InsertAt(list, before + 1, k)

\* Row by row.
Sorted(rows) ==
  LET upTo[n \in 0..Len(rows)] ==
        IF n = 0 THEN <<>> ELSE InsertByRank(upTo[n - 1], rows[n])
  IN  upTo[Len(rows)]

\* Variant: cut to the limit before sorting.
BestOfCut(rows, n) == Sorted(Cut(rows, n))

Best(rows, n) == Cut(Sorted(rows), n)

\* With hits, their rows come in any order and are sorted by rank; without, the
\* query itself orders by priority, which TicketStore does not keep, and cuts.
QueryRows ==
  LET limit == EffectiveLimit(params.limit)
      found == {k \in DOMAIN tickets : DOMAIN hits # {} => k \in DOMAIN hits}
  IN  /\ step = "rows"
      /\ \E rows \in SetToSeqs({k \in found : PassesFilters(k)}) :
           results' = IF DOMAIN hits = {} THEN Cut(rows, limit) ELSE Best(rows, limit)
      /\ step' = "complete"
      /\ UNCHANGED <<vars, memory, params, hits>>

\* The results are handed over, or a query failed and the error is.
EndSearch ==
  /\ step # "idle"
  /\ step' = "idle"
  /\ params' = NoParams
  /\ hits' = NoHits
  /\ results' = <<>>
  /\ commentsThen' = 0
  /\ touched' = {}
  /\ UNCHANGED vars

\* The store goes on; a search under way remembers what changed beneath it.
StoreStep ==
  /\ Next
  /\ UNCHANGED <<readerVars, commentsThen>>
  /\ touched' = IF step = "idle" THEN touched ELSE touched \cup
       {k \in DOMAIN tickets' : \/ k \notin DOMAIN tickets
                                \/ tickets'[k].title # tickets[k].title
                                \/ tickets'[k].status # tickets[k].status}

SearchNext ==
  \/ StoreStep
  \/ \E p \in Params : StartSearch(p)
  \/ QueryTitles
  \/ QueryComments
  \/ QueryRows
  \/ EndSearch

SearchSpec == SearchInit /\ [][SearchNext]_searchVars

-------------------------------------------------------------------------------
(* Properties of the results as they are handed over *)

Complete == step = "complete"

Listed == ToSet(results)

\* Tickets with a comment that matches among those there were at the start.
Discussed == {comments[i].ticket : i \in MatchingComments \cap 1..commentsThen}

\* No ticket is listed twice, though it may have hits in both indexes, and no
\* caller gets more than MaxLimit of them, whatever limit was asked for.
SearchTypeOK ==
  /\ step \in {"idle", "titles", "comments", "rows", "complete"}
  /\ params \in Params \cup {NoParams}
  /\ hits \in [DOMAIN hits -> [title : BOOLEAN, body : BOOLEAN, rank : Ranks]]
  /\ DOMAIN hits \cup touched \subseteq DOMAIN tickets
  /\ Listed \subseteq DOMAIN tickets
  /\ Len(results) = Cardinality(Listed)
  /\ Len(results) <= MaxLimit
  /\ commentsThen \in 0..Len(comments)

\* A ticket that matched when the search began, and that nobody renamed or moved
\* since, is found, by its title or by its comments, unless the list is full of
\* tickets that rank no worse: a search of one agent misses no duplicate because
\* another agent was at work.
SettledMatchesFound ==
  Complete => \A k \in DOMAIN tickets \ touched :
    /\ PassesFilters(k)
    /\ params.query => TitleMatches(k) \/ k \in Discussed
    => \/ k \in Listed
       \/ /\ Len(results) = EffectiveLimit(params.limit)
          /\ params.query => \A other \in Listed : hits[other].rank <= hits[k].rank

\* What is listed was a match: a search with a query lists only tickets an index
\* gave a hit for, and of a ticket that nobody touched it says of title and
\* comments what is so, though the three queries saw three states.
ResultsMatch ==
  Complete => \A k \in Listed \ touched :
    /\ PassesFilters(k)
    /\ params.query =>
         /\ k \in DOMAIN hits
         /\ hits[k].title <=> TitleMatches(k)
         /\ k \in Discussed => hits[k].body
         /\ hits[k].body => \E i \in DOMAIN comments \cap MatchingComments :
                              comments[i].ticket = k

===============================================================================
