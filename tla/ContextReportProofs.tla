-------------------------- MODULE ContextReportProofs --------------------------
(***************************************************************************)
(* Proofs about ContextReport: a report assembled from queries of          *)
(* different states of the store is right about every ticket that was left *)
(* alone meanwhile, for any number of tickets, comments and projects, any  *)
(* TTL, any limits and any interleaving of queries and operations.         *)
(***************************************************************************)
EXTENDS ContextReport, TicketStoreProofs

Sections == {"project", "inProgress", "stale", "holders", "last", "blocked", "nextUp", "hidden",
             "backlogN", "doneN"}

\* The report has its sections, in whatever state they are.
Shaped(r) == r = [f \in Sections |-> r[f]]

\* Each section is right about the tickets nobody moved, from its query on.
UnderWayInPlace ==
  step # "idle" =>
    \A k \in (DOMAIN tickets) \ moved :
      k \in report.inProgress <=> k \in Reported /\ UnderWay(k)

BlockedInPlace ==
  step \notin {"idle", "last comments"} =>
    \A k \in (DOMAIN tickets) \ moved :
      k \in DOMAIN report.blocked <=> k \in Reported /\ tickets[k].status = Blocked

NextUpInPlace ==
  step # "idle" =>
    \A k \in (report.nextUp \cup report.hidden) \ moved :
      k \in Reported /\ tickets[k].status = Todo

NextUpFree ==
  step # "idle" =>
    \A k \in report.nextUp \ (moved \cup reclaimed) : ~ClaimActiveAt(tickets[k], now)

\* The newest entries are there for the tickets whose query was made.
ExcerptsSoFar ==
  step # "idle" =>
    \A i \in 1..commentsThen :
      /\ comments[i].ticket \in report.inProgress
      /\ step = "last comments" => comments[i].ticket \notin pending
      => \E j \in report.last : comments[j].ticket = comments[i].ticket /\ i <= j

\* The inductive invariant.
ReportInv ==
  /\ IInv
  /\ Shaped(report)
  /\ ReportTypeOK
  /\ UnderWayInPlace
  /\ BlockedInPlace
  /\ NextUpInPlace
  /\ NextUpFree
  /\ ExcerptsSoFar
  /\ StaleMeansQuiet

-------------------------------------------------------------------------------
(* Limits *)

\* Whatever is taken from the top of a finite set is a part of it within the limit.
LEMMA TopBounds ==
  ASSUME NEW S, IsFiniteSet(S), NEW n \in Nat, NEW T \in Top(S, n)
  PROVE  T \subseteq S /\ IsFiniteSet(T) /\ Cardinality(T) <= n
<1>1. T \subseteq S /\ Cardinality(T) <= n
  <2>1. CASE Cardinality(S) <= n
    BY <2>1 DEF Top
  <2>2. CASE ~(Cardinality(S) <= n)
    BY <2>2 DEF Top
  <2>3. QED
    BY <2>1, <2>2
<1>2. QED
  BY <1>1, FS_Subset

-------------------------------------------------------------------------------
(* The worklog *)

LEMMA CommentsIndexed ==
  ASSUME IInv
  PROVE  /\ Len(comments) \in Nat /\ DOMAIN comments = 1..Len(comments)
         /\ \A i \in DOMAIN comments : comments[i].ticket \in DOMAIN tickets /\ comments[i].at \in Nat
<1>1. comments \in Seq([ticket : Keys, at : 0..MaxTime])
  BY DEF IInv, TypeOK
<1>2. \A i \in DOMAIN comments : comments[i].at \in Nat
  BY CommentType, Bounds
<1>3. QED
  BY <1>1, <1>2, LenProperties DEF IInv, WorklogChronological

\* The entry written last is the newest one of its ticket.
LEMMA LastIsNewest ==
  ASSUME IInv, NEW i \in DOMAIN comments
  PROVE  \E j \in LastComment(comments[i].ticket) : comments[j].ticket = comments[i].ticket /\ i <= j
<1> DEFINE k == comments[i].ticket
<1>1. i \in WorklogOf(k) /\ WorklogOf(k) \subseteq 1..Len(comments) /\ Len(comments) \in Nat
  BY CommentsIndexed DEF WorklogOf
<1>2. PICK j \in WorklogOf(k) : \A other \in WorklogOf(k) : other <= j
  BY <1>1, GreatestUpTo
<1>3. ASSUME NEW other \in WorklogOf(k) PROVE Newer(j, other)
  <2>1. /\ other \in 1..j /\ j \in DOMAIN comments /\ other \in DOMAIN comments
        /\ comments[other].ticket = k /\ comments[j].ticket = k
    BY <1>1, <1>2 DEF WorklogOf
  <2>2. comments[other].at <= comments[j].at
    BY <2>1 DEF IInv, WorklogChronological
  <2>3. comments[other].at \in Nat /\ comments[j].at \in Nat
    BY <2>1, CommentsIndexed
  <2>4. QED
    BY <2>1, <2>2, <2>3 DEF Newer
<1>4. QED
  BY <1>1, <1>2, <1>3 DEF LastComment, WorklogOf

-------------------------------------------------------------------------------
(* The store goes on *)

\* What an operation may do to the tickets that a report under way does not
\* count as moved or reclaimed.
LEMMA RememberedStep ==
  ASSUME ReportInv, StoreStep
  PROVE  /\ IInv /\ IInv' /\ Next
         /\ DOMAIN tickets \subseteq DOMAIN tickets'
         /\ \A k \in DOMAIN tickets :
              /\ tickets'[k].project = tickets[k].project
              /\ step # "idle" /\ k \notin moved' => tickets'[k].status = tickets[k].status
              /\ step # "idle" /\ k \notin reclaimed' =>
                   /\ tickets'[k].claimedBy = tickets[k].claimedBy
                   /\ tickets'[k].claimedAt = tickets[k].claimedAt
         /\ \A k \in DOMAIN tickets' \ DOMAIN tickets : step # "idle" => k \in moved'
         /\ moved \subseteq moved' /\ moved' \subseteq DOMAIN tickets'
         /\ reclaimed \subseteq reclaimed' /\ reclaimed' \subseteq DOMAIN tickets'
         /\ UNCHANGED <<step, pending, report, commentsThen>>
<1>1. IInv /\ Next /\ IInv'
  BY StepPreserves DEF ReportInv, StoreStep
<1>2. DOMAIN tickets \subseteq DOMAIN tickets'
  BY <1>1, StepGrows
<1>3. \A k \in DOMAIN tickets : tickets'[k].project = tickets[k].project
  BY <1>1, ColumnSteps
<1>4. moved \subseteq DOMAIN tickets /\ reclaimed \subseteq DOMAIN tickets
  BY DEF ReportInv, ReportTypeOK
<1>5. UNCHANGED <<step, pending, report, commentsThen>>
  BY DEF StoreStep, readerVars
<1>6. CASE step = "idle"
  BY <1>1, <1>2, <1>3, <1>4, <1>5, <1>6 DEF StoreStep
<1>7. CASE step # "idle"
  BY <1>1, <1>2, <1>3, <1>4, <1>5, <1>7 DEF StoreStep
<1>8. QED
  BY <1>6, <1>7

\* A claim that is not in force does not come into force by itself.
LEMMA ClaimsLapse ==
  ASSUME ReportInv, NEW k \in DOMAIN tickets, now' \in Nat, now <= now',
         ~ClaimActiveAt(tickets[k], now)
  PROVE  ~ClaimActiveAt(tickets[k], now')
<1>1. tickets[k].claimedAt \in Int /\ now \in Nat
  BY RowFacts, StampNow, Bounds DEF ReportInv, Row, NoTime
<1>2. QED
  BY <1>1, ClockUnits DEF ClaimActiveAt

LEMMA StoreStepPreserves ==
  ASSUME ReportInv, StoreStep
  PROVE  ReportInv'
<1>1. /\ IInv /\ IInv' /\ Next /\ DOMAIN tickets \subseteq DOMAIN tickets'
      /\ UNCHANGED <<step, pending, report, commentsThen>>
  BY RememberedStep
<1>2. /\ Len(comments) \in Nat /\ Len(comments') \in Nat /\ Len(comments) <= Len(comments')
      /\ DOMAIN comments = 1..Len(comments) /\ DOMAIN comments' = 1..Len(comments')
      /\ \A i \in DOMAIN comments : comments'[i] = comments[i]
      /\ now \in Nat /\ now' \in Nat /\ now <= now'
  BY <1>1, StepGrows
<1>2a. commentsThen \in 0..Len(comments) /\ report.last \subseteq DOMAIN comments
  BY DEF ReportInv, ReportTypeOK
<1>3. Shaped(report)'
  BY <1>1 DEF ReportInv, Shaped
<1>4. ReportTypeOK'
  <2>1. pending' \cup moved' \cup reclaimed' \subseteq DOMAIN tickets'
    BY <1>1, RememberedStep DEF ReportInv, ReportTypeOK
  <2>2. report'.last \subseteq DOMAIN comments' /\ commentsThen' \in 0..Len(comments')
    BY <1>1, <1>2, <1>2a
  <2>3. report'.blocked \in [DOMAIN report'.blocked -> SUBSET DOMAIN tickets']
    BY <1>1 DEF ReportInv, ReportTypeOK
  <2>4. QED
    BY <1>1, <2>1, <2>2, <2>3 DEF ReportInv, ReportTypeOK
<1>5. UnderWayInPlace'
  BY <1>1, RememberedStep DEF ReportInv, UnderWayInPlace, Reported, InScope, UnderWay
<1>6. BlockedInPlace'
  BY <1>1, RememberedStep DEF ReportInv, BlockedInPlace, Reported, InScope
<1>7. NextUpInPlace'
  <2>1. report.nextUp \cup report.hidden \subseteq DOMAIN tickets
    BY DEF ReportInv, ReportTypeOK
  <2>2. QED
    BY <1>1, <2>1, RememberedStep DEF ReportInv, NextUpInPlace, Reported, InScope
<1>8. NextUpFree'
  <2> SUFFICES ASSUME step # "idle", NEW k \in report.nextUp, k \notin moved', k \notin reclaimed'
               PROVE  ~ClaimActiveAt(tickets'[k], now')
    BY <1>1 DEF NextUpFree, ClaimActiveAt
  <2>1. k \in DOMAIN tickets /\ k \notin moved /\ k \notin reclaimed
    BY RememberedStep DEF ReportInv, ReportTypeOK
  <2>2. ~ClaimActiveAt(tickets[k], now')
    BY <1>2, <2>1, ClaimsLapse DEF ReportInv, NextUpFree
  <2>3. QED
    BY <2>1, <2>2, RememberedStep DEF ClaimActiveAt
<1>9. ExcerptsSoFar'
  <2>1. \A i \in 1..commentsThen : comments'[i] = comments[i]
    BY <1>2, <1>2a
  <2>2. \A j \in report.last : comments'[j] = comments[j]
    BY <1>2 DEF ReportInv, ReportTypeOK
  <2>3. QED
    BY <1>1, <2>1, <2>2 DEF ReportInv, ExcerptsSoFar
<1>10. StaleMeansQuiet'
  <2>1. \A i \in 1..commentsThen :
          comments'[i] = comments[i] /\ comments[i].at \in Nat
    BY <1>1, <1>2, <1>2a, CommentsIndexed
  <2>2. QED
    BY <1>1, <1>2, <2>1, ReportConstants DEF ReportInv, StaleMeansQuiet
<1>11. QED
  BY <1>1, <1>3, <1>4, <1>5, <1>6, <1>7, <1>8, <1>9, <1>10 DEF ReportInv

-------------------------------------------------------------------------------
(* The queries *)

\* A query changes nothing in the store.
LEMMA QueryLeavesStore ==
  ASSUME ReportInv, UNCHANGED vars
  PROVE  /\ IInv /\ IInv'
         /\ UNCHANGED <<tickets, counters, links, comments, now>>
         /\ commentsThen \in 0..Len(comments)
<1>1. IInv /\ IInv'
  BY StepPreserves DEF ReportInv
<1>2. QED
  BY <1>1 DEF vars, ReportInv, ReportTypeOK

LEMMA StartPreserves ==
  ASSUME ReportInv, NEW project \in Scopes, StartReport(project)
  PROVE  ReportInv'
<1> DEFINE found == {k \in DOMAIN tickets : UnderWay(k) /\ InScope(k, project)}
           stale == {k \in found : IsStale(k)}
           holders == {k \in found : ClaimActiveAt(tickets[k], now)}
<1>1. /\ IInv /\ IInv' /\ UNCHANGED <<tickets, counters, links, comments, now>>
      /\ step' = "last comments" /\ pending' = found
      /\ commentsThen' = Len(comments) /\ moved' = {} /\ reclaimed' = {}
      /\ report' = [NoReport EXCEPT !.project = project, !.inProgress = found,
                                    !.stale = stale, !.holders = holders]
  BY QueryLeavesStore DEF StartReport
<1>2. /\ found \subseteq DOMAIN tickets
      /\ stale \subseteq found /\ holders \subseteq found
      /\ \A k \in DOMAIN tickets : k \in found <=> InScope(k, project) /\ UnderWay(k)
      /\ \A k \in stale : tickets[k].updatedAt < now - StaleAfter
  BY DEF IsStale
<1> HIDE DEF found, stale, holders
<1>3. /\ Shaped(report')
      /\ report'.project = project /\ report'.inProgress = found
      /\ report'.stale = stale /\ report'.holders = holders
      /\ report'.last = {} /\ report'.blocked = [k \in {} |-> {}]
      /\ report'.nextUp = {} /\ report'.hidden = {}
      /\ report'.backlogN = 0 /\ report'.doneN = 0
  BY <1>1 DEF NoReport, Shaped, Sections
<1>4. ReportTypeOK'
  <2>1. Cardinality({}) = 0 /\ {} \cup {} = {}
    BY FS_EmptySet
  <2>2. 0 <= TopN /\ 0 <= FetchLimit /\ 0 \in 0..MaxTickets
    BY ReportConstants, Bounds
  <2>3. report'.blocked \in [DOMAIN report'.blocked -> SUBSET DOMAIN tickets']
        /\ DOMAIN report'.blocked = {}
    BY <1>3
  <2>4. commentsThen' \in 0..Len(comments')
    <3>1. IInv /\ comments' = comments /\ commentsThen' = Len(comments)
      BY <1>1
    <3>2. Len(comments) \in Nat /\ Len(comments') = Len(comments)
      BY <3>1, CommentsIndexed
    <3>3. QED
      BY <3>1, <3>2
  <2>5. Cardinality(report'.nextUp) <= TopN
        /\ Cardinality(report'.nextUp \cup report'.hidden) <= FetchLimit
    BY <1>3, <2>1, <2>2
  <2>6. QED
    BY <1>1, <1>2, <1>3, <2>2, <2>3, <2>4, <2>5 DEF ReportTypeOK
<1>5. UnderWayInPlace'
  BY <1>1, <1>2, <1>3 DEF UnderWayInPlace, Reported, InScope, UnderWay
<1>6. BlockedInPlace' /\ NextUpInPlace' /\ NextUpFree'
  BY <1>1, <1>3 DEF BlockedInPlace, NextUpInPlace, NextUpFree
<1>7. ExcerptsSoFar'
  BY <1>1, <1>3 DEF ExcerptsSoFar
<1>8. StaleMeansQuiet'
  <2> SUFFICES ASSUME NEW i \in 1..Len(comments), comments[i].ticket \in stale
               PROVE  comments[i].at < now - StaleAfter
    BY <1>1, <1>3 DEF StaleMeansQuiet
  <2>1. comments[i].at \in Nat /\ comments[i].at <= tickets[comments[i].ticket].updatedAt
    BY <1>1, CommentsIndexed DEF IInv, WorklogChronological
  <2>2. tickets[comments[i].ticket].updatedAt \in Nat /\ now \in Nat
    <3>1. IInv /\ comments[i].ticket \in DOMAIN tickets
      BY <1>1, <1>2
    <3>2. tickets[comments[i].ticket].updatedAt \in 0..MaxTime /\ now \in 0..MaxTime
      BY <3>1, RowFacts, StampNow
    <3>3. QED
      BY <3>2, Bounds
  <2>3. tickets[comments[i].ticket].updatedAt < now - StaleAfter
    BY <1>2
  <2>4. QED
    BY <2>1, <2>2, <2>3, ReportConstants
<1>9. QED
  BY <1>1, <1>3, <1>4, <1>5, <1>6, <1>7, <1>8 DEF ReportInv

\* A query of a report under way: what it does to the sections that do not depend
\* on the step.
LEMMA QueryKeepsSections ==
  ASSUME ReportInv, UNCHANGED <<vars, memory>>, step # "idle", step' # "idle",
         report'.project = report.project, report'.inProgress = report.inProgress,
         report'.stale = report.stale
  PROVE  UnderWayInPlace' /\ StaleMeansQuiet'
<1>1. UNCHANGED <<tickets, comments, now, commentsThen, moved, reclaimed>>
  BY DEF vars, memory
<1>2. UnderWayInPlace'
  BY <1>1 DEF ReportInv, UnderWayInPlace, Reported, InScope, UnderWay
<1>3. StaleMeansQuiet'
  BY <1>1 DEF ReportInv, StaleMeansQuiet
<1>4. QED
  BY <1>2, <1>3

LEMMA LastCommentPreserves ==
  ASSUME ReportInv, NEW k \in pending, ReadLastComment(k)
  PROVE  ReportInv'
<1> DEFINE read == report.last \cup LastComment(k)
<1>1. /\ IInv /\ IInv' /\ UNCHANGED <<tickets, counters, links, comments, now>>
      /\ UNCHANGED <<commentsThen, moved, reclaimed, step>> /\ step = "last comments"
      /\ pending' = pending \ {k} /\ report' = [report EXCEPT !.last = read]
      /\ commentsThen \in 0..Len(comments)
  BY QueryLeavesStore DEF ReadLastComment, memory
<1>2. read \subseteq DOMAIN comments
  BY DEF ReportInv, ReportTypeOK, LastComment, WorklogOf
<1> HIDE DEF read
<1>3. /\ Shaped(report') /\ report'.last = read
      /\ \A f \in Sections \ {"last"} : report'[f] = report[f]
  BY <1>1 DEF ReportInv, Shaped, Sections
<1>4. /\ report'.project = report.project /\ report'.inProgress = report.inProgress
      /\ report'.stale = report.stale /\ report'.holders = report.holders
      /\ report'.blocked = report.blocked /\ report'.nextUp = report.nextUp
      /\ report'.hidden = report.hidden
      /\ report'.backlogN = report.backlogN /\ report'.doneN = report.doneN
  BY <1>3 DEF Sections
<1>5. ReportTypeOK'
  BY <1>1, <1>2, <1>3, <1>4 DEF ReportInv, ReportTypeOK
<1>6. UnderWayInPlace' /\ StaleMeansQuiet'
  BY <1>1, <1>4, QueryKeepsSections DEF ReadLastComment
<1>7. BlockedInPlace' /\ NextUpInPlace' /\ NextUpFree'
  BY <1>1, <1>4 DEF ReportInv, BlockedInPlace, NextUpInPlace, NextUpFree, Reported, InScope
<1>8. ExcerptsSoFar'
  <2> SUFFICES ASSUME NEW i \in 1..commentsThen,
                      comments[i].ticket \in report.inProgress,
                      comments[i].ticket \notin pending \ {k}
               PROVE  \E j \in read : comments[j].ticket = comments[i].ticket /\ i <= j
    BY <1>1, <1>3, <1>4 DEF ExcerptsSoFar
  <2>1. CASE comments[i].ticket = k
    <3>1. i \in DOMAIN comments
      <4>1. IInv /\ commentsThen \in 0..Len(comments)
        BY <1>1
      <4>2. QED
        BY <4>1, CommentsIndexed
    <3>2. QED
      BY <1>1, <2>1, <3>1, LastIsNewest DEF read
  <2>2. CASE comments[i].ticket # k
    BY <1>1, <2>2 DEF ReportInv, ExcerptsSoFar, read
  <2>3. QED
    BY <2>1, <2>2
<1>9. QED
  BY <1>1, <1>3, <1>5, <1>6, <1>7, <1>8 DEF ReportInv

LEMMA BlockedPreserves ==
  ASSUME ReportInv, ReadBlocked
  PROVE  ReportInv'
<1> DEFINE found == WithStatus(Blocked, report.project)
           blocked == [k \in found |-> {}]
<1>1. /\ IInv /\ IInv' /\ UNCHANGED <<tickets, counters, links, comments, now>>
      /\ UNCHANGED <<commentsThen, moved, reclaimed>>
      /\ step = "last comments" /\ step' = "blockers" /\ pending = {}
      /\ pending' = found /\ report' = [report EXCEPT !.blocked = blocked]
  BY QueryLeavesStore DEF ReadBlocked, memory
<1>2. /\ DOMAIN blocked = found /\ found \subseteq DOMAIN tickets
      /\ blocked \in [found -> SUBSET DOMAIN tickets]
      /\ \A k \in DOMAIN tickets : k \in found <=> k \in Reported /\ tickets[k].status = Blocked
  BY DEF WithStatus, Reported
<1> HIDE DEF found, blocked
<1>3. /\ Shaped(report') /\ report'.blocked = blocked
      /\ \A f \in Sections \ {"blocked"} : report'[f] = report[f]
  BY <1>1 DEF ReportInv, Shaped, Sections
<1>4. /\ report'.project = report.project /\ report'.inProgress = report.inProgress
      /\ report'.stale = report.stale /\ report'.holders = report.holders
      /\ report'.last = report.last /\ report'.nextUp = report.nextUp
      /\ report'.hidden = report.hidden
      /\ report'.backlogN = report.backlogN /\ report'.doneN = report.doneN
  BY <1>3 DEF Sections
<1>5. ReportTypeOK'
  BY <1>1, <1>2, <1>3, <1>4 DEF ReportInv, ReportTypeOK
<1>6. UnderWayInPlace' /\ StaleMeansQuiet'
  BY <1>1, <1>4, QueryKeepsSections DEF ReadBlocked
<1>7. BlockedInPlace'
  BY <1>1, <1>2, <1>3, <1>4 DEF BlockedInPlace, Reported, InScope
<1>8. NextUpInPlace' /\ NextUpFree'
  BY <1>1, <1>4 DEF ReportInv, NextUpInPlace, NextUpFree, Reported, InScope
<1>9. ExcerptsSoFar'
  BY <1>1, <1>4 DEF ReportInv, ExcerptsSoFar
<1>10. QED
  BY <1>1, <1>3, <1>5, <1>6, <1>7, <1>8, <1>9 DEF ReportInv

LEMMA BlockersPreserve ==
  ASSUME ReportInv, NEW k \in pending, ReadBlockers(k)
  PROVE  ReportInv'
<1> DEFINE blocked == [report.blocked EXCEPT ![k] = BlockersOf(k)]
<1>1. /\ IInv /\ IInv' /\ UNCHANGED <<tickets, counters, links, comments, now>>
      /\ UNCHANGED <<commentsThen, moved, reclaimed, step>> /\ step = "blockers"
      /\ pending' = pending \ {k} /\ report' = [report EXCEPT !.blocked = blocked]
  BY QueryLeavesStore DEF ReadBlockers, memory
<1>2. /\ DOMAIN blocked = DOMAIN report.blocked
      /\ blocked \in [DOMAIN blocked -> SUBSET DOMAIN tickets]
  <2>1. BlockersOf(k) \subseteq DOMAIN tickets
    BY <1>1 DEF BlockersOf, IInv, LinksWellFormed
  <2>2. QED
    BY <2>1 DEF ReportInv, ReportTypeOK
<1> HIDE DEF blocked
<1>3. /\ Shaped(report') /\ report'.blocked = blocked
      /\ \A f \in Sections \ {"blocked"} : report'[f] = report[f]
  BY <1>1 DEF ReportInv, Shaped, Sections
<1>4. /\ report'.project = report.project /\ report'.inProgress = report.inProgress
      /\ report'.stale = report.stale /\ report'.holders = report.holders
      /\ report'.last = report.last /\ report'.nextUp = report.nextUp
      /\ report'.hidden = report.hidden
      /\ report'.backlogN = report.backlogN /\ report'.doneN = report.doneN
  BY <1>3 DEF Sections
<1>5. ReportTypeOK'
  BY <1>1, <1>2, <1>3, <1>4 DEF ReportInv, ReportTypeOK
<1>6. UnderWayInPlace' /\ StaleMeansQuiet'
  BY <1>1, <1>4, QueryKeepsSections DEF ReadBlockers
<1>7. BlockedInPlace'
  BY <1>1, <1>2, <1>3, <1>4 DEF ReportInv, BlockedInPlace, Reported, InScope
<1>8. NextUpInPlace' /\ NextUpFree'
  BY <1>1, <1>4 DEF ReportInv, NextUpInPlace, NextUpFree, Reported, InScope
<1>9. ExcerptsSoFar'
  BY <1>1, <1>4 DEF ReportInv, ExcerptsSoFar
<1>10. QED
  BY <1>1, <1>3, <1>5, <1>6, <1>7, <1>8, <1>9 DEF ReportInv

LEMMA NextUpPreserves ==
  ASSUME ReportInv, ReadNextUp
  PROVE  ReportInv'
<1> DEFINE todo == WithStatus(Todo, report.project)
<1>1. /\ IInv /\ IInv' /\ UNCHANGED <<tickets, counters, links, comments, now>>
      /\ UNCHANGED <<commentsThen, moved, reclaimed, pending>>
      /\ step = "blockers" /\ step' = "backlog count"
  BY QueryLeavesStore DEF ReadNextUp, memory
<1>2. PICK fetched \in Top(todo, FetchLimit) :
        \E kept \in Top(fetched \ HideClaimed(fetched), TopN) :
          report' = [report EXCEPT !.nextUp = kept, !.hidden = HideClaimed(fetched)]
  BY DEF ReadNextUp
<1>3. PICK kept \in Top(fetched \ HideClaimed(fetched), TopN) :
        report' = [report EXCEPT !.nextUp = kept, !.hidden = HideClaimed(fetched)]
  BY <1>2
<1> DEFINE hidden == HideClaimed(fetched)
<1>4. todo \subseteq Reported /\ \A k \in todo : k \in DOMAIN tickets /\ tickets[k].status = Todo
  BY DEF WithStatus, Reported
<1>5. IsFiniteSet(todo)
  BY <1>1, <1>4, TicketsFinite
<1>6. fetched \subseteq todo /\ IsFiniteSet(fetched) /\ Cardinality(fetched) <= FetchLimit
  BY <1>5, TopBounds, ReportConstants
<1>7. IsFiniteSet(fetched \ hidden)
  BY <1>6, FS_Difference
<1>8. kept \subseteq fetched \ hidden /\ Cardinality(kept) <= TopN
  BY <1>3, <1>7, TopBounds, ReportConstants
<1>9. /\ hidden \subseteq fetched
      /\ \A k \in fetched \ hidden : ~ClaimActiveAt(tickets[k], now)
  BY DEF HideClaimed
<1>10. Cardinality(kept \cup hidden) <= FetchLimit
  <2>1. kept \cup hidden \subseteq fetched
    BY <1>8, <1>9
  <2>2. Cardinality(kept \cup hidden) <= Cardinality(fetched)
    BY <1>6, <2>1, FS_Subset
  <2>3. Cardinality(kept \cup hidden) \in Nat /\ Cardinality(fetched) \in Nat
    BY <1>6, <2>1, FS_Subset, FS_CardinalityType
  <2>4. QED
    BY <1>6, <2>2, <2>3, ReportConstants
<1>11. report' = [report EXCEPT !.nextUp = kept, !.hidden = hidden]
  BY <1>3
<1> HIDE DEF todo, hidden
<1>12. /\ Shaped(report') /\ report'.nextUp = kept /\ report'.hidden = hidden
       /\ \A f \in Sections \ {"nextUp", "hidden"} : report'[f] = report[f]
  BY <1>11 DEF ReportInv, Shaped, Sections
<1>13. /\ report'.project = report.project /\ report'.inProgress = report.inProgress
       /\ report'.stale = report.stale /\ report'.holders = report.holders
       /\ report'.last = report.last /\ report'.blocked = report.blocked
       /\ report'.backlogN = report.backlogN /\ report'.doneN = report.doneN
  BY <1>12 DEF Sections
<1>14. kept \cup hidden \subseteq DOMAIN tickets /\ kept \cap hidden = {}
  BY <1>4, <1>6, <1>8, <1>9
<1>15. ReportTypeOK'
  BY <1>1, <1>8, <1>10, <1>12, <1>13, <1>14 DEF ReportInv, ReportTypeOK
<1>16. UnderWayInPlace' /\ StaleMeansQuiet'
  BY <1>1, <1>13, QueryKeepsSections DEF ReadNextUp
<1>17. BlockedInPlace' /\ ExcerptsSoFar'
  BY <1>1, <1>13 DEF ReportInv, BlockedInPlace, ExcerptsSoFar, Reported, InScope
<1>18. NextUpInPlace'
  BY <1>1, <1>4, <1>6, <1>8, <1>9, <1>12, <1>13 DEF NextUpInPlace, Reported, InScope
<1>19. NextUpFree'
  BY <1>1, <1>8, <1>9, <1>12 DEF NextUpFree, ClaimActiveAt
<1>20. QED
  BY <1>1, <1>12, <1>15, <1>16, <1>17, <1>18, <1>19 DEF ReportInv

\* ReadBacklogCount and ReadDoneCount.
LEMMA CountsPreserve ==
  ASSUME ReportInv, ReadBacklogCount \/ ReadDoneCount
  PROVE  ReportInv'
<1>1. /\ IInv /\ IInv' /\ UNCHANGED <<tickets, counters, links, comments, now>>
      /\ UNCHANGED <<commentsThen, moved, reclaimed, pending>>
      /\ step \in {"backlog count", "done count"} /\ step' \in {"done count", "complete"}
  BY QueryLeavesStore DEF ReadBacklogCount, ReadDoneCount, memory
<1>2. \A status : Cardinality(WithStatus(status, report.project)) \in 0..MaxTickets
  BY <1>1, TicketsFinite DEF WithStatus
<1>3. PICK n \in 0..MaxTickets : \/ report' = [report EXCEPT !.backlogN = n]
                                \/ report' = [report EXCEPT !.doneN = n]
  BY <1>2 DEF ReadBacklogCount, ReadDoneCount
<1>4. /\ Shaped(report')
      /\ \A f \in Sections \ {"backlogN", "doneN"} : report'[f] = report[f]
      /\ report'.backlogN \in {n, report.backlogN} /\ report'.doneN \in {n, report.doneN}
  BY <1>3 DEF ReportInv, Shaped, Sections
<1>5. /\ report'.project = report.project /\ report'.inProgress = report.inProgress
      /\ report'.stale = report.stale /\ report'.holders = report.holders
      /\ report'.last = report.last /\ report'.blocked = report.blocked
      /\ report'.nextUp = report.nextUp /\ report'.hidden = report.hidden
  BY <1>4 DEF Sections
<1>6. ReportTypeOK'
  BY <1>1, <1>4, <1>5 DEF ReportInv, ReportTypeOK
<1>7. UnderWayInPlace' /\ StaleMeansQuiet'
  BY <1>1, <1>5, QueryKeepsSections DEF ReadBacklogCount, ReadDoneCount
<1>8. BlockedInPlace' /\ ExcerptsSoFar' /\ NextUpInPlace' /\ NextUpFree'
  BY <1>1, <1>5 DEF ReportInv, BlockedInPlace, ExcerptsSoFar, NextUpInPlace, NextUpFree,
     Reported, InScope
<1>9. QED
  BY <1>1, <1>4, <1>6, <1>7, <1>8 DEF ReportInv

\* The reader between two reports.
Idle ==
  /\ step = "idle" /\ report = NoReport /\ pending = {}
  /\ commentsThen = 0 /\ moved = {} /\ reclaimed = {}

\* Without a report there is little to be right about.
LEMMA IdleSuffices == IInv /\ Idle => ReportInv
<1> SUFFICES ASSUME IInv, Idle PROVE ReportInv
  OBVIOUS
<1>1. /\ report.project = NoProject /\ report.inProgress = {} /\ report.stale = {}
      /\ report.holders = {} /\ report.last = {} /\ report.blocked = [k \in {} |-> {}]
      /\ report.nextUp = {} /\ report.hidden = {}
      /\ report.backlogN = 0 /\ report.doneN = 0
      /\ Shaped(report)
  BY DEF Idle, NoReport, Shaped, Sections
<1>2. ReportTypeOK
  <2>1. Cardinality({}) = 0
    BY FS_EmptySet
  <2>2. 0 <= TopN /\ 0 <= FetchLimit /\ 0 \in 0..MaxTickets
    BY ReportConstants, Bounds
  <2>3. Cardinality(report.nextUp) <= TopN
        /\ Cardinality(report.nextUp \cup report.hidden) <= FetchLimit
    BY <1>1, <2>1, <2>2
  <2>4. commentsThen \in 0..Len(comments)
    BY CommentsIndexed DEF Idle
  <2>5. /\ DOMAIN report.blocked = {}
        /\ report.blocked \in [DOMAIN report.blocked -> SUBSET DOMAIN tickets]
    BY <1>1
  <2>6. QED
    BY <1>1, <2>2, <2>3, <2>4, <2>5 DEF Idle, ReportTypeOK
<1>3. StaleMeansQuiet
  BY <1>1 DEF StaleMeansQuiet
<1>4. QED
  BY <1>1, <1>2, <1>3 DEF Idle, ReportInv, UnderWayInPlace, BlockedInPlace, NextUpInPlace, NextUpFree,
     ExcerptsSoFar

LEMMA EndPreserves ==
  ASSUME ReportInv, EndReport
  PROVE  ReportInv'
<1>1. IInv'
  BY QueryLeavesStore DEF EndReport
<1>2. Idle'
  BY DEF EndReport, Idle
<1>3. QED
  BY <1>1, <1>2, IdleSuffices, PTL

-------------------------------------------------------------------------------
(* Every step *)

LEMMA ReportInitEstablishes == ReportInit => ReportInv
BY InitEstablishes, IdleSuffices DEF ReportInit, Idle

LEMMA ReportPreserves == ReportInv /\ [ReportNext]_reportVars => ReportInv'
<1> SUFFICES ASSUME ReportInv, [ReportNext]_reportVars PROVE ReportInv'
  OBVIOUS
<1>1. CASE StoreStep
  BY <1>1, StoreStepPreserves
<1>2. CASE ReaderStep
  BY <1>2, StartPreserves, LastCommentPreserves, BlockedPreserves, BlockersPreserve,
     NextUpPreserves, CountsPreserve, EndPreserves DEF ReaderStep
<1>3. CASE UNCHANGED reportVars
  <2>1. /\ IInv' /\ UNCHANGED <<tickets, comments, now, step, pending, report>>
        /\ UNCHANGED <<commentsThen, moved, reclaimed>>
    BY <1>3, QueryLeavesStore DEF reportVars, readerVars, memory
  <2>2. Shaped(report)' /\ ReportTypeOK'
    BY <2>1 DEF ReportInv, Shaped, ReportTypeOK
  <2>3. UnderWayInPlace' /\ BlockedInPlace' /\ NextUpInPlace'
    BY <2>1 DEF ReportInv, UnderWayInPlace, BlockedInPlace, NextUpInPlace, Reported, InScope,
       UnderWay
  <2>4. NextUpFree' /\ ExcerptsSoFar' /\ StaleMeansQuiet'
    BY <2>1 DEF ReportInv, NextUpFree, ExcerptsSoFar, StaleMeansQuiet
  <2>5. QED
    BY <2>1, <2>2, <2>3, <2>4 DEF ReportInv
<1>4. QED
  BY <1>1, <1>2, <1>3 DEF ReportNext

LEMMA ReportInvariance == ReportSpec => []ReportInv
BY ReportInitEstablishes, ReportPreserves, PTL DEF ReportSpec

\* The sections of a report name tickets and entries that exist, suggestions and
\* hidden tickets exclude each other, and the limits are kept, in every state.
THEOREM ReportWellTyped == ReportSpec => []ReportTypeOK
<1>1. ReportInv => ReportTypeOK
  BY DEF ReportInv
<1>2. QED
  BY <1>1, ReportInvariance, PTL

\* A ticket nobody moved while get_context ran is in no section but that of its status,
\* and there if it is under way or blocked, although every section comes from a query
\* of its own; tickets of other projects are in none.
THEOREM SectionsAreRight == ReportSpec => []SettledTicketsInPlace
<1>1. ReportInv => SettledTicketsInPlace
  BY DEF ReportInv, SettledTicketsInPlace, Complete, UnderWayInPlace, BlockedInPlace,
     NextUpInPlace, UnderWay
<1>2. QED
  BY <1>1, ReportInvariance, PTL

\* A suggested ticket that was not moved or claimed since the report began is todo
\* and free.
THEOREM SuggestionsAreFree == ReportSpec => []SuggestionsArePickable
<1>1. ReportInv => SuggestionsArePickable
  BY DEF ReportInv, SuggestionsArePickable, Complete, NextUpInPlace, NextUpFree
<1>2. QED
  BY <1>1, ReportInvariance, PTL

\* The excerpt of a ticket's worklog is at least as new as the newest entry there
\* was when get_context began.
THEOREM ExcerptsKeepUp == ReportSpec => []ExcerptsAreFresh
<1>1. ReportInv => ExcerptsAreFresh
  BY DEF ReportInv, ExcerptsAreFresh, ExcerptsSoFar
<1>2. QED
  BY <1>1, ReportInvariance, PTL

\* No ticket flagged stale has a worklog entry younger than StaleAfter that was
\* there when the report began.
THEOREM StaleTicketsAreQuiet == ReportSpec => []StaleMeansQuiet
<1>1. ReportInv => StaleMeansQuiet
  BY DEF ReportInv
<1>2. QED
  BY <1>1, ReportInvariance, PTL

================================================================================
