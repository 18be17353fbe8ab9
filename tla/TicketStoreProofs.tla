--------------------------- MODULE TicketStoreProofs ---------------------------
(***************************************************************************)
(* Proofs about TicketStore.                                               *)
(***************************************************************************)
EXTENDS TicketStore, SequenceTheorems, FiniteSetTheorems, WellFoundedInduction, TLAPS

(* Timestamps *)

LEMMA QuotientRemainder ==
  ASSUME NEW t \in Nat, NEW d \in Nat \ {0}
  PROVE  /\ t \div d \in Int
         /\ t % d \in 0..(d - 1)
         /\ t % d <= t
         /\ t = (d * (t \div d)) + (t % d)
OBVIOUS

LEMMA MultipleAtLeast ==
  ASSUME NEW n \in Int, n >= 1, NEW d \in Nat \ {0}
  PROVE  d * n >= d
OBVIOUS

\* The remainder grows by no more than the clock.
LEMMA RemainderStep ==
  ASSUME NEW t \in Nat, NEW u \in Nat, t <= u, NEW d \in Nat \ {0}
  PROVE  u % d <= (t % d) + (u - t)
<1> DEFINE q == t \div d
           r == t % d
           p == u \div d
           m == u % d
<1>1. q \in Int /\ r \in 0..(d - 1) /\ t = (d * q) + r
  BY QuotientRemainder
<1>2. p \in Int /\ m \in 0..(d - 1) /\ u = (d * p) + m
  BY QuotientRemainder
<1>3. SUFFICES ASSUME m > r + (u - t) PROVE FALSE
  BY <1>1, <1>2
<1> HIDE DEF q, r, p, m
<1>4. d * (q - p) = (d * q) - (d * p)
  BY <1>1, <1>2
<1>5. d * (q - p) = m - (r + (u - t))
  BY <1>1, <1>2, <1>4
<1>6. d * (q - p) < d
  BY <1>1, <1>2, <1>5
<1>7. ~(q - p >= 1)
  BY <1>1, <1>2, <1>6, MultipleAtLeast
<1>8. d * (q - p) <= 0
  BY <1>1, <1>2, <1>7
<1>9. QED
  BY <1>1, <1>2, <1>3, <1>5, <1>8

\* A timestamp lies in the second that ends at its instant, and the timestamps
\* of a clock that does not run back do not run back either.
LEMMA Timestamps ==
  ASSUME NEW t \in Nat
  PROVE  /\ rfc3339(t) \in 0..t
         /\ t - rfc3339(t) < Second
         /\ \A u \in Nat : t <= u => rfc3339(t) <= rfc3339(u)
<1>1. t % Second \in 0..(Second - 1) /\ t % Second <= t
  BY QuotientRemainder, ClockUnits
<1>2. ASSUME NEW u \in Nat, t <= u
      PROVE  rfc3339(t) <= rfc3339(u)
  <2>1. u % Second \in 0..(Second - 1)
    BY QuotientRemainder, ClockUnits
  <2>2. u % Second <= (t % Second) + (u - t)
    BY <1>2, RemainderStep, ClockUnits
  <2>3. QED
    BY <1>1, <1>2, <2>1, <2>2, ClockUnits DEF rfc3339
<1>3. QED
  BY <1>1, <1>2, ClockUnits DEF rfc3339

-------------------------------------------------------------------------------
(* The invariant, one action at a time *)

LEMMA NoReplyType == NoReply \in Replies
BY DEF NoReply, Replies, Operations, Outcomes, NoKey

LEMMA InitEstablishes == Init => IInv
<1> SUFFICES ASSUME Init PROVE IInv
  OBVIOUS
<1>1. DOMAIN tickets = {} /\ links = {} /\ comments = <<>> /\ counters[keySequence] = 1
  BY DEF Init
<1>2. NoReply \in Replies
  BY NoReplyType
<1>3. TypeOK
  <2>1. comments \in Seq([ticket : Keys, at : 0..MaxTime])
    BY <1>1
  <2>2. now \in 0..MaxTime
    BY Bounds, ClockUnits DEF Init
  <2>3. counters \in [{keySequence} -> 1..(MaxTickets + 1)]
    BY Bounds DEF Init
  <2>4. tickets \in [DOMAIN tickets -> Row]
    BY DEF Init
  <2>5. QED
    BY <1>1, <1>2, <2>1, <2>2, <2>3, <2>4 DEF TypeOK, Init
<1>4. KeysSequential
  BY <1>1 DEF KeysSequential
<1>5. QED
  BY <1>1, <1>3, <1>4 DEF IInv, ParentsOlder, LinksWellFormed, ClaimFieldsAgree,
     WorklogChronological

LEMMA RefusalPreserves ==
  ASSUME IInv, NEW call \in Replies, NEW out \in Outcomes, Refused(call, out)
  PROVE  IInv'
<1>1. reply' \in Replies
  BY DEF Refused, Replies
<1>2. UNCHANGED <<tickets, counters, links, comments, now>>
  BY DEF Refused, tables
<1>3. TypeOK'
  BY <1>1, <1>2 DEF IInv, TypeOK
<1>4. QED
  BY <1>2, <1>3 DEF IInv, KeysSequential, ParentsOlder, LinksWellFormed,
     ClaimFieldsAgree, WorklogChronological

LEMMA TickPreserves == IInv /\ Tick => IInv'
<1> SUFFICES ASSUME IInv, Tick PROVE IInv'
  OBVIOUS
<1>1. /\ UNCHANGED <<tickets, counters, links, comments, reply>>
      /\ now <= now' /\ now \in 0..MaxTime /\ now' \in 0..MaxTime
  BY Bounds DEF Tick, tables, IInv, TypeOK
<1>2. TypeOK'
  BY <1>1 DEF IInv, TypeOK
<1>3. rfc3339(now) <= rfc3339(now') /\ rfc3339(now) \in Int /\ rfc3339(now') \in Int
  <2>1. now \in Nat /\ now' \in Nat
    BY <1>1
  <2>2. QED
    BY <1>1, <2>1, Timestamps
<1>4. \A k \in DOMAIN tickets : tickets[k].updatedAt <= rfc3339(now')
  <2>1. \A k \in DOMAIN tickets : tickets[k].updatedAt \in Int
    BY Bounds DEF IInv, TypeOK, Row
  <2>2. QED
    BY <1>3, <2>1 DEF IInv, WorklogChronological
<1>5. WorklogChronological'
  BY <1>1, <1>4 DEF IInv, WorklogChronological
<1>6. QED
  BY <1>1, <1>2, <1>5 DEF IInv, KeysSequential, ParentsOlder, LinksWellFormed,
     ClaimFieldsAgree

\* What the invariant says of the row of one ticket.
LEMMA RowFacts ==
  ASSUME IInv, NEW key \in DOMAIN tickets
  PROVE  /\ tickets[key] \in Row
         /\ key \in Keys
         /\ tickets[key].parent \in Int /\ tickets[key].parent < key
         /\ tickets[key].updatedAt \in 0..MaxTime
         /\ tickets[key].updatedAt <= rfc3339(now)
         /\ (tickets[key].claimedBy = NoAgent) <=> (tickets[key].claimedAt = NoTime)
<1>1. tickets[key] \in Row /\ key \in Keys
  BY DEF IInv, TypeOK
<1>2. QED
  BY <1>1, Bounds DEF IInv, ParentsOlder, ClaimFieldsAgree, WorklogChronological, Row, Keys, NoKey

\* The time of the transaction, as it is stored.
LEMMA StampNow ==
  ASSUME IInv
  PROVE  /\ now \in 0..MaxTime
         /\ rfc3339(now) \in 0..MaxTime
         /\ rfc3339(now) # NoTime
<1>1. now \in 0..MaxTime /\ now \in Nat
  BY Bounds DEF IInv, TypeOK
<1>2. QED
  BY <1>1, Timestamps, Bounds DEF NoTime

\* An operation that rewrites one row: it keeps the parent, leaves updated_at or
\* sets it to the present, and sets or clears both claim columns together.
LEMMA RowRewritePreserves ==
  ASSUME IInv,
         NEW key \in DOMAIN tickets,
         NEW row \in Row,
         row.parent = tickets[key].parent,
         row.updatedAt \in {tickets[key].updatedAt, rfc3339(now)},
         (row.claimedBy = NoAgent) <=> (row.claimedAt = NoTime),
         tickets' = [tickets EXCEPT ![key] = row],
         UNCHANGED now
  PROVE  /\ DOMAIN tickets' = DOMAIN tickets
         /\ tickets' \in [DOMAIN tickets' -> Row]
         /\ ParentsOlder'
         /\ ClaimFieldsAgree'
         /\ \A k \in DOMAIN tickets : /\ tickets'[k].updatedAt <= rfc3339(now)
                                     /\ tickets[k].updatedAt <= tickets'[k].updatedAt
<1>1. /\ DOMAIN tickets' = DOMAIN tickets
      /\ \A k \in DOMAIN tickets : tickets'[k] = IF k = key THEN row ELSE tickets[k]
  BY DEF IInv, TypeOK
<1>2. tickets' \in [DOMAIN tickets' -> Row]
  BY DEF IInv, TypeOK
<1>3. ParentsOlder'
  BY <1>1 DEF IInv, ParentsOlder
<1>4. ClaimFieldsAgree'
  BY <1>1 DEF IInv, ClaimFieldsAgree
<1>5. ASSUME NEW k \in DOMAIN tickets
      PROVE  /\ tickets'[k].updatedAt <= rfc3339(now)
             /\ tickets[k].updatedAt <= tickets'[k].updatedAt
  <2>1. tickets[k].updatedAt \in 0..MaxTime /\ tickets[k].updatedAt <= rfc3339(now)
    BY RowFacts
  <2>2. rfc3339(now) \in 0..MaxTime
    BY StampNow
  <2>3. QED
    BY <1>1, <2>1, <2>2, Bounds
<1>6. QED
  BY <1>1, <1>2, <1>3, <1>4, <1>5

\* The key sequence hands out the first key above those in use.
LEMMA InsertPreserves ==
  ASSUME IInv,
         NEW project \in ProjectNames,
         NEW title \in Titles \ {Blank},
         NEW parent \in RelatedKeys,
         ParentFound(parent),
         InsertTicket(project, title, parent)
  PROVE  IInv'
<1> DEFINE key == counters[keySequence]
           row == NewRow(project, title, parent)
<1>1. /\ NextKey(project) = key /\ key \in Keys
      /\ DOMAIN tickets = 1..(key - 1)
      /\ counters' = [r \in {keySequence} |-> key + 1]
  <2>1. /\ counters \in [{keySequence} -> 1..(MaxTickets + 1)]
        /\ CounterRow(project) = keySequence
    BY DEF IInv, TypeOK, CounterRow
  <2>2. NextKey(project) = key /\ key \in 1..(MaxTickets + 1)
    BY <2>1 DEF NextKey
  <2>3. key <= MaxTickets
    BY <2>2 DEF InsertTicket
  <2>4. counters' = [r \in {keySequence} |-> key + 1]
    BY <2>1, <2>2 DEF InsertTicket
  <2>5. QED
    BY <2>2, <2>3, <2>4, Bounds DEF IInv, KeysSequential, Keys
<1> HIDE DEF key
<1>2. /\ DOMAIN tickets' = 1..key
      /\ tickets'[key] = row
      /\ \A k \in DOMAIN tickets : k # key /\ tickets'[k] = tickets[k]
  <2>1. tickets' = [k \in DOMAIN tickets \cup {key} |-> IF k = key THEN row ELSE tickets[k]]
    BY <1>1 DEF InsertTicket
  <2>2. DOMAIN tickets \cup {key} = 1..key
    BY <1>1, Bounds DEF Keys
  <2>3. QED
    BY <1>1, <2>1, <2>2, Bounds DEF Keys
<1>3. row.parent \in {NoKey} \cup Keys /\ row.parent < key
  BY <1>1, Bounds DEF ParentFound, NewRow, NoKey, Keys
<1>4. row \in Row
  BY <1>3, StampNow, Bounds DEF NewRow, Row, allStatuses, Todo
<1>5. UNCHANGED <<links, comments, now>>
  BY DEF InsertTicket
<1>6. reply' \in Replies
  <2>1. reply' = [NoReply EXCEPT !.op = "create", !.key = key]
    BY <1>1 DEF InsertTicket
  <2>2. key \in KeyArgs
    BY <1>1, Bounds DEF KeyArgs, Keys
  <2>3. QED
    BY <2>1, <2>2, NoReplyType DEF Replies, Operations
<1>7. TypeOK'
  <2>1. DOMAIN tickets' \subseteq Keys
    BY <1>1, <1>2, Bounds DEF Keys
  <2>2. \A k \in DOMAIN tickets' : tickets'[k] \in Row
    <3>1. \A k \in 1..key : k = key \/ k \in 1..(key - 1)
      BY <1>1, Bounds DEF Keys
    <3>2. QED
      BY <1>1, <1>2, <1>4, <3>1 DEF IInv, TypeOK
  <2>3. tickets' \in [DOMAIN tickets' -> Row]
    BY <2>2 DEF InsertTicket
  <2>4. counters' \in [{keySequence} -> 1..(MaxTickets + 1)]
    BY <1>1, Bounds DEF Keys
  <2>5. QED
    BY <1>5, <1>6, <2>1, <2>3, <2>4 DEF IInv, TypeOK, keySequence
<1>8. KeysSequential'
  BY <1>1, <1>2, Bounds DEF KeysSequential, Keys, keySequence
<1>9. ParentsOlder'
  BY <1>1, <1>2, <1>3, Bounds DEF IInv, ParentsOlder, Keys
<1>10. LinksWellFormed'
  BY <1>1, <1>2, <1>5, Bounds DEF IInv, LinksWellFormed, Keys
<1>11. ClaimFieldsAgree'
  BY <1>1, <1>2, Bounds DEF IInv, ClaimFieldsAgree, NewRow, Keys
<1>12. WorklogChronological'
  <2>1. \A k \in DOMAIN tickets' : tickets'[k].updatedAt <= rfc3339(now)
    <3>1. row.updatedAt = rfc3339(now) /\ rfc3339(now) <= rfc3339(now)
      BY StampNow, Bounds DEF NewRow
    <3>2. QED
      BY <1>1, <1>2, <3>1, Bounds DEF IInv, WorklogChronological, Keys
  <2>2. DOMAIN tickets \subseteq DOMAIN tickets'
    BY <1>1, <1>2, Bounds DEF Keys
  <2>3. QED
    BY <1>2, <1>5, <2>1, <2>2 DEF IInv, WorklogChronological
<1>13. QED
  BY <1>7, <1>8, <1>9, <1>10, <1>11, <1>12 DEF IInv

LEMMA CreatePreserves ==
  ASSUME IInv,
         NEW projectArg \in Projects, NEW title \in Titles, NEW parent \in RelatedKeys,
         CreateTicket(projectArg, title, parent)
  PROVE  IInv'
<1> DEFINE project == ProjectName(projectArg)
           twins   == OpenDuplicates(project, title)
           call    == [NoReply EXCEPT !.op = "create"]
<1>1. call \in Replies
  BY NoReplyType DEF Replies, Operations
<1>2. CASE \E out \in {"empty", "not_found"} : Refused(call, out)
  BY <1>1, <1>2, RefusalPreserves DEF Outcomes
<1>3. ASSUME NEW k \in twins,
             reply' = [call EXCEPT !.key = k, !.out = "existed"],
             UNCHANGED <<tables, now>>
      PROVE  IInv'
  <2>1. k \in Keys
    BY DEF IInv, TypeOK, OpenDuplicates
  <2>2. reply' \in Replies
    <3>1. k \in KeyArgs
      BY <2>1, Bounds DEF Keys, KeyArgs
    <3>2. reply' = [call EXCEPT !.key = k, !.out = "existed"]
      BY <1>3
    <3> HIDE DEF call
    <3>3. QED
      BY <1>1, <3>1, <3>2 DEF Replies, Outcomes
  <2>3. UNCHANGED <<tickets, counters, links, comments, now>>
    BY <1>3 DEF tables
  <2>4. QED
    BY <2>2, <2>3 DEF IInv, TypeOK, KeysSequential, ParentsOlder, LinksWellFormed,
       ClaimFieldsAgree, WorklogChronological
<1>4. CASE title # Blank /\ ParentFound(parent) /\ InsertTicket(project, title, parent)
  <2>1. project \in ProjectNames
    BY DEF ProjectNames
  <2>2. QED
    BY <1>4, <2>1, InsertPreserves
<1>5. QED
  BY <1>2, <1>3, <1>4 DEF CreateTicket

LEMMA CommentType ==
  ASSUME IInv, NEW i \in DOMAIN comments
  PROVE  comments[i] \in [ticket : Keys, at : 0..MaxTime]
<1> DEFINE Comment == [ticket : Keys, at : 0..MaxTime]
<1>1. comments \in Seq(Comment)
  BY DEF IInv, TypeOK
<1> HIDE DEF Comment
<1>2. comments[i] \in Comment
  BY <1>1, ElementOfSeq, LenProperties
<1>3. QED
  BY <1>2 DEF Comment

\* Rows that only grow younger keep the worklog in order.
LEMMA WorklogKept ==
  ASSUME IInv,
         DOMAIN tickets' = DOMAIN tickets,
         tickets' \in [DOMAIN tickets' -> Row],
         \A k \in DOMAIN tickets : /\ tickets'[k].updatedAt <= rfc3339(now)
                                  /\ tickets[k].updatedAt <= tickets'[k].updatedAt,
         UNCHANGED <<comments, now>>
  PROVE  WorklogChronological'
<1>1. ASSUME NEW i \in DOMAIN comments
      PROVE  comments[i].at <= tickets'[comments[i].ticket].updatedAt
  <2>1. comments[i] \in [ticket : Keys, at : 0..MaxTime]
    BY CommentType
  <2>2. comments[i].ticket \in DOMAIN tickets
    BY DEF IInv, WorklogChronological
  <2>3. /\ comments[i].at <= tickets[comments[i].ticket].updatedAt
        /\ tickets[comments[i].ticket].updatedAt <= tickets'[comments[i].ticket].updatedAt
    BY <2>2 DEF IInv, WorklogChronological
  <2>4. /\ tickets[comments[i].ticket].updatedAt \in Int
        /\ tickets'[comments[i].ticket].updatedAt \in Int
    BY <2>2, Bounds DEF IInv, TypeOK, Row
  <2>5. QED
    BY <2>1, <2>3, <2>4, Bounds
<1>2. QED
  BY <1>1 DEF IInv, WorklogChronological

\* An update that is not refused writes a legal row and links to other tickets.
LEMMA UpdatedRowFacts ==
  ASSUME IInv, NEW key \in DOMAIN tickets, NEW change \in Changes,
         ~RenamesToBlank(key, change)
  PROVE  LET row == UpdatedRow(key, change)
         IN  /\ row \in Row
             /\ row.parent = tickets[key].parent
             /\ row.updatedAt \in {tickets[key].updatedAt, rfc3339(now)}
             /\ (row.claimedBy = NoAgent) <=> (row.claimedAt = NoTime)
             /\ row.status = IF Moves(key, change) THEN change.status ELSE tickets[key].status
             /\ row.claimedBy = IF DropsClaim(key, change) THEN NoAgent
                                ELSE tickets[key].claimedBy
             /\ row.title = IF Renames(key, change) THEN change.title ELSE tickets[key].title
<1> DEFINE old == tickets[key]
           status == IF Moves(key, change) THEN change.status ELSE old.status
           title == IF Renames(key, change) THEN change.title ELSE old.title
           by == IF DropsClaim(key, change) THEN NoAgent ELSE old.claimedBy
           at == IF DropsClaim(key, change) THEN NoTime ELSE old.claimedAt
           updated == IF ChangesRow(key, change) THEN rfc3339(now) ELSE old.updatedAt
<1>1. old \in Row
  BY RowFacts
<1>2. status \in allStatuses /\ title \in Titles \ {Blank}
  BY <1>1 DEF Row, Changes, Moves, Renames, RenamesToBlank
<1>3. /\ by \in {NoAgent} \cup AgentIds /\ at \in {NoTime} \cup 0..MaxTime
      /\ (by = NoAgent) <=> (at = NoTime)
  BY <1>1, RowFacts DEF Row
<1>4. updated \in 0..MaxTime /\ updated \in {old.updatedAt, rfc3339(now)}
  BY <1>1, StampNow DEF Row
<1>5. UpdatedRow(key, change) =
        [old EXCEPT !.status = status, !.title = title, !.claimedBy = by,
                    !.claimedAt = at, !.updatedAt = updated]
  BY DEF UpdatedRow
<1> HIDE DEF old, status, title, by, at, updated
<1>6. UpdatedRow(key, change) =
        [project |-> old.project, title |-> title, status |-> status, parent |-> old.parent,
         claimedBy |-> by, claimedAt |-> at, updatedAt |-> updated]
  BY <1>1, <1>5 DEF Row
<1>7. QED
  BY <1>1, <1>2, <1>3, <1>4, <1>6 DEF Row, old, status, title, by

LEMMA NewLinksFacts ==
  ASSUME IInv, NEW key \in DOMAIN tickets, NEW change \in Changes,
         LinksError(key, change) = "ok"
  PROVE  \A link \in NewLinks(key, change) :
           /\ link \in Keys \X Keys \X {"blocks", "relates"}
           /\ link[1] # link[2]
           /\ {link[1], link[2]} \subseteq DOMAIN tickets
<1>1. DOMAIN tickets \subseteq Keys
  BY DEF IInv, TypeOK
<1>2. ASSUME NEW target, LinkError(key, target) = "ok", target # NoKey
      PROVE  target \in DOMAIN tickets /\ target # key
  BY <1>2 DEF LinkError
<1>3. LinkError(key, change.blocks) = "ok" /\ LinkError(key, change.relates) = "ok"
  BY DEF LinksError
<1>4. ASSUME NEW link \in NewLinks(key, change)
      PROVE  \E target \in DOMAIN tickets \ {key}, kind \in {"blocks", "relates"} :
               link = <<key, target, kind>>
  BY <1>2, <1>3, <1>4 DEF NewLinks
<1>5. QED
  BY <1>1, <1>4

LEMMA UpdatePreserves ==
  ASSUME IInv, NEW key \in KeyArgs, NEW change \in Changes, UpdateTicket(key, change)
  PROVE  IInv'
<1> DEFINE call == [NoReply EXCEPT !.op = "update", !.key = key, !.status = change.status]
<1>1. call \in Replies
  BY NoReplyType DEF Replies, Operations, Changes
<1>2. LinksError(key, change) \in Outcomes
  BY DEF LinksError, LinkError, Outcomes
<1>3. CASE \E out \in Outcomes : Refused(call, out)
  BY <1>1, <1>3, RefusalPreserves
<1>4. ASSUME key \in DOMAIN tickets,
             ~RenamesToBlank(key, change),
             LinksError(key, change) = "ok",
             tickets' = [tickets EXCEPT ![key] = UpdatedRow(key, change)],
             links' = links \cup NewLinks(key, change),
             \E out \in Outcomes : reply' = [call EXCEPT !.out = out],
             UNCHANGED <<counters, comments, now>>
      PROVE  IInv'
  <2>1. /\ DOMAIN tickets' = DOMAIN tickets
        /\ tickets' \in [DOMAIN tickets' -> Row]
        /\ ParentsOlder'
        /\ ClaimFieldsAgree'
        /\ \A k \in DOMAIN tickets : /\ tickets'[k].updatedAt <= rfc3339(now)
                                    /\ tickets[k].updatedAt <= tickets'[k].updatedAt
    BY <1>4, UpdatedRowFacts, RowRewritePreserves
  <2>2. reply' \in Replies
    <3> HIDE DEF call
    <3>1. QED
      BY <1>1, <1>4 DEF Replies
  <2>3. links' \subseteq Keys \X Keys \X {"blocks", "relates"} /\ LinksWellFormed'
    BY <1>4, <2>1, NewLinksFacts DEF IInv, TypeOK, LinksWellFormed
  <2>4. TypeOK'
    BY <1>4, <2>1, <2>2, <2>3 DEF IInv, TypeOK
  <2>5. WorklogChronological'
    BY <1>4, <2>1, WorklogKept
  <2>6. QED
    BY <1>4, <2>1, <2>3, <2>4, <2>5 DEF IInv, KeysSequential
<1>5. QED
  BY <1>2, <1>3, <1>4 DEF UpdateTicket, Outcomes

\* A comment is stamped with the present, and so is its ticket: every earlier
\* entry of the worklog is older.
LEMMA CommentPreserves ==
  ASSUME IInv, NEW key \in KeyArgs, NEW blankBody \in BOOLEAN, AddComment(key, blankBody)
  PROVE  IInv'
<1> DEFINE call == [NoReply EXCEPT !.op = "comment", !.key = key]
           Comment == [ticket : Keys, at : 0..MaxTime]
           entry == [ticket |-> key, at |-> rfc3339(now)]
           n == Len(comments)
<1>1. call \in Replies
  BY NoReplyType DEF Replies, Operations
<1>2. CASE \E out \in {"empty", "not_found"} : Refused(call, out)
  BY <1>1, <1>2, RefusalPreserves DEF Outcomes
<1>3. ASSUME key \in DOMAIN tickets,
             comments' = Append(comments, entry),
             tickets' = [tickets EXCEPT ![key] = TouchedRow(key)],
             reply' = call,
             UNCHANGED <<counters, links, now>>
      PROVE  IInv'
  <2>1. /\ TouchedRow(key) \in Row
        /\ TouchedRow(key).parent = tickets[key].parent
        /\ TouchedRow(key).updatedAt = rfc3339(now)
        /\ TouchedRow(key).claimedBy = tickets[key].claimedBy
        /\ TouchedRow(key).claimedAt = tickets[key].claimedAt
    BY <1>3, RowFacts, StampNow DEF TouchedRow, Row
  <2>2. /\ DOMAIN tickets' = DOMAIN tickets
        /\ tickets' \in [DOMAIN tickets' -> Row]
        /\ ParentsOlder'
        /\ ClaimFieldsAgree'
        /\ \A k \in DOMAIN tickets : /\ tickets'[k].updatedAt <= rfc3339(now)
                                    /\ tickets[k].updatedAt <= tickets'[k].updatedAt
    <3>1. (TouchedRow(key).claimedBy = NoAgent) <=> (TouchedRow(key).claimedAt = NoTime)
      BY <1>3, <2>1, RowFacts
    <3>2. QED
      BY <1>3, <2>1, <3>1, RowRewritePreserves
  <2>3. entry \in Comment
    BY <1>3, StampNow DEF IInv, TypeOK
  <2>4. /\ comments' \in Seq(Comment)
        /\ n \in Nat /\ DOMAIN comments = 1..n /\ DOMAIN comments' = 1..(n + 1)
        /\ \A i \in 1..n : comments'[i] = comments[i]
        /\ comments'[n + 1] = entry
    <3>1. comments \in Seq(Comment)
      BY DEF IInv, TypeOK
    <3> HIDE DEF Comment, entry
    <3>2. n \in Nat /\ DOMAIN comments = 1..n
      BY <3>1, LenProperties
    <3>3. /\ Append(comments, entry) \in Seq(Comment)
          /\ Len(Append(comments, entry)) = n + 1
          /\ \A i \in 1..n : Append(comments, entry)[i] = comments[i]
          /\ Append(comments, entry)[n + 1] = entry
      BY <2>3, <3>1, AppendProperties
    <3>4. DOMAIN Append(comments, entry) = 1..(n + 1)
      BY <3>3, LenProperties
    <3>5. QED
      BY <1>3, <3>2, <3>3, <3>4
  <2>5. TypeOK'
    BY <1>1, <1>3, <2>2, <2>4 DEF IInv, TypeOK
  <2>6. \A i \in 1..n : /\ comments[i].ticket \in DOMAIN tickets
                        /\ comments[i].at \in 0..MaxTime
                        /\ comments[i].at <= tickets[comments[i].ticket].updatedAt
                        /\ comments[i].at <= tickets'[comments[i].ticket].updatedAt
                        /\ comments[i].at <= rfc3339(now)
    <3>1. TAKE i \in 1..n
    <3> DEFINE t == comments[i].ticket
    <3>2. t \in DOMAIN tickets /\ comments[i].at <= tickets[t].updatedAt
      BY <2>4 DEF IInv, WorklogChronological
    <3>3. comments[i].at \in 0..MaxTime
      BY <2>4, CommentType
    <3>4. tickets[t].updatedAt <= tickets'[t].updatedAt /\ tickets'[t].updatedAt <= rfc3339(now)
      BY <2>2, <3>2
    <3>5. tickets[t].updatedAt \in Int /\ tickets'[t].updatedAt \in Int
      BY <2>2, <3>2, Bounds DEF IInv, TypeOK, Row
    <3>6. rfc3339(now) \in Int
      BY StampNow, Bounds
    <3>7. QED
      BY <3>2, <3>3, <3>4, <3>5, <3>6, Bounds
  <2>7. WorklogChronological'
    <3>1. \A k \in DOMAIN tickets' : tickets'[k].updatedAt <= rfc3339(now')
      BY <1>3, <2>2
    <3>2. ASSUME NEW i \in 1..(n + 1)
          PROVE  /\ comments'[i].ticket \in DOMAIN tickets'
                 /\ comments'[i].at <= tickets'[comments'[i].ticket].updatedAt
                 /\ \A j \in 1..i :
                      comments'[j].ticket = comments'[i].ticket => comments'[j].at <= comments'[i].at
      <4>1. CASE i \in 1..n
        <5>1. 1..i \subseteq 1..n
          BY <4>1, <2>4
        <5>2. \A j \in 1..i :
                comments[j].ticket = comments[i].ticket => comments[j].at <= comments[i].at
          BY <4>1, <2>4 DEF IInv, WorklogChronological
        <5>3. QED
          BY <4>1, <5>1, <5>2, <2>2, <2>4, <2>6
      <4>2. CASE i = n + 1
        <5>1. comments'[i] = entry /\ tickets'[key].updatedAt = rfc3339(now)
          BY <1>3, <2>1, <2>4, <4>2 DEF IInv, TypeOK
        <5>2. rfc3339(now) <= rfc3339(now)
          BY StampNow, Bounds
        <5>3. \A j \in 1..i : comments'[j].at <= rfc3339(now)
          BY <2>4, <2>6, <4>2, <5>1, <5>2
        <5>4. QED
          BY <1>3, <2>2, <5>1, <5>2, <5>3
      <4>3. QED
        BY <2>4, <4>1, <4>2
    <3>3. QED
      BY <2>4, <3>1, <3>2 DEF WorklogChronological
  <2>8. QED
    BY <1>3, <2>2, <2>5, <2>7 DEF IInv, KeysSequential, LinksWellFormed
<1>4. QED
  BY <1>2, <1>3 DEF AddComment

\* Taking and dropping a claim write one row, like an update.
LEMMA ClaimColumnsPreserve ==
  ASSUME IInv, NEW key \in DOMAIN tickets,
         NEW by \in {NoAgent} \cup AgentIds,
         NEW at \in {NoTime} \cup 0..MaxTime,
         (by = NoAgent) <=> (at = NoTime),
         tickets' = [tickets EXCEPT ![key] =
                       [tickets[key] EXCEPT !.claimedBy = by, !.claimedAt = at]],
         reply' \in Replies,
         UNCHANGED <<counters, links, comments, now>>
  PROVE  IInv'
<1> DEFINE row == [tickets[key] EXCEPT !.claimedBy = by, !.claimedAt = at]
<1>1. tickets[key] \in Row
  BY RowFacts
<1>2. /\ row \in Row
      /\ row.parent = tickets[key].parent /\ row.updatedAt = tickets[key].updatedAt
      /\ row.claimedBy = by /\ row.claimedAt = at
  BY <1>1 DEF Row
<1>3. /\ DOMAIN tickets' = DOMAIN tickets
      /\ tickets' \in [DOMAIN tickets' -> Row]
      /\ ParentsOlder'
      /\ ClaimFieldsAgree'
      /\ \A k \in DOMAIN tickets : /\ tickets'[k].updatedAt <= rfc3339(now)
                                  /\ tickets[k].updatedAt <= tickets'[k].updatedAt
  <2> HIDE DEF row
  <2>1. tickets' = [tickets EXCEPT ![key] = row]
    BY DEF row
  <2>2. QED
    BY <1>2, <2>1, RowRewritePreserves
<1>4. TypeOK'
  BY <1>3 DEF IInv, TypeOK
<1>5. WorklogChronological'
  BY <1>3, WorklogKept
<1>6. QED
  BY <1>3, <1>4, <1>5 DEF IInv, KeysSequential, LinksWellFormed

\* The agent an operation acts for always has a name.
LEMMA AgentIdNamed ==
  ASSUME NEW agentArg \in Agents
  PROVE  AgentId(agentArg) \in AgentIds /\ AgentId(agentArg) # NoAgent
BY EmptyStrings DEF AgentId, AgentIds

LEMMA ClaimPreserves ==
  ASSUME IInv, NEW key \in KeyArgs, NEW agentArg \in Agents, NEW force \in BOOLEAN,
         ClaimTicket(key, agentArg, force)
  PROVE  IInv'
<1> DEFINE agent == AgentId(agentArg)
           call == [NoReply EXCEPT !.op = "claim", !.key = key, !.agent = agent, !.force = force]
<1>1. agent \in AgentIds /\ agent # NoAgent
  BY AgentIdNamed
<1>2. call \in Replies
  BY <1>1, NoReplyType DEF Replies, Operations
<1>3. CASE \E out \in {"not_found", "claimed"} : Refused(call, out)
  BY <1>2, <1>3, RefusalPreserves DEF Outcomes
<1>4. CASE /\ key \in DOMAIN tickets
           /\ tickets' = [tickets EXCEPT ![key] = ClaimedRow(key, agent)]
           /\ reply' = call
           /\ UNCHANGED <<counters, links, comments, now>>
  BY <1>1, <1>2, <1>4, StampNow, ClaimColumnsPreserve DEF ClaimedRow
<1>5. QED
  BY <1>3, <1>4 DEF ClaimTicket

LEMMA ReleasePreserves ==
  ASSUME IInv, NEW key \in KeyArgs, NEW agentArg \in Agents, NEW force \in BOOLEAN,
         ReleaseClaim(key, agentArg, force)
  PROVE  IInv'
<1> DEFINE agent == AgentId(agentArg)
           call == [NoReply EXCEPT !.op = "release", !.key = key, !.agent = agent, !.force = force]
<1>1. agent \in AgentIds
  BY AgentIdNamed
<1>2. call \in Replies
  BY <1>1, NoReplyType DEF Replies, Operations
<1>3. CASE \E out \in {"not_found", "claimed"} : Refused(call, out)
  BY <1>2, <1>3, RefusalPreserves DEF Outcomes
<1>4. CASE /\ key \in DOMAIN tickets
           /\ tickets' = [tickets EXCEPT ![key] = UnclaimedRow(key)]
           /\ reply' = call
           /\ UNCHANGED <<counters, links, comments, now>>
  <2> DEFINE by == NoAgent
             at == NoTime
  <2>1. tickets[key] \in Row /\ (tickets[key].claimedBy = NoAgent => tickets[key].claimedAt = NoTime)
    BY <1>4, RowFacts DEF IInv, ClaimFieldsAgree
  <2>2. UnclaimedRow(key) = [tickets[key] EXCEPT !.claimedBy = by, !.claimedAt = at]
    BY <2>1 DEF UnclaimedRow, Row
  <2>3. QED
    BY <1>2, <1>4, <2>2, ClaimColumnsPreserve
<1>5. QED
  BY <1>3, <1>4 DEF ReleaseClaim

LEMMA StepPreserves == IInv /\ [Next]_vars => IInv'
<1> SUFFICES ASSUME IInv, [Next]_vars PROVE IInv'
  OBVIOUS
<1>1. CASE Tick
  BY <1>1, TickPreserves
<1>2. CASE \E project \in Projects, title \in Titles, parent \in RelatedKeys :
             CreateTicket(project, title, parent)
  BY <1>2, CreatePreserves
<1>3. CASE \E key \in KeyArgs, change \in Updates : UpdateTicket(key, change)
  BY <1>3, UpdatePreserves, UpdatesAreChanges
<1>4. CASE \E key \in KeyArgs, blankBody \in BOOLEAN : AddComment(key, blankBody)
  BY <1>4, CommentPreserves
<1>5. CASE \E key \in KeyArgs, agent \in Agents, force \in BOOLEAN :
             ClaimTicket(key, agent, force)
  BY <1>5, ClaimPreserves
<1>6. CASE \E key \in KeyArgs, agent \in Agents, force \in BOOLEAN :
             ReleaseClaim(key, agent, force)
  BY <1>6, ReleasePreserves
<1>7. CASE UNCHANGED vars
  BY <1>7 DEF vars, IInv, TypeOK, KeysSequential, ParentsOlder, LinksWellFormed,
     ClaimFieldsAgree, WorklogChronological
<1>8. QED
  BY <1>1, <1>2, <1>3, <1>4, <1>5, <1>6, <1>7 DEF Next

-------------------------------------------------------------------------------
(* The invariants of TicketStore, for any number of projects, titles, agents,  *)
(* tickets and comments, any TTL and any resolution of the stored times.       *)

\* Every state satisfies all the invariants at once.
THEOREM Invariance == Spec => []IInv
<1>1. Init => IInv
  BY InitEstablishes
<1>2. IInv /\ [Next]_vars => IInv'
  BY StepPreserves
<1>3. QED
  BY <1>1, <1>2, PTL DEF Spec

\* The tables always hold rows of their types.
THEOREM TypeCorrect == Spec => []TypeOK
<1>1. IInv => TypeOK
  BY DEF IInv
<1>2. QED
  BY <1>1, Invariance, PTL

\* No create, successful or not, skips a key or hands one out twice.
THEOREM KeysNeverCollide == Spec => []KeysSequential
<1>1. IInv => KeysSequential
  BY DEF IInv
<1>2. QED
  BY <1>1, Invariance, PTL

\* Parents are older than their subtasks, so the subtask relation has no cycle.
THEOREM SubtasksFormForest == Spec => []ParentsOlder
<1>1. IInv => ParentsOlder
  BY DEF IInv
<1>2. QED
  BY <1>1, Invariance, PTL

\* Links join two different existing tickets.
THEOREM LinksSound == Spec => []LinksWellFormed
<1>1. IInv => LinksWellFormed
  BY DEF IInv
<1>2. QED
  BY <1>1, Invariance, PTL

\* A holder is recorded exactly when a claim time is.
THEOREM ClaimColumnsAgree == Spec => []ClaimFieldsAgree
<1>1. IInv => ClaimFieldsAgree
  BY DEF IInv
<1>2. QED
  BY <1>1, Invariance, PTL

\* Worklogs read in the order they were written, and updated_at covers them.
THEOREM WorklogInOrder == Spec => []WorklogChronological
<1>1. IInv => WorklogChronological
  BY DEF IInv
<1>2. QED
  BY <1>1, Invariance, PTL

-------------------------------------------------------------------------------
(* What a step may do to a ticket *)

\* A create leaves every row that is there alone: its key is a new one.
LEMMA CreateKeepsRows ==
  ASSUME IInv, NEW k \in DOMAIN tickets,
         NEW project \in Projects, NEW title \in Titles, NEW parent \in RelatedKeys,
         CreateTicket(project, title, parent)
  PROVE  k \in DOMAIN tickets' /\ tickets'[k] = tickets[k]
<1>1. CASE UNCHANGED tickets
  BY <1>1
<1>2. CASE InsertTicket(ProjectName(project), title, parent)
  <2>1. NextKey(ProjectName(project)) = counters[keySequence]
    BY DEF IInv, TypeOK, NextKey, CounterRow
  <2>2. k # counters[keySequence]
    <3>1. counters[keySequence] \in Int
      BY Bounds DEF IInv, TypeOK
    <3>2. QED
      BY <3>1 DEF IInv, KeysSequential
  <2>3. QED
    BY <1>2, <2>1, <2>2 DEF InsertTicket
<1>3. QED
  BY <1>1, <1>2 DEF CreateTicket, Refused, tables

\* The ways the row of an existing ticket can come out of a step.
LEMMA RowSteps ==
  ASSUME IInv, Next, NEW k \in DOMAIN tickets
  PROVE  /\ k \in DOMAIN tickets'
         /\ \/ tickets'[k] = tickets[k]
            \/ tickets'[k] = TouchedRow(k)
            \/ \E change \in Changes :
                 /\ ~MovesIllegally(k, change) /\ ~RenamesToBlank(k, change)
                 /\ tickets'[k] = UpdatedRow(k, change)
            \/ \E agent \in AgentIds, force \in BOOLEAN :
                 /\ ~HeldAgainst(k, agent, force)
                 /\ tickets'[k] = ClaimedRow(k, agent)
                 /\ reply'.op = "claim" /\ reply'.force = force
            \/ \E agent \in AgentIds, force \in BOOLEAN :
                 /\ ~NotYours(k, agent, force)
                 /\ tickets'[k] = UnclaimedRow(k)
                 /\ reply'.op = "release" /\ reply'.agent = agent /\ reply'.force = force
<1>1. ASSUME NEW key \in DOMAIN tickets, NEW row, tickets' = [tickets EXCEPT ![key] = row]
      PROVE  k \in DOMAIN tickets' /\ tickets'[k] = IF k = key THEN row ELSE tickets[k]
  BY <1>1 DEF IInv, TypeOK
<1>2. CASE UNCHANGED tickets
  BY <1>2
<1>3. ASSUME NEW project \in Projects, NEW title \in Titles, NEW parent \in RelatedKeys,
             CreateTicket(project, title, parent)
      PROVE  k \in DOMAIN tickets' /\ tickets'[k] = tickets[k]
  BY <1>3, CreateKeepsRows
<1>4. ASSUME NEW key \in KeyArgs, NEW change \in Changes, UpdateTicket(key, change)
      PROVE  \/ UNCHANGED tickets
             \/ /\ key \in DOMAIN tickets
                /\ ~MovesIllegally(key, change) /\ ~RenamesToBlank(key, change)
                /\ tickets' = [tickets EXCEPT ![key] = UpdatedRow(key, change)]
  BY <1>4 DEF UpdateTicket, Refused, tables
<1>5. ASSUME NEW key \in KeyArgs, NEW blankBody \in BOOLEAN, AddComment(key, blankBody)
      PROVE  \/ UNCHANGED tickets
             \/ key \in DOMAIN tickets /\ tickets' = [tickets EXCEPT ![key] = TouchedRow(key)]
  BY <1>5 DEF AddComment, Refused, tables
<1>6. ASSUME NEW key \in KeyArgs, NEW agentArg \in Agents, NEW force \in BOOLEAN,
             ClaimTicket(key, agentArg, force)
      PROVE  \/ UNCHANGED tickets
             \/ /\ key \in DOMAIN tickets
                /\ ~HeldAgainst(key, AgentId(agentArg), force)
                /\ tickets' = [tickets EXCEPT ![key] = ClaimedRow(key, AgentId(agentArg))]
                /\ reply'.op = "claim" /\ reply'.force = force
  BY <1>6 DEF ClaimTicket, Refused, tables, NoReply
<1>7. ASSUME NEW key \in KeyArgs, NEW agentArg \in Agents, NEW force \in BOOLEAN,
             ReleaseClaim(key, agentArg, force)
      PROVE  \/ UNCHANGED tickets
             \/ /\ key \in DOMAIN tickets
                /\ ~NotYours(key, AgentId(agentArg), force)
                /\ tickets' = [tickets EXCEPT ![key] = UnclaimedRow(key)]
                /\ reply'.op = "release" /\ reply'.agent = AgentId(agentArg)
                /\ reply'.force = force
  BY <1>7 DEF ReleaseClaim, Refused, tables, NoReply
<1>8. CASE Tick
  BY <1>2, <1>8 DEF Tick, tables
<1>9. CASE \E project \in Projects, title \in Titles, parent \in RelatedKeys :
             CreateTicket(project, title, parent)
  BY <1>3, <1>9
<1>10. CASE \E key \in KeyArgs, change \in Updates : UpdateTicket(key, change)
  BY <1>1, <1>2, <1>4, <1>10, UpdatesAreChanges
<1>11. CASE \E key \in KeyArgs, blankBody \in BOOLEAN : AddComment(key, blankBody)
  BY <1>1, <1>2, <1>5, <1>11
<1>12. CASE \E key \in KeyArgs, agent \in Agents, force \in BOOLEAN :
              ClaimTicket(key, agent, force)
  BY <1>1, <1>2, <1>6, <1>12, AgentIdNamed
<1>13. CASE \E key \in KeyArgs, agent \in Agents, force \in BOOLEAN :
              ReleaseClaim(key, agent, force)
  BY <1>1, <1>2, <1>7, <1>13, AgentIdNamed
<1>14. QED
  BY <1>8, <1>9, <1>10, <1>11, <1>12, <1>13 DEF Next

\* Comments are only appended, and the clock is not set back.
LEMMA StepGrows ==
  ASSUME IInv, Next
  PROVE  /\ DOMAIN tickets \subseteq DOMAIN tickets'
         /\ Len(comments) \in Nat /\ DOMAIN comments = 1..Len(comments)
         /\ Len(comments') \in Nat /\ DOMAIN comments' = 1..Len(comments')
         /\ Len(comments) <= Len(comments')
         /\ \A i \in DOMAIN comments : comments'[i] = comments[i]
         /\ now \in Nat /\ now' \in Nat /\ now <= now'
<1> DEFINE Comment == [ticket : Keys, at : 0..MaxTime]
<1>1. IInv'
  BY StepPreserves
<1>2. comments \in Seq(Comment) /\ comments' \in Seq(Comment)
  BY <1>1 DEF IInv, TypeOK
<1>3. now \in Nat /\ now' \in Nat
  BY <1>1, Bounds DEF IInv, TypeOK
<1>4. DOMAIN tickets \subseteq DOMAIN tickets'
  BY RowSteps
<1>5. (comments' = comments) \/ \E entry \in Comment : comments' = Append(comments, entry)
  <2>1. CASE \E key \in KeyArgs, blankBody \in BOOLEAN : AddComment(key, blankBody)
    <3>1. PICK key \in KeyArgs, blankBody \in BOOLEAN : AddComment(key, blankBody)
      BY <2>1
    <3>2. key \in DOMAIN tickets => [ticket |-> key, at |-> rfc3339(now)] \in Comment
      BY StampNow DEF IInv, TypeOK
    <3>3. QED
      BY <3>1, <3>2 DEF AddComment, Refused, tables
  <2>2. CASE ~\E key \in KeyArgs, blankBody \in BOOLEAN : AddComment(key, blankBody)
    <3>1. CASE Tick
      BY <3>1 DEF Tick, tables
    <3>2. CASE \E project \in Projects, title \in Titles, parent \in RelatedKeys :
                 CreateTicket(project, title, parent)
      BY <3>2 DEF CreateTicket, InsertTicket, Refused, tables
    <3>3. CASE \E key \in KeyArgs, change \in Updates : UpdateTicket(key, change)
      BY <3>3 DEF UpdateTicket, Refused, tables
    <3>4. CASE \E key \in KeyArgs, agent \in Agents, force \in BOOLEAN :
                 ClaimTicket(key, agent, force) \/ ReleaseClaim(key, agent, force)
      BY <3>4 DEF ClaimTicket, ReleaseClaim, Refused, tables
    <3>5. QED
      BY <2>2, <3>1, <3>2, <3>3, <3>4 DEF Next
  <2>3. QED
    BY <2>1, <2>2
<1>6. now <= now'
  <2>1. CASE Tick
    BY <1>3, <2>1, Bounds DEF Tick
  <2>2. CASE ~Tick
    <3>1. ASSUME NEW project, NEW title, NEW parent, CreateTicket(project, title, parent)
          PROVE  now' = now
      <4>1. CASE InsertTicket(ProjectName(project), title, parent)
        BY <4>1 DEF InsertTicket
      <4>2. CASE ~InsertTicket(ProjectName(project), title, parent)
        BY <3>1, <4>2, Zenon DEF CreateTicket, Refused
      <4>3. QED
        BY <4>1, <4>2
    <3>2. ASSUME NEW key, NEW change, UpdateTicket(key, change) PROVE now' = now
      BY <3>2 DEF UpdateTicket, Refused
    <3>3. ASSUME NEW key, NEW blankBody, AddComment(key, blankBody) PROVE now' = now
      BY <3>3 DEF AddComment, Refused
    <3>4. ASSUME NEW key, NEW agent, NEW force,
                 ClaimTicket(key, agent, force) \/ ReleaseClaim(key, agent, force)
          PROVE  now' = now
      BY <3>4 DEF ClaimTicket, ReleaseClaim, Refused
    <3>5. now' = now
      BY <2>2, <3>1, <3>2, <3>3, <3>4 DEF Next
    <3>6. QED
      BY <1>3, <3>5
  <2>3. QED
    BY <2>1, <2>2
<1> HIDE DEF Comment
<1>7. /\ Len(comments) <= Len(comments')
      /\ \A i \in DOMAIN comments : comments'[i] = comments[i]
  BY <1>2, <1>5, AppendProperties, LenProperties
<1>8. QED
  BY <1>2, <1>3, <1>4, <1>6, <1>7, LenProperties

\* The terminal statuses are those the idempotency query of CreateTicket names.
LEMMA TerminalStatuses ==
  \A s \in allStatuses : /\ IsTerminal(s) <=> s \in {Done, WontDo}
                         /\ \A to : CanTransition(s, to) => ~IsTerminal(s)
BY DEF IsTerminal, CanTransition, transitions, allStatuses, Backlog, Todo, InProgress,
   InReview, Blocked, Done, WontDo

\* What a step does to project, parent, status and claim of an existing ticket.
LEMMA ColumnSteps ==
  ASSUME IInv, Next, NEW k \in DOMAIN tickets
  PROVE  LET old == tickets[k]
             new == tickets'[k]
         IN  /\ k \in DOMAIN tickets' /\ old \in Row /\ new \in Row
             /\ new.project = old.project
             /\ new.status # old.status =>
                  /\ CanTransition(old.status, new.status)
                  /\ IsTerminal(new.status) => new.claimedBy = NoAgent
             /\ new.claimedBy \notin {old.claimedBy, NoAgent} =>
                  \E force \in BOOLEAN :
                    /\ reply'.op = "claim" /\ reply'.force = force
                    /\ ~HeldAgainst(k, new.claimedBy, force)
             /\ (new.claimedBy = NoAgent /\ old.claimedBy # NoAgent) =>
                  \/ new.status # old.status /\ IsTerminal(new.status)
                  \/ reply'.force
                  \/ reply'.op = "release" /\ reply'.agent = old.claimedBy
<1> DEFINE old == tickets[k]
           new == tickets'[k]
<1>1. old \in Row /\ k \in DOMAIN tickets' /\ new \in Row
  <2>1. IInv'
    BY StepPreserves
  <2>2. QED
    BY <2>1, RowFacts, RowSteps DEF IInv, TypeOK
<1>2. CASE new = old
  BY <1>1, <1>2
<1>3. CASE new = TouchedRow(k)
  BY <1>1, <1>3 DEF TouchedRow, Row
<1>4. ASSUME NEW change \in Changes,
             ~MovesIllegally(k, change), ~RenamesToBlank(k, change),
             new = UpdatedRow(k, change)
      PROVE  /\ new.project = old.project
             /\ new.status # old.status =>
                  /\ CanTransition(old.status, new.status)
                  /\ IsTerminal(new.status) => new.claimedBy = NoAgent
             /\ new.claimedBy \in {old.claimedBy, NoAgent}
             /\ (new.claimedBy = NoAgent /\ old.claimedBy # NoAgent) =>
                  new.status # old.status /\ IsTerminal(new.status)
  <2>1. new.project = old.project
    BY <1>1, <1>4 DEF UpdatedRow, Row
  <2>2. /\ new.status = IF Moves(k, change) THEN change.status ELSE old.status
        /\ new.claimedBy = IF DropsClaim(k, change) THEN NoAgent ELSE old.claimedBy
    BY <1>4, UpdatedRowFacts
  <2>3. Moves(k, change) => CanTransition(old.status, change.status)
    BY <1>4 DEF MovesIllegally, ValidTransition, Moves
  <2>4. QED
    BY <2>1, <2>2, <2>3 DEF Moves, DropsClaim
<1>5. ASSUME NEW agent \in AgentIds, NEW force \in BOOLEAN,
             ~HeldAgainst(k, agent, force), new = ClaimedRow(k, agent),
             reply'.op = "claim", reply'.force = force
      PROVE  /\ new.project = old.project /\ new.status = old.status
             /\ new.claimedBy # NoAgent
             /\ \E f \in BOOLEAN : /\ reply'.op = "claim" /\ reply'.force = f
                                   /\ ~HeldAgainst(k, new.claimedBy, f)
  <2>1. agent # NoAgent
    BY EmptyStrings DEF AgentIds
  <2>2. new.claimedBy = agent /\ new.project = old.project /\ new.status = old.status
    BY <1>1, <1>5 DEF ClaimedRow, Row
  <2>3. QED
    BY <1>5, <2>1, <2>2
<1>6. ASSUME NEW agent \in AgentIds, NEW force \in BOOLEAN,
             ~NotYours(k, agent, force), new = UnclaimedRow(k),
             reply'.op = "release", reply'.agent = agent, reply'.force = force
      PROVE  /\ new.project = old.project /\ new.status = old.status
             /\ new.claimedBy = NoAgent
             /\ old.claimedBy # NoAgent =>
                  reply'.force \/ (reply'.op = "release" /\ reply'.agent = old.claimedBy)
  BY <1>1, <1>6 DEF UnclaimedRow, NotYours, Row
<1>7. QED
  BY <1>1, <1>2, <1>3, <1>4, <1>5, <1>6, RowSteps

-------------------------------------------------------------------------------
(* The action properties of TicketStore *)

\* A claim is turned away only by an active claim of another agent.
THEOREM ExpiredClaimsAreFree == Spec => ExpiredClaimsYield
<1> DEFINE Yields == now' = now /\ reply'.op = "claim" /\ reply'.out = "claimed" =>
                       LET t == tickets[reply'.key]
                       IN  /\ t.claimedBy \notin {NoAgent, reply'.agent}
                           /\ now < t.claimedAt + ClaimTTL
<1>1. ASSUME IInv, Next PROVE Yields
  <2>1. CASE Tick
    <3>1. now' # now
      BY <1>1, <2>1, StampNow, Bounds DEF Tick
    <3>2. QED
      BY <3>1
  <2>2. ASSUME NEW project \in Projects, NEW title \in Titles, NEW parent \in RelatedKeys,
               CreateTicket(project, title, parent)
        PROVE  Yields
    <3>1. reply'.op = "create"
      BY <2>2 DEF CreateTicket, InsertTicket, Refused, NoReply
    <3>2. QED
      BY <3>1
  <2>3. ASSUME NEW key \in KeyArgs, NEW change \in Updates, UpdateTicket(key, change)
        PROVE  Yields
    <3>1. reply'.op = "update"
      BY <2>3 DEF UpdateTicket, Refused, NoReply
    <3>2. QED
      BY <3>1
  <2>4. ASSUME NEW key \in KeyArgs, NEW blankBody \in BOOLEAN, AddComment(key, blankBody)
        PROVE  Yields
    <3>1. reply'.op = "comment"
      BY <2>4 DEF AddComment, Refused, NoReply
    <3>2. QED
      BY <3>1
  <2>5. ASSUME NEW key \in KeyArgs, NEW agent \in Agents, NEW force \in BOOLEAN,
               ClaimTicket(key, agent, force), reply'.out = "claimed"
        PROVE  Yields
    <3>1. /\ key \in DOMAIN tickets
          /\ HeldAgainst(key, AgentId(agent), force)
          /\ reply'.key = key /\ reply'.agent = AgentId(agent)
      BY <2>5 DEF ClaimTicket, Refused, NoReply
    <3>2. /\ tickets[key].claimedBy \notin {NoAgent, AgentId(agent)}
          /\ tickets[key].claimedAt # NoTime
          /\ now - tickets[key].claimedAt < ClaimTTL
      BY <3>1 DEF HeldAgainst, ClaimActiveAt
    <3>3. tickets[key].claimedAt \in 0..MaxTime
      BY <1>1, <3>1, <3>2, RowFacts DEF Row
    <3>4. now < tickets[key].claimedAt + ClaimTTL
      BY <1>1, <3>2, <3>3, StampNow, ClockUnits, Bounds
    <3>5. QED
      BY <3>1, <3>2, <3>4
  <2>6. ASSUME NEW key \in KeyArgs, NEW agent \in Agents, NEW force \in BOOLEAN,
               ReleaseClaim(key, agent, force)
        PROVE  Yields
    <3>1. reply'.op = "release"
      BY <2>6 DEF ReleaseClaim, Refused, NoReply
    <3>2. QED
      BY <3>1
  <2>7. QED
    BY <1>1, <2>1, <2>2, <2>3, <2>4, <2>5, <2>6 DEF Next
<1>2. ASSUME IInv, [Next]_vars PROVE [Yields]_vars
  BY <1>1, <1>2
<1>3. QED
  BY <1>2, Invariance, PTL DEF Spec, ExpiredClaimsYield

\* A ticket that reached done or wont_do never leaves it.
THEOREM FinalityHolds == Spec => TerminalIsFinal
<1>1. ASSUME IInv, [Next]_vars
      PROVE  [\A k \in DOMAIN tickets :
                ~IsOpen(tickets[k]) => tickets'[k].status = tickets[k].status]_vars
  <2>1. CASE UNCHANGED vars
    BY <2>1
  <2>2. CASE Next
    BY <1>1, <2>2, ColumnSteps, TerminalStatuses DEF IsOpen, Row
  <2>3. QED
    BY <1>1, <2>1, <2>2
<1>2. QED
  BY <1>1, Invariance, PTL DEF Spec, TerminalIsFinal

\* The move that closes a ticket clears its claim, whoever holds it.
THEOREM ClosingReleasesHolds == Spec => ClosingReleases
<1>1. ASSUME IInv, [Next]_vars
      PROVE  [\A k \in DOMAIN tickets :
                IsOpen(tickets[k]) /\ ~IsOpen(tickets'[k])
                  => tickets'[k].claimedBy = NoAgent]_vars
  <2>1. CASE UNCHANGED vars
    BY <2>1
  <2>2. CASE Next
    BY <1>1, <2>2, ColumnSteps DEF IsOpen
  <2>3. QED
    BY <1>1, <2>1, <2>2
<1>2. QED
  BY <1>1, Invariance, PTL DEF Spec, ClosingReleases

\* A claim ends by force, by its holder, with the ticket, or after its TTL.
THEOREM ClaimsAreSafe == Spec => ClaimsNotStolen
<1> DEFINE Kept(k) ==
      LET old == tickets[k]
          new == tickets'[k]
      IN  old.claimedBy \notin {NoAgent, new.claimedBy} =>
            \/ reply'.force
            \/ reply'.op = "release" /\ reply'.agent = old.claimedBy
            \/ new.claimedBy = NoAgent /\ IsOpen(old) /\ ~IsOpen(new)
            \/ reply'.op = "claim" /\ now >= old.claimedAt + ClaimTTL
<1>1. ASSUME IInv, Next, NEW k \in DOMAIN tickets PROVE Kept(k)
  <2> DEFINE old == tickets[k]
             new == tickets'[k]
  <2>1. SUFFICES ASSUME old.claimedBy \notin {NoAgent, new.claimedBy} PROVE Kept(k)
    OBVIOUS
  <2>2. CASE new.claimedBy = NoAgent
    BY <1>1, <2>1, <2>2, ColumnSteps, TerminalStatuses DEF IsOpen, Row
  <2>3. CASE new.claimedBy # NoAgent
    <3>1. PICK force \in BOOLEAN : /\ reply'.op = "claim" /\ reply'.force = force
                                   /\ ~HeldAgainst(k, new.claimedBy, force)
      BY <1>1, <2>1, <2>3, ColumnSteps
    <3>2. CASE ~force
      <4>1. ~ClaimActiveAt(old, now)
        BY <2>1, <3>1, <3>2 DEF HeldAgainst
      <4>2. old.claimedAt # NoTime /\ old.claimedAt \in 0..MaxTime
        BY <1>1, <2>1, RowFacts DEF Row
      <4>3. ~(now - old.claimedAt < ClaimTTL)
        BY <2>1, <4>1, <4>2 DEF ClaimActiveAt
      <4>4. now >= old.claimedAt + ClaimTTL
        BY <1>1, <4>2, <4>3, StampNow, ClockUnits, Bounds
      <4>5. QED
        BY <3>1, <4>4
    <3>3. QED
      BY <3>1, <3>2
  <2>4. QED
    BY <2>2, <2>3
<1>2. ASSUME IInv, [Next]_vars PROVE [\A k \in DOMAIN tickets : Kept(k)]_vars
  BY <1>1, <1>2
<1>3. QED
  BY <1>2, Invariance, PTL DEF Spec, ClaimsNotStolen

\* A ticket that appears in a step is the one an insert put there, in todo, and
\* no open ticket of its project had its title; nothing else changes then.
LEMMA NewTicketStep ==
  ASSUME IInv, Next, NEW k \in DOMAIN tickets' \ DOMAIN tickets
  PROVE  /\ k \notin DOMAIN tickets
         /\ DOMAIN tickets' = DOMAIN tickets \cup {k}
         /\ \A j \in DOMAIN tickets : j < k /\ tickets'[j] = tickets[j]
         /\ OpenDuplicates(tickets'[k].project, tickets'[k].title) = {}
         /\ tickets'[k].status = Todo /\ tickets'[k].claimedBy = NoAgent
<1>1. ASSUME NEW key \in DOMAIN tickets, NEW row, tickets' = [tickets EXCEPT ![key] = row]
      PROVE  DOMAIN tickets' = DOMAIN tickets
  BY <1>1
<1>2. DOMAIN tickets' # DOMAIN tickets
  OBVIOUS
<1>3. ~Tick
  BY <1>2 DEF Tick, tables
<1>4. \A key \in KeyArgs, change \in Updates : ~UpdateTicket(key, change)
  BY <1>1, <1>2 DEF UpdateTicket, Refused, tables
<1>5. \A key \in KeyArgs, blankBody \in BOOLEAN : ~AddComment(key, blankBody)
  BY <1>1, <1>2 DEF AddComment, Refused, tables
<1>6. \A key \in KeyArgs, agent \in Agents, force \in BOOLEAN : ~ClaimTicket(key, agent, force)
  BY <1>1, <1>2 DEF ClaimTicket, Refused, tables
<1>7. \A key \in KeyArgs, agent \in Agents, force \in BOOLEAN : ~ReleaseClaim(key, agent, force)
  BY <1>1, <1>2 DEF ReleaseClaim, Refused, tables
<1>8. PICK projectArg \in Projects, title \in Titles, parent \in RelatedKeys :
        CreateTicket(projectArg, title, parent)
  BY <1>3, <1>4, <1>5, <1>6, <1>7 DEF Next
<1> DEFINE project == ProjectName(projectArg)
           key == NextKey(project)
<1>9. OpenDuplicates(project, title) = {} /\ InsertTicket(project, title, parent)
  BY <1>2, <1>8 DEF CreateTicket, Refused, tables
<1>10. tickets' = [j \in DOMAIN tickets \cup {key} |->
                     IF j = key THEN NewRow(project, title, parent) ELSE tickets[j]]
  BY <1>9 DEF InsertTicket
<1>11. key \in Int /\ DOMAIN tickets = 1..(key - 1)
  <2>1. key = counters[keySequence]
    BY DEF IInv, TypeOK, NextKey, CounterRow
  <2>2. QED
    BY <2>1, Bounds DEF IInv, TypeOK, KeysSequential
<1> HIDE DEF key
<1>12. k = key
  BY <1>10
<1>13. /\ tickets'[k].project = project /\ tickets'[k].title = title
       /\ tickets'[k].status = Todo /\ tickets'[k].claimedBy = NoAgent
  BY <1>10, <1>12 DEF NewRow
<1>14. QED
  BY <1>9, <1>10, <1>11, <1>12, <1>13

\* Two open tickets that share project and title come to do so by a new title of
\* one that was there before.
LEMMA TwinStep ==
  ASSUME IInv, Next, NEW p \in Twins' \ Twins
  PROVE  \E k \in {p[1], p[2]} \cap DOMAIN tickets : tickets'[k].title # tickets[k].title
<1> DEFINE a == p[1]
           b == p[2]
           Renamed == \E k \in {a, b} \cap DOMAIN tickets : tickets'[k].title # tickets[k].title
<1>1. /\ p = <<a, b>>
      /\ a \in DOMAIN tickets' /\ b \in DOMAIN tickets' /\ a < b
      /\ IsOpen(tickets'[a]) /\ IsOpen(tickets'[b])
      /\ tickets'[a].project = tickets'[b].project
      /\ tickets'[a].title = tickets'[b].title
  BY DEF Twins, IsOpen
<1>2. SUFFICES ASSUME ~Renamed PROVE FALSE
  OBVIOUS
<1> HIDE DEF a, b
<1>3. \A k \in {a, b} \cap DOMAIN tickets : tickets'[k].title = tickets[k].title
  BY <1>2 DEF a, b
<1>4. ASSUME NEW k \in {a, b} \cap DOMAIN tickets
      PROVE  IsOpen(tickets[k]) /\ tickets'[k].project = tickets[k].project
  <2>1. tickets'[k].project = tickets[k].project
    BY ColumnSteps
  <2>2. /\ tickets[k].status \in allStatuses
        /\ tickets'[k].status # tickets[k].status =>
             CanTransition(tickets[k].status, tickets'[k].status)
    BY ColumnSteps DEF Row
  <2>3. ~IsTerminal(tickets'[k].status)
    BY <1>1 DEF IsOpen
  <2>4. QED
    BY <2>1, <2>2, <2>3, TerminalStatuses DEF IsOpen
<1>5. CASE a \in DOMAIN tickets /\ b \in DOMAIN tickets
  <2>1. p \in Twins
    BY <1>1, <1>3, <1>4, <1>5 DEF Twins
  <2>2. QED
    BY <2>1
<1>6. CASE b \notin DOMAIN tickets
  <2>1. /\ DOMAIN tickets' = DOMAIN tickets \cup {b}
        /\ OpenDuplicates(tickets'[b].project, tickets'[b].title) = {}
    BY <1>1, <1>6, NewTicketStep
  <2>2. a \in DOMAIN tickets
    <3>1. a \in Int
      <4>1. IInv'
        BY StepPreserves
      <4>2. QED
        BY <1>1, <4>1 DEF IInv, TypeOK, Keys
    <3>2. a # b
      BY <1>1, <3>1
    <3>3. QED
      BY <1>1, <2>1, <3>2
  <2>3. tickets[a].status \in allStatuses /\ ~IsTerminal(tickets[a].status)
    BY <1>4, <2>2, RowFacts DEF IsOpen, Row
  <2>4. a \in OpenDuplicates(tickets'[b].project, tickets'[b].title)
    BY <1>1, <1>3, <1>4, <2>2, <2>3, TerminalStatuses DEF OpenDuplicates
  <2>5. QED
    BY <2>1, <2>4
<1>7. CASE a \notin DOMAIN tickets
  <2>1. DOMAIN tickets' = DOMAIN tickets \cup {a} /\ \A j \in DOMAIN tickets : j < a
    BY <1>1, <1>7, NewTicketStep
  <2>2. a \in Int /\ b \in Int
    <3>1. IInv'
      BY StepPreserves
    <3>2. QED
      BY <1>1, <3>1 DEF IInv, TypeOK, Keys
  <2>3. b \in DOMAIN tickets
    BY <1>1, <2>1, <2>2
  <2>4. QED
    BY <1>1, <2>1, <2>2, <2>3
<1>8. QED
  BY <1>5, <1>6, <1>7

\* Two open tickets of a project share a title only after a rename.
THEOREM TwinsNeedRename == Spec => TwinsOnlyByRename
<1>1. ASSUME IInv, [Next]_vars
      PROVE  [\A p \in Twins' \ Twins :
                \E k \in {p[1], p[2]} \cap DOMAIN tickets :
                  tickets'[k].title # tickets[k].title]_vars
  BY <1>1, TwinStep
<1>2. QED
  BY <1>1, Invariance, PTL DEF Spec, TwinsOnlyByRename

-------------------------------------------------------------------------------
(* Sets of numbers, for the proofs of modules that extend TicketStore *)

\* A set of natural numbers has a least element: what the proofs do induction with.
LEMMA LeastNat ==
  ASSUME NEW S \in SUBSET Nat, S # {}
  PROVE  \E x \in S : \A y \in S : x <= y
<1> DEFINE Below == OpToRel(<, Nat)
<1>1. IsWellFoundedOn(Below, Nat)
  BY NatLessThanWellFounded
<1>2. \A a, b \in Nat : a < b => <<a, b>> \in Below
  BY DEF OpToRel
<1> HIDE DEF Below
<1>3. PICK x \in S : \A y \in S : <<y, x>> \notin Below
  BY <1>1, WFMin
<1>4. \A y \in S : ~(y < x)
  BY <1>2, <1>3
<1>5. QED
  BY <1>4

\* One with an upper bound has a greatest.
LEMMA GreatestUpTo ==
  ASSUME NEW n \in Nat, NEW S \in SUBSET (1..n), S # {}
  PROVE  \E x \in S : \A y \in S : y <= x
<1> DEFINE Mirrored == {i \in 0..n : n - i \in S}
<1>1. Mirrored # {}
  <2>1. PICK x \in S : TRUE
    OBVIOUS
  <2>2. n - x \in Mirrored
    BY <2>1
  <2>3. QED
    BY <2>2
<1>2. Mirrored \in SUBSET Nat
  OBVIOUS
<1>3. PICK i \in Mirrored : \A j \in Mirrored : i <= j
  <2> HIDE DEF Mirrored
  <2>1. QED
    BY <1>1, <1>2, LeastNat
<1>4. ASSUME NEW y \in S PROVE y <= n - i
  <2>1. n - y \in Mirrored
    OBVIOUS
  <2>2. QED
    BY <1>3, <2>1
<1>5. QED
  BY <1>3, <1>4

\* A part of the tickets is finite and no larger than their bound.
LEMMA TicketsFinite ==
  ASSUME IInv, NEW S \in SUBSET DOMAIN tickets
  PROVE  IsFiniteSet(S) /\ Cardinality(S) \in 0..MaxTickets
<1>1. S \subseteq 1..MaxTickets /\ MaxTickets \in Nat
  BY Bounds DEF IInv, TypeOK, Keys
<1>2. IsFiniteSet(1..MaxTickets) /\ Cardinality(1..MaxTickets) = MaxTickets
  BY <1>1, FS_Interval
<1>3. IsFiniteSet(S) /\ Cardinality(S) <= MaxTickets
  BY <1>1, <1>2, FS_Subset
<1>4. QED
  BY <1>1, <1>3, FS_CardinalityType

===============================================================================
