----------------------------- MODULE StoreTxProofs -----------------------------
(***************************************************************************)
(* Proofs about StoreTx: the statements of a transaction, its rollbacks    *)
(* and its interruptions implement TicketStore, where an operation is one  *)
(* step, and what TicketStoreProofs proves of that step holds of them.     *)
(***************************************************************************)
EXTENDS StoreTx, TLAPS

\* The theorems of TicketStore, at the time the operation has read.
P == INSTANCE TicketStoreProofs WITH now <- seen

\* The committed tables are what TicketStore says at the time seen, and the open
\* transaction is a prefix of its operation.
TxIInv ==
  /\ P!IInv
  /\ now \in 0..MaxTime
  /\ CopyTracksTables

-------------------------------------------------------------------------------
(* What every statement does *)

LEMMA OpenTransaction ==
  ASSUME TxIInv, tx.step # "idle"
  PROVE  /\ tx # Idle
         /\ tx = [step |-> tx.step, call |-> tx.call, stamp |-> tx.stamp,
                  answer |-> tx.answer, work |-> tx.work]
         /\ tx.call \in CallsMade /\ ~IsBlank(tx.call)
         /\ tx.stamp \in {NoTime} \cup 0..now
         /\ seen = IF tx.stamp = NoTime THEN now ELSE tx.stamp
         /\ now \in 0..MaxTime /\ now # NoTime
BY Bounds DEF TxIInv, CopyTracksTables, Idle, seen, NoTime

\* A statement that is not the last changes the transaction alone.
LEMMA ContinueStep ==
  ASSUME TxIInv, tx.step # "idle",
         NEW step, step # "idle", NEW work, NEW stamp, NEW answer,
         stamp = tx.stamp \/ (tx.stamp = NoTime /\ stamp = now),
         Continue(step, work, stamp, answer)
  PROVE  /\ tx' = [step |-> step, call |-> tx.call, stamp |-> stamp,
                   answer |-> answer, work |-> work]
         /\ UNCHANGED <<tickets, counters, links, comments, now, reply>>
         /\ UNCHANGED Store!vars
         /\ tx'.call.op = "create"  /\ CreateSoFar'  => CopyTracksTables'
         /\ tx'.call.op = "update"  /\ UpdateSoFar'  => CopyTracksTables'
         /\ tx'.call.op = "comment" /\ CommentSoFar' => CopyTracksTables'
         /\ tx'.call.op \in {"claim", "release"} /\ HolderSoFar' => CopyTracksTables'
<1>1. /\ tx' = [step |-> step, call |-> tx.call, stamp |-> stamp,
                answer |-> answer, work |-> work]
      /\ UNCHANGED <<tickets, counters, links, comments, now, reply>>
  BY OpenTransaction DEF Continue, vars
<1>2. UNCHANGED Store!vars
  BY <1>1, OpenTransaction DEF Store!vars, seen
<1>3. stamp \in {NoTime} \cup 0..now
  BY OpenTransaction
<1>4. IsBlank(tx.call)' = IsBlank(tx.call)
  BY <1>1 DEF IsBlank
<1>5. QED
  BY <1>1, <1>2, <1>3, <1>4, OpenTransaction DEF CopyTracksTables

\* A statement that refuses ends the operation as TicketStore's refusal does.
LEMMA FailStep ==
  ASSUME TxIInv, tx.step # "idle", NEW out, Fail(out)
  PROVE  /\ CopyTracksTables' /\ now' = now
         /\ Store!Refused(tx.answer, out)
         /\ UNCHANGED seen
<1>1. /\ tx' = [step |-> "ended", call |-> tx.call, stamp |-> tx.stamp,
                answer |-> tx.answer, work |-> tx.work]
      /\ UNCHANGED <<tickets, counters, links, comments, now>>
      /\ reply' = [tx.answer EXCEPT !.out = out]
  BY OpenTransaction DEF Fail, Rollback, tables
<1>2. IsBlank(tx.call)' = IsBlank(tx.call)
  BY <1>1 DEF IsBlank
<1>3. CopyTracksTables'
  BY <1>1, <1>2, OpenTransaction DEF CopyTracksTables
<1>4. UNCHANGED seen
  BY <1>1, OpenTransaction DEF seen
<1>5. QED
  BY <1>1, <1>3, <1>4 DEF Store!Refused, Store!tables

\* The arguments of the call that is being served.
LEMMA CallTypes ==
  ASSUME TxIInv, tx.step # "idle"
  PROVE  /\ tx.call.op = "create" => /\ tx.call.project \in Projects
                                     /\ tx.call.title \in Titles \ {Blank}
                                     /\ tx.call.parent \in RelatedKeys
         /\ tx.call.op = "update" => tx.call.key \in KeyArgs /\ tx.call.change \in Updates
         /\ tx.call.op = "comment" => tx.call.key \in KeyArgs /\ tx.call.blankBody = FALSE
         /\ tx.call.op \in {"claim", "release"} =>
              /\ tx.call.key \in KeyArgs /\ tx.call.agent \in Agents
              /\ tx.call.force \in BOOLEAN
BY OpenTransaction, CallsAreLegal
   DEF Calls, Creates, UpdatesOf, Comments, ClaimCalls, IsBlank

-------------------------------------------------------------------------------
(* CreateTicket *)

LEMMA FindTwinStep ==
  ASSUME TxIInv, FindTwin
  PROVE  CopyTracksTables' /\ now' = now /\ UNCHANGED Store!vars
<1> DEFINE twins == Store!OpenDuplicates(ProjectName(tx.call.project), tx.call.title)
<1>1. tx.step = "begun" /\ tx.call.op = "create"
  BY DEF FindTwin, At
<1>2. Fresh
  BY <1>1, OpenTransaction DEF TxIInv, CopyTracksTables, CreateSoFar
<1>3. Work!OpenDuplicates(ProjectName(tx.call.project), tx.call.title) = twins
  BY <1>2 DEF Fresh, Committed, Copy, Work!OpenDuplicates, Store!OpenDuplicates,
     Work!Done, Work!WontDo, Store!Done, Store!WontDo
<1>4. ASSUME NEW k \in twins, \A twin \in twins : k <= twin,
             Continue("commit", tx.work, NoTime, [tx.answer EXCEPT !.key = k, !.out = "existed"])
      PROVE  CopyTracksTables' /\ now' = now /\ UNCHANGED Store!vars
  <2>1. /\ tx' = [step |-> "commit", call |-> tx.call, stamp |-> NoTime,
                   answer |-> [tx.answer EXCEPT !.key = k, !.out = "existed"], work |-> tx.work]
        /\ UNCHANGED <<tickets, counters, links, comments, now, reply>>
        /\ UNCHANGED Store!vars
        /\ CreateSoFar' => CopyTracksTables'
    BY <1>1, <1>2, <1>4, ContinueStep DEF Fresh
  <2>2. CreateSoFar'
    BY <1>1, <1>2, <1>4, <2>1 DEF CreateSoFar, Fresh, Committed, Copy,
       Store!OpenDuplicates, Store!Done, Store!WontDo
  <2>3. QED
    BY <2>1, <2>2
<1>5. CASE twins = {} /\ Continue("key", tx.work, NoTime, tx.answer)
  <2>1. /\ tx' = [step |-> "key", call |-> tx.call, stamp |-> NoTime,
                   answer |-> tx.answer, work |-> tx.work]
        /\ UNCHANGED <<tickets, counters, links, comments, now, reply>>
        /\ UNCHANGED Store!vars
        /\ CreateSoFar' => CopyTracksTables'
    BY <1>1, <1>2, <1>5, ContinueStep DEF Fresh
  <2>2. CreateSoFar'
    BY <1>1, <1>2, <1>5, <2>1 DEF CreateSoFar, Fresh, Committed, Copy, Answer,
       Store!OpenDuplicates, Store!Done, Store!WontDo
  <2>3. QED
    BY <2>1, <2>2
<1>6. QED
  BY <1>1, <1>3, <1>4, <1>5 DEF FindTwin

LEMMA AllocateKeyStep ==
  ASSUME TxIInv, AllocateKey
  PROVE  CopyTracksTables' /\ now' = now /\ UNCHANGED Store!vars
<1> DEFINE project == ProjectName(tx.call.project)
           row == CounterRow(project)
           key == Store!NextKey(project)
           taken == [r \in DOMAIN counters \cup {row} |-> IF r = row THEN key + 1 ELSE counters[r]]
<1>1. tx.step = "key" /\ tx.call.op = "create"
  BY DEF AllocateKey, At
<1>2. Fresh /\ Store!OpenDuplicates(project, tx.call.title) = {}
  BY <1>1, OpenTransaction DEF TxIInv, CopyTracksTables, CreateSoFar
<1>3. Work!NextKey(project) = key /\ tx.work = Copy(tickets, counters, links, comments)
  BY <1>2 DEF Fresh, Committed, Copy, Work!NextKey, Store!NextKey, Work!CounterRow,
     Store!CounterRow, Work!keySequence, Store!keySequence
<1>4. key <= MaxTickets
      /\ Continue("parent", Copy(tickets, taken, links, comments), NoTime, tx.answer)
  BY <1>3 DEF AllocateKey, Copy
<1>5. /\ tx' = [step |-> "parent", call |-> tx.call, stamp |-> NoTime, answer |-> tx.answer,
                 work |-> Copy(tickets, taken, links, comments)]
      /\ UNCHANGED <<tickets, counters, links, comments, now, reply>>
      /\ UNCHANGED Store!vars
      /\ CreateSoFar' => CopyTracksTables'
  BY <1>1, <1>2, <1>4, ContinueStep DEF Fresh
<1>6. CreateSoFar'
  BY <1>1, <1>2, <1>4, <1>5 DEF CreateSoFar, Fresh, Copy, Answer,
     Store!OpenDuplicates, Store!Done, Store!WontDo, Store!NextKey, Store!CounterRow,
     Store!keySequence, CounterRow, keySequence
<1>7. QED
  BY <1>5, <1>6

LEMMA LookUpParentStep ==
  ASSUME TxIInv, LookUpParent
  PROVE  CopyTracksTables' /\ now' = now /\ [Store!Next]_Store!vars
<1> DEFINE project == ProjectName(tx.call.project)
           key == Store!NextKey(project)
           taken == [r \in DOMAIN counters \cup {CounterRow(project)} |->
                       IF r = CounterRow(project) THEN key + 1 ELSE counters[r]]
<1>1. tx.step = "parent" /\ tx.call.op = "create"
  BY DEF LookUpParent, At
<1>2. /\ Store!OpenDuplicates(project, tx.call.title) = {} /\ key <= MaxTickets
      /\ tx.work = Copy(tickets, taken, links, comments)
      /\ tx.stamp = NoTime /\ tx.answer = Answer(tx.call)
  BY <1>1, OpenTransaction DEF TxIInv, CopyTracksTables, CreateSoFar
<1>3. Work!ParentFound(tx.call.parent) <=> Store!ParentFound(tx.call.parent)
  BY <1>2 DEF Copy, Work!ParentFound, Store!ParentFound, Work!NoKey, Store!NoKey
<1>4. CASE /\ Store!ParentFound(tx.call.parent)
           /\ Continue("insert", tx.work, NoTime, tx.answer)
  <2>1. /\ tx' = [step |-> "insert", call |-> tx.call, stamp |-> NoTime, answer |-> tx.answer,
                   work |-> tx.work]
        /\ UNCHANGED <<tickets, counters, links, comments, now, reply>>
        /\ UNCHANGED Store!vars
        /\ CreateSoFar' => CopyTracksTables'
    BY <1>1, <1>2, <1>4, ContinueStep
  <2>2. CreateSoFar'
    BY <1>1, <1>2, <1>4, <2>1 DEF CreateSoFar, Copy, Answer, Store!OpenDuplicates,
       Store!Done, Store!WontDo, Store!NextKey, Store!CounterRow, Store!keySequence,
       CounterRow, keySequence, Store!ParentFound, Store!NoKey
  <2>3. QED
    BY <2>1, <2>2
<1>5. CASE ~Store!ParentFound(tx.call.parent) /\ Fail("not_found")
  <2>1. /\ CopyTracksTables' /\ now' = now
        /\ Store!Refused(Answer(tx.call), "not_found")
    BY <1>1, <1>2, <1>5, FailStep
  <2>2. /\ tx.call.project \in Projects /\ tx.call.title \in Titles
        /\ tx.call.parent \in RelatedKeys /\ tx.call.title # Blank
    BY <1>1, CallTypes
  <2>3. Store!CreateTicket(tx.call.project, tx.call.title, tx.call.parent)
    BY <1>1, <1>2, <1>5, <2>1, <2>2 DEF Store!CreateTicket, Answer, Store!NoReply, NoReply, 
       Store!ProjectName, ProjectName, NoKey, Store!NoKey
  <2>4. QED
    BY <2>1, <2>2, <2>3 DEF Store!Next
<1>6. QED
  BY <1>1, <1>3, <1>4, <1>5 DEF LookUpParent

LEMMA InsertRowStep ==
  ASSUME TxIInv, InsertRow
  PROVE  CopyTracksTables' /\ now' = now /\ UNCHANGED Store!vars
<1> DEFINE project == ProjectName(tx.call.project)
           key == Store!NextKey(project)
           taken == [r \in DOMAIN counters \cup {CounterRow(project)} |->
                       IF r = CounterRow(project) THEN key + 1 ELSE counters[r]]
           row(at) == [project |-> project, title |-> tx.call.title, status |-> Todo,
                       parent |-> tx.call.parent, claimedBy |-> NoAgent, claimedAt |-> NoTime,
                       updatedAt |-> rfc3339(at)]
           grown == [k \in DOMAIN tickets \cup {key} |-> IF k = key THEN row(now) ELSE tickets[k]]
<1>1. tx.step = "insert" /\ tx.call.op = "create"
  BY DEF InsertRow, At
<1>2. /\ Store!OpenDuplicates(project, tx.call.title) = {} /\ key <= MaxTickets
      /\ Store!ParentFound(tx.call.parent)
      /\ tx.work = Copy(tickets, taken, links, comments)
      /\ tx.stamp = NoTime /\ tx.answer = Answer(tx.call)
  BY <1>1, OpenTransaction DEF TxIInv, CopyTracksTables, CreateSoFar
<1>3. Work!NextKey(project) - 1 = key
  <2>1. key \in Int
    BY Bounds DEF TxIInv, P!IInv, P!TypeOK, Store!NextKey, Store!CounterRow, Store!keySequence,
       P!keySequence
  <2>2. Work!NextKey(project) = key + 1
    BY <1>2 DEF Copy, Work!NextKey, Work!CounterRow, Work!keySequence, CounterRow, keySequence
  <2> QED
    BY <2>1, <2>2
<1>4. Continue("commit", Copy(grown, taken, links, comments), now, [tx.answer EXCEPT !.key = key])
  <2> DEFINE made == NewRow(project, tx.call.title, tx.call.parent)
             added == [k \in DOMAIN tickets \cup {key} |->
                         IF k = key THEN [made EXCEPT !.updatedAt = rfc3339(now)] ELSE tickets[k]]
  <2>1. [made EXCEPT !.updatedAt = rfc3339(now)] = row(now)
    BY DEF NewRow
  <2>2. added = grown
    BY <2>1
  <2>3. [tx.work EXCEPT !.tickets =
           [k \in DOMAIN @ \cup {key} |->
              IF k = key THEN [made EXCEPT !.updatedAt = rfc3339(now)] ELSE @[k]]]
          = Copy(added, taken, links, comments)
    <3> DEFINE stamped == [made EXCEPT !.updatedAt = rfc3339(now)]
    <3> HIDE DEF stamped, taken
    <3>1. [tx.work EXCEPT !.tickets = [k \in DOMAIN @ \cup {key} |-> IF k = key THEN stamped ELSE @[k]]]
            = Copy([k \in DOMAIN tickets \cup {key} |-> IF k = key THEN stamped ELSE tickets[k]],
                   taken, links, comments)
      BY <1>2 DEF Copy
    <3>2. QED
      BY <3>1 DEF stamped
  <2> HIDE DEF added, grown, taken, made, row
  <2>4. QED
    BY <1>3, <2>2, <2>3 DEF InsertRow, ReadClock, made
<1>5. /\ tx' = [step |-> "commit", call |-> tx.call, stamp |-> now,
                 answer |-> [tx.answer EXCEPT !.key = key],
                 work |-> Copy(grown, taken, links, comments)]
      /\ UNCHANGED <<tickets, counters, links, comments, now, reply>>
      /\ UNCHANGED Store!vars
      /\ CreateSoFar' => CopyTracksTables'
  BY <1>1, <1>2, <1>4, ContinueStep
<1>6. CreateSoFar'
  <2>1. seen' = now /\ now # NoTime
    BY <1>1, <1>5, OpenTransaction DEF seen
  <2>2. QED
    BY <1>1, <1>2, <1>5, <2>1 DEF CreateSoFar, Copy, Answer, Store!OpenDuplicates,
       Store!Done, Store!WontDo, Store!NextKey, Store!CounterRow, Store!keySequence,
       CounterRow, keySequence, Store!ParentFound, Store!NoKey, Store!NewRow, Store!Todo, Todo,
       Store!NoTime, NoTime, Store!rfc3339, rfc3339
<1>7. QED
  BY <1>5, <1>6
-------------------------------------------------------------------------------
(* UpdateTicket *)

\* Over a copy with the committed rows, the checks of an update are the store's.
LEMMA UpdateChecks ==
  ASSUME tx.work = Copy(tickets, counters, links, comments), NEW key, NEW change
  PROVE  /\ Work!ChangesRow(key, change) <=> Store!ChangesRow(key, change)
         /\ Work!MovesIllegally(key, change) <=> Store!MovesIllegally(key, change)
         /\ Work!RenamesToBlank(key, change) <=> Store!RenamesToBlank(key, change)
         /\ Work!UpdatedRow(key, change) = Store!UpdatedRow(key, change)
<1>1. tx.work.tickets = tickets
  BY DEF Copy
<1>2. /\ Work!Moves(key, change) <=> Store!Moves(key, change)
      /\ Work!Renames(key, change) <=> Store!Renames(key, change)
  BY <1>1 DEF Work!Moves, Store!Moves, Work!Renames, Store!Renames
<1>3. Work!ChangesRow(key, change) <=> Store!ChangesRow(key, change)
  BY <1>2 DEF Work!ChangesRow, Store!ChangesRow
<1>4. \A s : Work!IsTerminal(s) <=> Store!IsTerminal(s)
  BY DEF Work!IsTerminal, Store!IsTerminal, Work!transitions, Store!transitions, Work!allStatuses,
     Store!allStatuses, Work!Backlog, Work!Todo, Work!InProgress, Work!InReview, Work!Blocked,
     Work!Done, Work!WontDo, Store!Backlog, Store!Todo, Store!InProgress, Store!InReview,
     Store!Blocked, Store!Done, Store!WontDo
<1>5. \A s, t : Work!ValidTransition(s, t) <=> Store!ValidTransition(s, t)
  BY DEF Work!ValidTransition, Store!ValidTransition, Work!CanTransition, Store!CanTransition,
     Work!transitions, Store!transitions, Work!allStatuses,
     Store!allStatuses, Work!Backlog, Work!Todo, Work!InProgress, Work!InReview, Work!Blocked,
     Work!Done, Work!WontDo, Store!Backlog, Store!Todo, Store!InProgress, Store!InReview,
     Store!Blocked, Store!Done, Store!WontDo
<1>6. Work!DropsClaim(key, change) <=> Store!DropsClaim(key, change)
  BY <1>1, <1>2, <1>4 DEF Work!DropsClaim, Store!DropsClaim
<1>7. Work!UpdatedRow(key, change) = Store!UpdatedRow(key, change)
  BY <1>1, <1>2, <1>3, <1>6, Zenon DEF Work!UpdatedRow, Store!UpdatedRow, Work!rfc3339,
     Store!rfc3339, Work!NoTime, Store!NoTime
<1>8. QED
  BY <1>1, <1>2, <1>3, <1>5, <1>7 DEF Work!MovesIllegally, Store!MovesIllegally,
     Work!RenamesToBlank, Store!RenamesToBlank

\* What an update decides depends on no clock and on the rows alone.
LEMMA UpdateSteady ==
  ASSUME UNCHANGED tickets, tx'.call = tx.call
  PROVE  LET key == tx.call.key
             change == tx.call.change
         IN  /\ Store!ChangesRow(key, change)' <=> Store!ChangesRow(key, change)
             /\ Store!MovesIllegally(key, change)' <=> Store!MovesIllegally(key, change)
             /\ Store!RenamesToBlank(key, change)' <=> Store!RenamesToBlank(key, change)
             /\ Store!NewLinks(key, change)' = Store!NewLinks(key, change)
             /\ Store!LinkError(key, change.blocks)' = Store!LinkError(key, change.blocks)
             /\ Store!LinkError(key, change.relates)' = Store!LinkError(key, change.relates)
             /\ seen' = seen => Store!UpdatedRow(key, change)' = Store!UpdatedRow(key, change)
<1> DEFINE key == tx.call.key
           change == tx.call.change
<1>1. /\ Store!Moves(key, change)' <=> Store!Moves(key, change)
      /\ Store!Renames(key, change)' <=> Store!Renames(key, change)
  BY DEF Store!Moves, Store!Renames
<1>2. Store!ChangesRow(key, change)' <=> Store!ChangesRow(key, change)
  BY <1>1 DEF Store!ChangesRow
<1>3. Store!MovesIllegally(key, change)' <=> Store!MovesIllegally(key, change)
  BY <1>1 DEF Store!MovesIllegally, Store!ValidTransition, Store!CanTransition, Store!transitions,
     Store!allStatuses, Store!Backlog, Store!Todo, Store!InProgress, Store!InReview,
     Store!Blocked, Store!Done, Store!WontDo
<1>4. Store!RenamesToBlank(key, change)' <=> Store!RenamesToBlank(key, change)
  BY <1>1 DEF Store!RenamesToBlank
<1>5. /\ Store!NewLinks(key, change)' = Store!NewLinks(key, change)
      /\ Store!LinkError(key, change.blocks)' = Store!LinkError(key, change.blocks)
      /\ Store!LinkError(key, change.relates)' = Store!LinkError(key, change.relates)
  BY DEF Store!NewLinks, Store!LinkError, Store!NoKey
<1>6. Store!DropsClaim(key, change)' <=> Store!DropsClaim(key, change)
  BY <1>1 DEF Store!DropsClaim, Store!IsTerminal, Store!transitions,
     Store!allStatuses, Store!Backlog, Store!Todo, Store!InProgress, Store!InReview,
     Store!Blocked, Store!Done, Store!WontDo
<1>7. seen' = seen => Store!UpdatedRow(key, change)' = Store!UpdatedRow(key, change)
  BY <1>1, <1>2, <1>6, Zenon DEF Store!UpdatedRow, Store!rfc3339, Store!NoTime
<1>8. QED
  BY <1>2, <1>3, <1>4, <1>5, <1>7

\* The row of an update read at one instant and stamped at another.
LEMMA UpdatedRowStamp ==
  ASSUME TxIInv, NEW key \in DOMAIN tickets, NEW change, Store!ChangesRow(key, change)
  PROVE  Store!UpdatedRow(key, change).updatedAt = rfc3339(seen)
BY DEF TxIInv, P!IInv, P!TypeOK, P!Row, Store!UpdatedRow, Store!rfc3339, rfc3339

\* An update that changes no column writes back the row it has read.
LEMMA UnchangedRow ==
  ASSUME TxIInv, NEW key \in DOMAIN tickets, NEW change, ~Store!ChangesRow(key, change)
  PROVE  /\ Store!UpdatedRow(key, change) = tickets[key]
         /\ [tickets EXCEPT ![key] = Store!UpdatedRow(key, change)] = tickets
<1>1. tickets \in [DOMAIN tickets -> P!Row]
  BY DEF TxIInv, P!IInv, P!TypeOK
<1>2. ~Store!Moves(key, change) /\ ~Store!Renames(key, change) /\ ~Store!DropsClaim(key, change)
  BY DEF Store!ChangesRow, Store!DropsClaim
<1>3. tickets[key] \in P!Row
  BY <1>1
<1>4. Store!UpdatedRow(key, change) = tickets[key]
  BY <1>2, <1>3 DEF Store!UpdatedRow, P!Row
<1>5. QED
  BY <1>1, <1>4

LEMMA ReadAndValidateStep ==
  ASSUME TxIInv, ReadAndValidate
  PROVE  CopyTracksTables' /\ now' = now /\ [Store!Next]_Store!vars
<1> DEFINE key == tx.call.key
           change == tx.call.change
           out == IF Store!ChangesRow(key, change) \/ Store!NewLinks(key, change) # {}
                  THEN "ok" ELSE "unchanged"
           legal == /\ key \in DOMAIN tickets
                    /\ ~Store!MovesIllegally(key, change) /\ ~Store!RenamesToBlank(key, change)
<1>1. tx.step = "begun" /\ tx.call.op = "update"
  BY DEF ReadAndValidate, At
<1>2. Fresh /\ tx.work = Copy(tickets, counters, links, comments)
  BY <1>1, OpenTransaction DEF TxIInv, CopyTracksTables, UpdateSoFar, Fresh, Committed
<1>3. /\ key \in KeyArgs /\ change \in Updates
      /\ tx.work.tickets = tickets
      /\ tx.answer = [Store!NoReply EXCEPT !.op = "update", !.key = key, !.status = change.status]
      /\ Store!NewLinks(key, change) = NewLinks(key, change)
  BY <1>1, <1>2, CallTypes DEF Fresh, Copy, Answer, NoReply, Store!NoReply, NoKey, Store!NoKey,
     NewLinks, Store!NewLinks
<1>4. ASSUME NEW error,
             \/ key \notin DOMAIN tickets /\ error = "not_found"
             \/ /\ key \in DOMAIN tickets /\ Store!MovesIllegally(key, change)
                /\ error = "illegal_move"
             \/ /\ key \in DOMAIN tickets /\ ~Store!MovesIllegally(key, change)
                /\ Store!RenamesToBlank(key, change) /\ error = "empty",
             Fail(error)
      PROVE  CopyTracksTables' /\ now' = now /\ Store!Next
  <2>1. CopyTracksTables' /\ now' = now /\ Store!Refused(tx.answer, error)
    BY <1>1, <1>4, FailStep
  <2>2. Store!UpdateTicket(key, change)
    BY <1>3, <1>4, <2>1 DEF Store!UpdateTicket
  <2>3. QED
    BY <1>3, <2>1, <2>2 DEF Store!Next, Store!KeyArgs, KeyArgs
<1>5. CASE legal /\ Continue("row", tx.work, NoTime, [tx.answer EXCEPT !.out = out])
  <2>1. /\ tx' = [step |-> "row", call |-> tx.call, stamp |-> NoTime,
                   answer |-> [tx.answer EXCEPT !.out = out], work |-> tx.work]
        /\ UNCHANGED <<tickets, counters, links, comments, now, reply>>
        /\ UNCHANGED Store!vars
        /\ UpdateSoFar' => CopyTracksTables'
    BY <1>1, <1>2, <1>5, ContinueStep DEF Fresh
  <2>2. UpdateSoFar'
    BY <1>1, <1>2, <1>5, <2>1, UpdateSteady DEF UpdateSoFar, Fresh, Copy, Answer
  <2>3. QED
    BY <2>1, <2>2
<1>6. QED
  BY <1>1, <1>2, <1>3, <1>4, <1>5, UpdateChecks DEF ReadAndValidate

LEMMA UpdateRowStep ==
  ASSUME TxIInv, UpdateRow
  PROVE  CopyTracksTables' /\ now' = now /\ UNCHANGED Store!vars
<1> DEFINE key == tx.call.key
           change == tx.call.change
           row == [Store!UpdatedRow(key, change) EXCEPT !.updatedAt = rfc3339(now)]
           out == IF Store!ChangesRow(key, change) \/ Store!NewLinks(key, change) # {}
                  THEN "ok" ELSE "unchanged"
<1>1. tx.step = "row" /\ tx.call.op = "update"
  BY DEF UpdateRow, At
<1>2. /\ key \in DOMAIN tickets
      /\ ~Store!MovesIllegally(key, change) /\ ~Store!RenamesToBlank(key, change)
      /\ tx.work = Copy(tickets, counters, links, comments)
      /\ tx.stamp = NoTime
      /\ tx.answer = [Answer(tx.call) EXCEPT !.out = out]
  BY <1>1, OpenTransaction, Zenon DEF TxIInv, CopyTracksTables, UpdateSoFar
<1>3. CASE ~Store!ChangesRow(key, change) /\ Continue("blocks", tx.work, NoTime, tx.answer)
  <2>1. /\ tx' = [step |-> "blocks", call |-> tx.call, stamp |-> NoTime,
                   answer |-> tx.answer, work |-> tx.work]
        /\ UNCHANGED <<tickets, counters, links, comments, now, reply>>
        /\ UNCHANGED Store!vars
        /\ UpdateSoFar' => CopyTracksTables'
    BY <1>1, <1>2, <1>3, ContinueStep
  <2>2. UpdateSoFar'
    BY <1>1, <1>2, <1>3, <2>1, UpdateSteady DEF UpdateSoFar, Copy, Answer
  <2>3. QED
    BY <2>1, <2>2
<1>4. CASE /\ Store!ChangesRow(key, change)
           /\ Continue("blocks", Copy([tickets EXCEPT ![key] = row], counters, links, comments),
                       now, tx.answer)
  <2>1. /\ tx' = [step |-> "blocks", call |-> tx.call, stamp |-> now, answer |-> tx.answer,
                  work |-> Copy([tickets EXCEPT ![key] = row], counters, links, comments)]
        /\ UNCHANGED <<tickets, counters, links, comments, now, reply>>
        /\ UNCHANGED Store!vars
        /\ UpdateSoFar' => CopyTracksTables'
    BY <1>1, <1>2, <1>4, ContinueStep
  <2>2. seen' = seen /\ seen = now /\ now # NoTime
    BY <1>1, <1>2, <2>1, OpenTransaction DEF seen
  <2>3. row = Store!UpdatedRow(key, change)
    <3> DEFINE updated == Store!UpdatedRow(key, change)
    <3>1. updated.updatedAt = rfc3339(now)
      BY <1>2, <1>4, <2>2, UpdatedRowStamp
    <3>2. updated = [updated EXCEPT !.updatedAt = updated.updatedAt]
      BY DEF Store!UpdatedRow
    <3> HIDE DEF updated
    <3>3. QED
      BY <3>1, <3>2 DEF updated
  <2>4. UpdateSoFar'
    BY <1>1, <1>2, <1>4, <2>1, <2>2, <2>3, UpdateSteady DEF UpdateSoFar, Copy, Answer
  <2>5. QED
    BY <2>1, <2>4
<1>5. [tx.work EXCEPT !.tickets[key] = row]
        = Copy([tickets EXCEPT ![key] = row], counters, links, comments)
  BY <1>2 DEF Copy
<1>6. QED
  BY <1>1, <1>2, <1>3, <1>4, <1>5, UpdateChecks DEF UpdateRow, ReadClock

LEMMA AddLinkStep ==
  ASSUME TxIInv,
         NEW step, NEW kind, NEW target, NEW next,
         \/ /\ step = "blocks" /\ kind = "blocks" /\ next = "relates"
            /\ target = tx.call.change.blocks
         \/ /\ step = "relates" /\ kind = "relates" /\ next = "commit"
            /\ target = tx.call.change.relates,
         AddLink(step, kind, target, next)
  PROVE  CopyTracksTables' /\ now' = now /\ [Store!Next]_Store!vars
<1> DEFINE key == tx.call.key
           change == tx.call.change
           written == Store!ChangesRow(key, change)
           rows == IF written THEN [tickets EXCEPT ![key] = Store!UpdatedRow(key, change)]
                   ELSE tickets
           linked(k, t) == IF t # NoKey THEN {<<key, t, k>>} ELSE {}
           before == links \cup IF step = "relates" THEN linked("blocks", change.blocks) ELSE {}
           out == IF Store!ChangesRow(key, change) \/ Store!NewLinks(key, change) # {}
                  THEN "ok" ELSE "unchanged"
<1>1. tx.step = step /\ tx.call.op = "update" /\ step \in {"blocks", "relates"}
  BY DEF AddLink, At
<1>2. /\ key \in DOMAIN tickets
      /\ ~Store!MovesIllegally(key, change) /\ ~Store!RenamesToBlank(key, change)
      /\ step = "relates" => Store!LinkError(key, change.blocks) = "ok"
      /\ tx.work = Copy(rows, counters, before, comments)
      /\ written <=> tx.stamp # NoTime
      /\ tx.answer = [Answer(tx.call) EXCEPT !.out = out]
  BY <1>1, OpenTransaction DEF TxIInv, CopyTracksTables, UpdateSoFar
<1>3. /\ key \in KeyArgs /\ change \in Updates
  BY <1>1, CallTypes
<1>4. Work!LinkError(key, target) = Store!LinkError(key, target)
  <2>1. DOMAIN tx.work.tickets = DOMAIN tickets
    BY <1>2 DEF Copy
  <2>2. QED
    BY <2>1 DEF Work!LinkError, Store!LinkError, Work!NoKey, Store!NoKey
<1>5. CASE Store!LinkError(key, target) # "ok" /\ Fail(Store!LinkError(key, target))
  <2>1. CopyTracksTables' /\ now' = now /\ Store!Refused(tx.answer, Store!LinkError(key, target))
    BY <1>1, <1>5, FailStep
  <2>2. Store!LinksError(key, change) = Store!LinkError(key, target)
    BY <1>1, <1>2, <1>5 DEF Store!LinksError
  <2>3. Store!Refused([Store!NoReply EXCEPT !.op = "update", !.key = key, !.status = change.status],
                      Store!LinksError(key, change))
    BY <1>1, <1>2, <2>1, <2>2 DEF Store!Refused, Answer, NoReply, Store!NoReply, NoKey, Store!NoKey
  <2>4. Store!UpdateTicket(key, change)
    BY <1>2, <1>5, <2>2, <2>3 DEF Store!UpdateTicket
  <2>5. QED
    BY <1>3, <2>1, <2>4 DEF Store!Next, Store!KeyArgs, KeyArgs
<1>6. CASE /\ Store!LinkError(key, target) = "ok"
           /\ Continue(next, Copy(rows, counters, before \cup linked(kind, target), comments),
                       tx.stamp, tx.answer)
  <2>1. /\ tx' = [step |-> next, call |-> tx.call, stamp |-> tx.stamp, answer |-> tx.answer,
                  work |-> Copy(rows, counters, before \cup linked(kind, target), comments)]
        /\ UNCHANGED <<tickets, counters, links, comments, now, reply>>
        /\ UNCHANGED Store!vars
        /\ UpdateSoFar' => CopyTracksTables'
    BY <1>1, <1>6, ContinueStep
  <2>2. seen' = seen
    BY <2>1 DEF Store!vars
  <2>3. UpdateSoFar'
    <3>1. CASE step = "blocks"
      BY <1>1, <1>2, <1>6, <2>1, <2>2, <3>1, UpdateSteady DEF UpdateSoFar, Copy, Answer
    <3>2. CASE step = "relates"
      BY <1>1, <1>2, <1>6, <2>1, <2>2, <3>2, UpdateSteady DEF UpdateSoFar, Copy, Answer
    <3>3. QED
      BY <1>1, <3>1, <3>2
  <2>4. QED
    BY <2>1, <2>3
<1>7. IF target = NoKey
      THEN tx.work = Copy(rows, counters, before \cup linked(kind, target), comments)
      ELSE [tx.work EXCEPT !.links = @ \cup {<<key, target, kind>>}]
             = Copy(rows, counters, before \cup linked(kind, target), comments)
  BY <1>2 DEF Copy
<1>8. QED
  BY <1>1, <1>2, <1>4, <1>5, <1>6, <1>7 DEF AddLink

-------------------------------------------------------------------------------
(* AddComment *)

LEMMA LookUpTicketStep ==
  ASSUME TxIInv, LookUpTicket
  PROVE  CopyTracksTables' /\ now' = now /\ [Store!Next]_Store!vars
<1> DEFINE key == tx.call.key
<1>1. tx.step = "begun" /\ tx.call.op = "comment"
  BY DEF LookUpTicket, At
<1>2. Fresh /\ tx.work.tickets = tickets
  BY <1>1, OpenTransaction DEF TxIInv, CopyTracksTables, CommentSoFar, Fresh, Committed, Copy
<1>3. key \in KeyArgs /\ tx.call.blankBody = FALSE
  BY <1>1, CallTypes
<1>4. CASE key \in DOMAIN tickets /\ Continue("append", tx.work, NoTime, tx.answer)
  <2>1. /\ tx' = [step |-> "append", call |-> tx.call, stamp |-> NoTime,
                   answer |-> tx.answer, work |-> tx.work]
        /\ UNCHANGED <<tickets, counters, links, comments, now, reply>>
        /\ UNCHANGED Store!vars
        /\ CommentSoFar' => CopyTracksTables'
    BY <1>1, <1>2, <1>4, ContinueStep DEF Fresh
  <2>2. CommentSoFar'
    BY <1>1, <1>2, <1>4, <2>1 DEF CommentSoFar, Fresh, Committed, Copy, Answer
  <2>3. QED
    BY <2>1, <2>2
<1>5. CASE key \notin DOMAIN tickets /\ Fail("not_found")
  <2>1. CopyTracksTables' /\ now' = now /\ Store!Refused(Answer(tx.call), "not_found")
    BY <1>1, <1>2, <1>5, FailStep DEF Fresh
  <2>2. Store!AddComment(key, FALSE)
    BY <1>1, <1>5, <2>1 DEF Store!AddComment, Answer, NoReply, Store!NoReply, NoKey, Store!NoKey
  <2>3. QED
    BY <1>3, <2>1, <2>2 DEF Store!Next, Store!KeyArgs, KeyArgs
<1>6. QED
  BY <1>2, <1>4, <1>5 DEF LookUpTicket

LEMMA AppendCommentStep ==
  ASSUME TxIInv, AppendComment
  PROVE  CopyTracksTables' /\ now' = now /\ UNCHANGED Store!vars
<1> DEFINE key == tx.call.key
           worklog == Append(comments, [ticket |-> key, at |-> rfc3339(now)])
<1>1. tx.step = "append" /\ tx.call.op = "comment"
  BY DEF AppendComment, At
<1>2. Fresh /\ tx.work = Copy(tickets, counters, links, comments) /\ key \in DOMAIN tickets
  BY <1>1, OpenTransaction DEF TxIInv, CopyTracksTables, CommentSoFar, Fresh, Committed
<1>3. /\ Len(comments) < MaxComments
      /\ Continue("touch", Copy(tickets, counters, links, worklog), now, tx.answer)
  BY <1>2 DEF AppendComment, ReadClock, Copy
<1>4. /\ tx' = [step |-> "touch", call |-> tx.call, stamp |-> now, answer |-> tx.answer,
                work |-> Copy(tickets, counters, links, worklog)]
      /\ UNCHANGED <<tickets, counters, links, comments, now, reply>>
      /\ UNCHANGED Store!vars
      /\ CommentSoFar' => CopyTracksTables'
  BY <1>1, <1>2, <1>3, ContinueStep DEF Fresh
<1>5. CommentSoFar'
  BY <1>1, <1>2, <1>3, <1>4, OpenTransaction DEF CommentSoFar, Fresh, Copy, Answer
<1>6. QED
  BY <1>4, <1>5

LEMMA TouchStep ==
  ASSUME TxIInv, Touch
  PROVE  CopyTracksTables' /\ now' = now /\ UNCHANGED Store!vars
<1> DEFINE key == tx.call.key
           worklog == Append(comments, [ticket |-> key, at |-> rfc3339(tx.stamp)])
           rows == [tickets EXCEPT ![key] = Store!TouchedRow(key)]
<1>1. tx.step = "touch" /\ tx.call.op = "comment"
  BY DEF Touch, At
<1>2. /\ key \in DOMAIN tickets /\ Len(comments) < MaxComments
      /\ tx.work = Copy(tickets, counters, links, worklog)
      /\ tx.stamp # NoTime /\ tx.answer = Answer(tx.call)
  BY <1>1, OpenTransaction DEF TxIInv, CopyTracksTables, CommentSoFar
<1>3. Work!TouchedRow(key) = Store!TouchedRow(key)
  BY <1>2 DEF Copy, Work!TouchedRow, Store!TouchedRow, Work!rfc3339, Store!rfc3339
<1>4. Continue("commit", Copy(rows, counters, links, worklog), tx.stamp, tx.answer)
  <2> HIDE DEF worklog
  <2>1. [tx.work EXCEPT !.tickets[key] = Store!TouchedRow(key)]
          = Copy(rows, counters, links, worklog)
    BY <1>2 DEF Copy
  <2>2. QED
    BY <1>3, <2>1 DEF Touch
<1>5. /\ tx' = [step |-> "commit", call |-> tx.call, stamp |-> tx.stamp, answer |-> tx.answer,
                work |-> Copy(rows, counters, links, worklog)]
      /\ UNCHANGED <<tickets, counters, links, comments, now, reply>>
      /\ UNCHANGED Store!vars
      /\ CommentSoFar' => CopyTracksTables'
  BY <1>1, <1>4, ContinueStep
<1>6. CommentSoFar'
  <2>1. seen' = seen
    BY <1>5 DEF Store!vars
  <2>2. QED
    BY <1>1, <1>2, <1>5, <2>1 DEF CommentSoFar, Copy, Answer, Store!TouchedRow, Store!rfc3339
<1>7. QED
  BY <1>5, <1>6

-------------------------------------------------------------------------------
(* ClaimTicket and ReleaseClaim *)

\* Who holds a ticket, and against whom, depends on its row and on the time seen.
LEMMA HolderSteady ==
  ASSUME UNCHANGED <<tickets, seen>>, tx'.call = tx.call
  PROVE  LET key == tx.call.key
             agent == AgentId(tx.call.agent)
             force == tx.call.force
         IN  /\ Store!HeldAgainst(key, agent, force)' <=> Store!HeldAgainst(key, agent, force)
             /\ Store!NotYours(key, agent, force)' <=> Store!NotYours(key, agent, force)
             /\ Store!ClaimedRow(key, agent)' = Store!ClaimedRow(key, agent)
             /\ Store!UnclaimedRow(key)' = Store!UnclaimedRow(key)
BY DEF Store!HeldAgainst, Store!ClaimActiveAt, Store!NotYours, Store!ClaimedRow,
   Store!UnclaimedRow, Store!rfc3339, Store!NoTime, AgentId

LEMMA HolderChecks ==
  ASSUME tx.work = Copy(tickets, counters, links, comments), NEW key, NEW agent, NEW force
  PROVE  /\ Work!HeldAgainst(key, agent, force) <=> Store!HeldAgainst(key, agent, force)
         /\ Work!NotYours(key, agent, force) <=> Store!NotYours(key, agent, force)
         /\ Work!ClaimedRow(key, agent) = Store!ClaimedRow(key, agent)
         /\ Work!UnclaimedRow(key) = Store!UnclaimedRow(key)
<1>1. tx.work.tickets = tickets
  BY DEF Copy
<1>2. QED
  BY <1>1 DEF Work!HeldAgainst, Work!ClaimActiveAt, Work!NotYours, Work!ClaimedRow,
     Work!UnclaimedRow, Work!rfc3339, Work!NoTime, Store!HeldAgainst, Store!ClaimActiveAt,
     Store!NotYours, Store!ClaimedRow, Store!UnclaimedRow, Store!rfc3339, Store!NoTime

LEMMA BeginHolderStep ==
  ASSUME TxIInv, JudgeHolder \/ CheckHolder
  PROVE  CopyTracksTables' /\ now' = now /\ [Store!Next]_Store!vars
<1> DEFINE key == tx.call.key
           agent == AgentId(tx.call.agent)
           force == tx.call.force
           op == tx.call.op
           refused == IF op = "claim" THEN Store!HeldAgainst(key, agent, force)
                      ELSE Store!NotYours(key, agent, force)
           stamp == IF op = "claim" THEN now ELSE NoTime
<1>1. tx.step = "begun" /\ op \in {"claim", "release"}
  BY DEF JudgeHolder, CheckHolder, At
<1>2. Fresh /\ tx.work = Copy(tickets, counters, links, comments) /\ tx.work.tickets = tickets
  BY <1>1, OpenTransaction DEF TxIInv, CopyTracksTables, HolderSoFar, Fresh, Committed, Copy
<1>3. /\ key \in KeyArgs /\ tx.call.agent \in Agents /\ force \in BOOLEAN
      /\ tx.answer = [Store!NoReply EXCEPT !.op = op, !.key = key,
                                           !.agent = Store!AgentId(tx.call.agent), !.force = force]
      /\ agent = Store!AgentId(tx.call.agent)
  BY <1>1, <1>2, CallTypes DEF Fresh, Answer, NoReply, Store!NoReply, NoKey, Store!NoKey,
     AgentId, Store!AgentId
<1>4. ASSUME NEW error,
             \/ key \notin DOMAIN tickets /\ error = "not_found"
             \/ key \in DOMAIN tickets /\ refused /\ error = "claimed",
             Fail(error)
      PROVE  CopyTracksTables' /\ now' = now /\ Store!Next
  <2>1. CopyTracksTables' /\ now' = now /\ Store!Refused(tx.answer, error)
    BY <1>1, <1>4, FailStep
  <2>2. CASE op = "claim"
    <3>1. Store!ClaimTicket(key, tx.call.agent, force)
      BY <1>3, <1>4, <2>1, <2>2 DEF Store!ClaimTicket
    <3>2. QED
      BY <1>3, <2>1, <3>1 DEF Store!Next, Store!KeyArgs, KeyArgs
  <2>3. CASE op = "release"
    <3>1. Store!ReleaseClaim(key, tx.call.agent, force)
      BY <1>3, <1>4, <2>1, <2>3 DEF Store!ReleaseClaim
    <3>2. QED
      BY <1>3, <2>1, <3>1 DEF Store!Next, Store!KeyArgs, KeyArgs
  <2>4. QED
    BY <1>1, <2>2, <2>3
<1>5. CASE key \in DOMAIN tickets /\ ~refused /\ Continue("write", tx.work, stamp, tx.answer)
  <2>1. /\ tx' = [step |-> "write", call |-> tx.call, stamp |-> stamp,
                   answer |-> tx.answer, work |-> tx.work]
        /\ UNCHANGED <<tickets, counters, links, comments, now, reply>>
        /\ UNCHANGED Store!vars
        /\ HolderSoFar' => CopyTracksTables'
    BY <1>1, <1>2, <1>5, ContinueStep DEF Fresh
  <2>2. seen' = seen /\ now # NoTime
    BY <1>1, <2>1, OpenTransaction DEF Store!vars
  <2>3. HolderSoFar'
    BY <1>1, <1>2, <1>5, <2>1, <2>2, HolderSteady DEF HolderSoFar, Fresh, Copy, Answer, AgentId
  <2>4. QED
    BY <2>1, <2>3
<1>6. QED
  BY <1>1, <1>2, <1>4, <1>5, HolderChecks DEF JudgeHolder, CheckHolder, At, ReadClock

LEMMA WriteHolderStep ==
  ASSUME TxIInv, WriteHolder
  PROVE  CopyTracksTables' /\ now' = now /\ UNCHANGED Store!vars
<1> DEFINE key == tx.call.key
           agent == AgentId(tx.call.agent)
           row == IF tx.call.op = "claim" THEN Store!ClaimedRow(key, agent)
                  ELSE Store!UnclaimedRow(key)
<1>1. tx.step = "write"
  BY DEF WriteHolder
<1>2. tx.call.op \in {"claim", "release"} /\ HolderSoFar
  BY <1>1, OpenTransaction DEF TxIInv, CopyTracksTables, CreateSoFar, UpdateSoFar, CommentSoFar
<1>3. tx.work = Copy(tickets, counters, links, comments)
  BY <1>1, <1>2 DEF HolderSoFar
<1>4. Continue("commit", Copy([tickets EXCEPT ![key] = row], counters, links, comments),
               tx.stamp, tx.answer)
  BY <1>3, HolderChecks DEF WriteHolder, Copy
<1>5. /\ tx' = [step |-> "commit", call |-> tx.call, stamp |-> tx.stamp, answer |-> tx.answer,
                work |-> Copy([tickets EXCEPT ![key] = row], counters, links, comments)]
      /\ UNCHANGED <<tickets, counters, links, comments, now, reply>>
      /\ UNCHANGED Store!vars
      /\ HolderSoFar' => CopyTracksTables'
  BY <1>1, <1>2, <1>4, ContinueStep
<1>6. HolderSoFar'
  <2>1. seen' = seen
    BY <1>5 DEF Store!vars
  <2>2. QED
    BY <1>1, <1>2, <1>5, <2>1, HolderSteady DEF HolderSoFar, Copy, Answer, AgentId
<1>7. QED
  BY <1>5, <1>6

-------------------------------------------------------------------------------
(* The whole transaction *)

\* Every commit is the operation it serves, done at once at the time seen.
LEMMA CommitStep ==
  ASSUME TxIInv, Commit
  PROVE  CopyTracksTables' /\ now' = now /\ Store!Next
<1> DEFINE call == tx.call
<1>1. /\ tx.step = "commit"
      /\ tx' = [step |-> "ended", call |-> call, stamp |-> tx.stamp,
                answer |-> tx.answer, work |-> tx.work]
      /\ now' = now /\ reply' = tx.answer
  BY OpenTransaction DEF Commit
<1>2. \A rows, sequence, edges, worklog :
        tx.work = Copy(rows, sequence, edges, worklog) =>
          /\ tickets' = rows /\ counters' = sequence
          /\ links' = edges /\ comments' = worklog
  BY DEF Commit, Copy
<1>3. CopyTracksTables'
  <2>1. IsBlank(tx.call)' = IsBlank(tx.call)
    BY <1>1 DEF IsBlank
  <2>2. QED
    BY <1>1, <2>1, OpenTransaction DEF CopyTracksTables
<1>4. UNCHANGED seen
  BY <1>1, OpenTransaction DEF seen
<1>5. CASE call.op = "create" /\ CreateSoFar
  <2> DEFINE project == ProjectName(call.project)
             twins == Store!OpenDuplicates(project, call.title)
             key == Store!NextKey(project)
             taken == [r \in DOMAIN counters \cup {CounterRow(project)} |->
                         IF r = CounterRow(project) THEN key + 1 ELSE counters[r]]
             grown == [k \in DOMAIN tickets \cup {key} |->
                         IF k = key THEN Store!NewRow(project, call.title, call.parent)
                         ELSE tickets[k]]
  <2>1. /\ call.project \in Projects /\ call.title \in Titles \ {Blank}
        /\ call.parent \in RelatedKeys
        /\ project = Store!ProjectName(call.project)
        /\ Answer(call) = [Store!NoReply EXCEPT !.op = "create"]
    BY <1>1, <1>5, CallTypes DEF Answer, NoReply, Store!NoReply, NoKey, Store!NoKey,
       ProjectName, Store!ProjectName
  <2>2. CASE /\ \E k \in twins :
                  /\ \A twin \in twins : k <= twin
                  /\ tx.answer = [Answer(call) EXCEPT !.key = k, !.out = "existed"]
             /\ tx.work = Committed
    <3>1. UNCHANGED <<tickets, counters, links, comments>>
      BY <1>2, <2>2 DEF Committed
    <3>2. Store!CreateTicket(call.project, call.title, call.parent)
      BY <1>1, <1>4, <2>1, <2>2, <3>1 DEF Store!CreateTicket, Store!tables
    <3>3. QED
      BY <1>1, <1>3, <2>1, <3>2 DEF Store!Next
  <2>3. CASE /\ twins = {} /\ key <= MaxTickets
             /\ Store!ParentFound(call.parent)
             /\ tx.work = Copy(grown, taken, links, comments)
             /\ tx.answer = [Answer(call) EXCEPT !.key = key]
    <3>1. /\ tickets' = grown /\ counters' = taken /\ links' = links /\ comments' = comments
      BY <1>2, <2>3
    <3>2. CounterRow(project) = Store!CounterRow(project)
      BY DEF CounterRow, Store!CounterRow, keySequence, Store!keySequence
    <3>3. reply' = [Store!NoReply EXCEPT !.op = "create", !.key = key]
      BY <1>1, <2>1, <2>3
    <3>4. Store!InsertTicket(project, call.title, call.parent)
      BY <1>1, <1>4, <2>3, <3>1, <3>2, <3>3 DEF Store!InsertTicket
    <3>5. Store!CreateTicket(call.project, call.title, call.parent)
      BY <2>1, <2>3, <3>4 DEF Store!CreateTicket
    <3>6. QED
      BY <1>1, <1>3, <2>1, <3>5 DEF Store!Next
  <2>4. QED
    BY <1>1, <1>5, <2>2, <2>3 DEF CreateSoFar
<1>6. CASE call.op = "update" /\ UpdateSoFar
  <2> DEFINE key == call.key
             change == call.change
             linked(kind, target) == IF target # NoKey THEN {<<key, target, kind>>} ELSE {}
  <2>1. /\ key \in KeyArgs /\ change \in Updates
        /\ Answer(call) = [Store!NoReply EXCEPT !.op = "update", !.key = key,
                                                !.status = change.status]
    BY <1>1, <1>6, CallTypes DEF Answer, NoReply, Store!NoReply, NoKey, Store!NoKey
  <2>2. /\ key \in DOMAIN tickets
        /\ ~Store!MovesIllegally(key, change) /\ ~Store!RenamesToBlank(key, change)
        /\ Store!LinkError(key, change.blocks) = "ok"
        /\ Store!LinkError(key, change.relates) = "ok"
        /\ tx.work = Copy(IF Store!ChangesRow(key, change)
                          THEN [tickets EXCEPT ![key] = Store!UpdatedRow(key, change)]
                          ELSE tickets,
                          counters,
                          links \cup linked("blocks", change.blocks)
                                \cup linked("relates", change.relates),
                          comments)
        /\ tx.answer = [Answer(call) EXCEPT
                          !.out = IF \/ Store!ChangesRow(key, change)
                                     \/ Store!NewLinks(key, change) # {}
                                  THEN "ok" ELSE "unchanged"]
    BY <1>1, <1>6 DEF UpdateSoFar
  <2>3. tickets' = [tickets EXCEPT ![key] = Store!UpdatedRow(key, change)]
    BY <1>2, <2>2, UnchangedRow
  <2>4. links' = links \cup Store!NewLinks(key, change)
    <3>1. Store!NewLinks(key, change)
            = linked("blocks", change.blocks) \cup linked("relates", change.relates)
      BY DEF Store!NewLinks, NoKey, Store!NoKey
    <3>2. QED
      BY <1>2, <2>2, <3>1
  <2>5. Store!LinksError(key, change) = "ok"
    BY <2>2 DEF Store!LinksError
  <2>6. UNCHANGED <<counters, comments, seen>>
    BY <1>2, <1>4, <2>2
  <2>7. Store!UpdateTicket(key, change)
    BY <1>1, <2>1, <2>2, <2>3, <2>4, <2>5, <2>6 DEF Store!UpdateTicket
  <2>8. QED
    BY <1>1, <1>3, <2>1, <2>7 DEF Store!Next, Store!KeyArgs, KeyArgs
<1>7. CASE call.op = "comment" /\ CommentSoFar
  <2> DEFINE key == call.key
             written == Append(comments, [ticket |-> key, at |-> rfc3339(tx.stamp)])
  <2>1. /\ key \in KeyArgs
        /\ Answer(call) = [Store!NoReply EXCEPT !.op = "comment", !.key = key]
    BY <1>1, <1>7, CallTypes DEF Answer, NoReply, Store!NoReply, NoKey, Store!NoKey
  <2>2. /\ key \in DOMAIN tickets /\ Len(comments) < MaxComments
        /\ tx.work = Copy([tickets EXCEPT ![key] = Store!TouchedRow(key)], counters, links, written)
        /\ tx.stamp # NoTime /\ tx.answer = Answer(call)
    BY <1>1, <1>7 DEF CommentSoFar
  <2>3. rfc3339(tx.stamp) = Store!rfc3339(seen)
    BY <1>1, <2>2, OpenTransaction DEF rfc3339, Store!rfc3339
  <2>4. /\ tickets' = [tickets EXCEPT ![key] = Store!TouchedRow(key)]
        /\ counters' = counters /\ links' = links
        /\ comments' = Append(comments, [ticket |-> key, at |-> Store!rfc3339(seen)])
    <3>1. written = Append(comments, [ticket |-> key, at |-> Store!rfc3339(seen)])
      BY <2>3
    <3> HIDE DEF written
    <3>2. QED
      BY <1>2, <2>2, <3>1
  <2>5. Store!AddComment(key, FALSE)
    BY <1>1, <1>4, <2>1, <2>2, <2>4 DEF Store!AddComment
  <2>6. QED
    BY <1>1, <1>3, <2>1, <2>5 DEF Store!Next, Store!KeyArgs, KeyArgs
<1>8. CASE call.op \in {"claim", "release"} /\ HolderSoFar
  <2> DEFINE key == call.key
             agent == AgentId(call.agent)
  <2>1. /\ key \in KeyArgs /\ call.agent \in Agents /\ call.force \in BOOLEAN
        /\ Answer(call) = [Store!NoReply EXCEPT !.op = call.op, !.key = key,
                                                !.agent = agent, !.force = call.force]
        /\ agent = Store!AgentId(call.agent)
    BY <1>1, <1>8, CallTypes DEF Answer, NoReply, Store!NoReply, NoKey, Store!NoKey, AgentId,
       Store!AgentId
  <2>2. /\ key \in DOMAIN tickets
        /\ IF call.op = "claim" THEN ~Store!HeldAgainst(key, agent, call.force)
           ELSE ~Store!NotYours(key, agent, call.force)
        /\ tx.work = Copy([tickets EXCEPT ![key] = IF call.op = "claim"
                                                   THEN Store!ClaimedRow(key, agent)
                                                   ELSE Store!UnclaimedRow(key)],
                          counters, links, comments)
        /\ tx.answer = Answer(call)
    BY <1>1, <1>8 DEF HolderSoFar
  <2>3. /\ tickets' = [tickets EXCEPT ![key] = IF call.op = "claim"
                                               THEN Store!ClaimedRow(key, agent)
                                               ELSE Store!UnclaimedRow(key)]
        /\ UNCHANGED <<counters, links, comments>>
    BY <1>2, <2>2
  <2>4. CASE call.op = "claim"
    <3>1. Store!ClaimTicket(key, call.agent, call.force)
      BY <1>1, <1>4, <2>1, <2>2, <2>3, <2>4 DEF Store!ClaimTicket
    <3>2. QED
      BY <1>1, <1>3, <2>1, <3>1 DEF Store!Next, Store!KeyArgs, KeyArgs
  <2>5. CASE call.op = "release"
    <3>1. Store!ReleaseClaim(key, call.agent, call.force)
      BY <1>1, <1>4, <2>1, <2>2, <2>3, <2>5 DEF Store!ReleaseClaim
    <3>2. QED
      BY <1>1, <1>3, <2>1, <3>1 DEF Store!Next, Store!KeyArgs, KeyArgs
  <2>6. QED
    BY <1>8, <2>4, <2>5
<1>9. QED
  BY <1>1, <1>5, <1>6, <1>7, <1>8, OpenTransaction DEF TxIInv, CopyTracksTables

\* The time that passes while a transaction holds the lock, or while its caller
\* has no answer yet, passes for TicketStore once the transaction is over.
LEMMA ClockCatchesUp ==
  ASSUME TxIInv, UNCHANGED <<tickets, counters, links, comments, reply>>,
         seen' \in seen..MaxTime
  PROVE  [Store!Next]_Store!vars
<1>1. seen \in Nat /\ seen' \in Int /\ MaxTime \in Int
  BY Bounds DEF TxIInv, P!IInv, P!TypeOK
<1>2. CASE seen' = seen
  BY <1>2 DEF Store!vars
<1>3. CASE seen' # seen
  <2>1. Store!Tick
    BY <1>1, <1>3 DEF Store!Tick, Store!tables
  <2>2. QED
    BY <2>1 DEF Store!Next
<1>4. QED
  BY <1>2, <1>3

LEMMA EndStep ==
  ASSUME TxIInv, Return \/ Abort
  PROVE  CopyTracksTables' /\ now' = now /\ [Store!Next]_Store!vars
<1>1. /\ tx.step # "idle" /\ tx' = Idle
      /\ UNCHANGED <<tickets, counters, links, comments, now, reply>>
  BY DEF Return, Abort, Rollback, vars, tables
<1>2. CopyTracksTables'
  BY <1>1 DEF CopyTracksTables
<1>3. seen' = now /\ now \in seen..MaxTime
  BY <1>1, OpenTransaction, Bounds DEF seen, Idle
<1>4. QED
  BY <1>1, <1>2, <1>3, ClockCatchesUp

\* A transaction that has read the clock is not touched by its moving on, and one
\* that has not yet has nothing that depends on it.
LEMMA ClockMovesOn ==
  ASSUME TxIInv, UNCHANGED <<tickets, counters, links, comments, tx>>,
         now' \in now..MaxTime
  PROVE  CopyTracksTables'
<1>1. now' \in 0..MaxTime /\ 0..now \subseteq 0..now'
  BY Bounds DEF TxIInv
<1>2. CASE tx = Idle
  BY <1>2 DEF CopyTracksTables
<1>3. CASE tx # Idle
  <2>1. tx.stamp \in {NoTime} \cup 0..now'
    BY <1>1, <1>3 DEF TxIInv, CopyTracksTables
  <2>2. Fresh' <=> Fresh
    BY <1>1 DEF Fresh, Committed, Copy, Answer
  <2>3. tx.step # "idle" /\ (tx.stamp # NoTime => seen' = seen)
    BY <1>1, <1>3 DEF seen, TxIInv, CopyTracksTables, CreateSoFar, UpdateSoFar, CommentSoFar,
       HolderSoFar
  <2>4. CreateSoFar => CreateSoFar'
    <3> DEFINE project == ProjectName(tx.call.project)
               row == Store!NewRow(project, tx.call.title, tx.call.parent)
    <3>1. /\ Store!OpenDuplicates(project, tx.call.title)'
               = Store!OpenDuplicates(project, tx.call.title)
          /\ Store!NextKey(project)' = Store!NextKey(project)
          /\ CounterRow(project)' = CounterRow(project)
          /\ Store!ParentFound(tx.call.parent)' <=> Store!ParentFound(tx.call.parent)
          /\ Answer(tx.call)' = Answer(tx.call)
      BY <1>1 DEF Store!OpenDuplicates, Store!Done, Store!WontDo, Store!NextKey,
         Store!CounterRow, Store!keySequence, CounterRow, keySequence, Store!ParentFound,
         Store!NoKey, Answer
    <3>2. tx.stamp # NoTime => row' = row
      BY <1>1, <2>3 DEF Store!NewRow, Store!Todo, Store!NoTime, Store!rfc3339
    <3>3. CASE tx.step \in {"begun", "key"}
      BY <1>1, <2>2, <3>1, <3>3 DEF CreateSoFar
    <3>4. CASE tx.step \in {"parent", "insert"}
      BY <1>1, <3>1, <3>4 DEF CreateSoFar
    <3>5. CASE tx.step = "commit" /\ tx.stamp = NoTime
      <4>1. Committed' = Committed
        BY <1>1 DEF Committed
      <4> DEFINE twins == Store!OpenDuplicates(project, tx.call.title)
                 existed(k) == /\ \A twin \in twins : k <= twin
                               /\ tx.answer = [Answer(tx.call) EXCEPT !.key = k, !.out = "existed"]
      <4>2. ASSUME CreateSoFar PROVE CreateSoFar'
        <5>1. tx.work = Committed /\ \E k \in twins : existed(k)
          BY <3>5, <4>2 DEF CreateSoFar
        <5>2. (\E k \in twins : existed(k))'
          BY <1>1, <5>1 DEF Store!OpenDuplicates, Store!Done, Store!WontDo
        <5>3. QED
          BY <1>1, <3>5, <4>1, <5>1, <5>2 DEF CreateSoFar
      <4>3. QED
        BY <4>2
    <3>6. CASE tx.step = "commit" /\ tx.stamp # NoTime
      BY <1>1, <3>1, <3>2, <3>6, Zenon DEF CreateSoFar
    <3>7. QED
      BY <3>3, <3>4, <3>5, <3>6 DEF CreateSoFar
  <2>5. UpdateSoFar => UpdateSoFar'
    BY <1>1, <2>2, <2>3, UpdateSteady DEF UpdateSoFar, Copy, Answer
  <2>6. CommentSoFar => CommentSoFar'
    BY <1>1, <2>2, <2>3 DEF CommentSoFar, Copy, Answer, Store!TouchedRow, Store!rfc3339
  <2>7. HolderSoFar => HolderSoFar'
    <3>1. CASE tx.call.op = "claim"
      BY <1>1, <2>2, <2>3, <3>1, HolderSteady DEF HolderSoFar, Copy, Answer, AgentId
    <3>2. CASE tx.call.op # "claim"
      <4>1. /\ Store!NotYours(tx.call.key, AgentId(tx.call.agent), tx.call.force)'
                <=> Store!NotYours(tx.call.key, AgentId(tx.call.agent), tx.call.force)
            /\ Store!UnclaimedRow(tx.call.key)' = Store!UnclaimedRow(tx.call.key)
        BY <1>1 DEF Store!NotYours, Store!UnclaimedRow, Store!NoTime, AgentId
      <4>2. QED
        BY <1>1, <2>2, <2>3, <3>2, <4>1 DEF HolderSoFar, Copy, Answer, AgentId
    <3>3. QED
      BY <3>1, <3>2
  <2>8. QED
    BY <1>1, <1>3, <2>1, <2>4, <2>5, <2>6, <2>7 DEF TxIInv, CopyTracksTables, IsBlank
<1>4. QED
  BY <1>2, <1>3

LEMMA TickStep ==
  ASSUME TxIInv, TickTx
  PROVE  CopyTracksTables' /\ now' \in 0..MaxTime /\ [Store!Next]_Store!vars
<1>1. /\ now' \in now..MaxTime /\ now' \in 0..MaxTime
      /\ UNCHANGED <<tickets, counters, links, comments, reply, tx>>
  BY Bounds DEF TickTx, Tick, tables, TxIInv
<1>2. seen' \in seen..MaxTime
  BY <1>1, Bounds DEF seen, TxIInv, CopyTracksTables, Idle, NoTime
<1>3. QED
  BY <1>1, <1>2, ClockMovesOn, ClockCatchesUp

\* A refused blank argument is the same answer without a transaction.
LEMMA RefuseBlankStep ==
  ASSUME TxIInv, NEW call \in CallsMade, RefuseBlank(call)
  PROVE  CopyTracksTables' /\ now' = now /\ Store!Next
<1>1. /\ tx = Idle /\ tx' = Idle
      /\ UNCHANGED <<tickets, counters, links, comments, now>>
      /\ reply' = [Answer(call) EXCEPT !.out = "empty"]
  BY DEF RefuseBlank, Refused, tables
<1>2. CopyTracksTables' /\ UNCHANGED seen
  BY <1>1 DEF CopyTracksTables, seen, Idle
<1>3. /\ Store!Refused(Answer(call), "empty")
      /\ Store!NoReply = NoReply
  BY <1>1, <1>2 DEF Store!Refused, Store!tables, Store!NoReply, NoReply, NoKey, Store!NoKey
<1>4. call \in Calls
  BY CallsAreLegal
<1>5. CASE call.op = "create" /\ call.title = Blank
  <2>1. call.project \in Projects /\ call.title \in Titles /\ call.parent \in RelatedKeys
    BY <1>4, <1>5 DEF Calls, Creates, UpdatesOf, Comments, ClaimCalls
  <2>2. Store!CreateTicket(call.project, call.title, call.parent)
    BY <1>3, <1>5 DEF Store!CreateTicket, Answer
  <2>3. QED
    BY <1>1, <1>2, <2>1, <2>2 DEF Store!Next
<1>6. CASE call.op = "comment" /\ call.blankBody
  <2>1. call.key \in Store!KeyArgs /\ call.blankBody \in BOOLEAN
    BY <1>4, <1>6 DEF Calls, Creates, UpdatesOf, Comments, ClaimCalls, KeyArgs, Store!KeyArgs
  <2>2. Store!AddComment(call.key, call.blankBody)
    BY <1>3, <1>6 DEF Store!AddComment, Answer
  <2>3. QED
    BY <1>1, <1>2, <2>1, <2>2 DEF Store!Next
<1>7. QED
  BY <1>5, <1>6 DEF RefuseBlank, IsBlank

LEMMA BeginStep ==
  ASSUME TxIInv, NEW call \in CallsMade, BeginTx(call)
  PROVE  CopyTracksTables' /\ now' = now /\ UNCHANGED Store!vars
<1>1. /\ tx = Idle /\ ~IsBlank(call)
      /\ tx' = [step |-> "begun", call |-> call, stamp |-> NoTime, answer |-> Answer(call),
                work |-> Committed]
      /\ UNCHANGED <<tickets, counters, links, comments, now, reply>>
  BY DEF BeginTx, vars
<1>2. Fresh'
  BY <1>1 DEF Fresh, Committed, Copy, Answer
<1>3. call.op \in {"create", "update", "comment", "claim", "release"}
  BY CallsAreLegal DEF Calls, Creates, UpdatesOf, Comments, ClaimCalls
<1>4. ~IsBlank(tx.call)'
  BY <1>1 DEF IsBlank
<1>5. CopyTracksTables'
  BY <1>1, <1>2, <1>3, <1>4 DEF CopyTracksTables, CreateSoFar, UpdateSoFar, CommentSoFar,
     HolderSoFar
<1>6. seen' = seen
  BY <1>1 DEF seen, Idle
<1>7. QED
  BY <1>1, <1>5, <1>6 DEF Store!vars

\* Every step of the statements is a step of TicketStore or none.
LEMMA TxStepRefines ==
  ASSUME TxIInv, [TxNext]_txVars
  PROVE  CopyTracksTables' /\ now' \in 0..MaxTime /\ [Store!Next]_Store!vars
<1>1. now \in 0..MaxTime
  BY DEF TxIInv
<1>2. CASE UNCHANGED txVars
  <2>1. UNCHANGED <<tickets, counters, links, comments, now, reply, tx>>
    BY <1>2 DEF txVars, vars
  <2>2. UNCHANGED Store!vars
    BY <2>1 DEF Store!vars, seen
  <2>3. QED
    BY <1>1, <2>1, <2>2, ClockMovesOn
<1>3. CASE TickTx
  BY <1>3, TickStep
<1>4. ASSUME NEW call \in CallsMade, RefuseBlank(call) \/ BeginTx(call)
      PROVE  CopyTracksTables' /\ now' = now /\ [Store!Next]_Store!vars
  BY <1>4, RefuseBlankStep, BeginStep
<1>5. CASE FindTwin \/ AllocateKey \/ LookUpParent \/ InsertRow
  BY <1>1, <1>5, FindTwinStep, AllocateKeyStep, LookUpParentStep, InsertRowStep
<1>6. CASE ReadAndValidate \/ UpdateRow \/ AddLinks
  BY <1>1, <1>6, ReadAndValidateStep, UpdateRowStep, AddLinkStep DEF AddLinks
<1>7. CASE LookUpTicket \/ AppendComment \/ Touch
  BY <1>1, <1>7, LookUpTicketStep, AppendCommentStep, TouchStep
<1>8. CASE JudgeHolder \/ CheckHolder \/ WriteHolder
  BY <1>1, <1>8, BeginHolderStep, WriteHolderStep
<1>9. CASE Commit \/ Return \/ Abort
  BY <1>1, <1>9, CommitStep, EndStep
<1>10. QED
  BY <1>1, <1>2, <1>3, <1>4, <1>5, <1>6, <1>7, <1>8, <1>9 DEF TxNext

-------------------------------------------------------------------------------
(* Refinement *)

\* The assumptions of TicketStore do not depend on the clock.
LEMMA SameAssumptions ==
  /\ P!EmptyStrings /\ P!ClockUnits /\ P!UpdatesAreChanges /\ P!Bounds
<1>1. P!allStatuses = allStatuses
  BY DEF P!allStatuses, P!Backlog, P!Todo, P!InProgress, P!InReview, P!Blocked, P!Done,
     P!WontDo, allStatuses, Backlog, Todo, InProgress, InReview, Blocked, Done, WontDo
<1>2. P!Changes = Changes
  BY <1>1 DEF P!Changes, Changes
<1>3. QED
  BY <1>1, <1>2, EmptyStrings, ClockUnits, UpdatesAreChanges, Bounds
     DEF P!EmptyStrings, P!ClockUnits, P!UpdatesAreChanges, P!Bounds

\* The two instances of TicketStore at the time seen are one specification.
LEMMA SameStore ==
  /\ Store!vars = P!vars
  /\ Store!Init <=> P!Init
  /\ Store!Next <=> P!Next
<1>1. Store!vars = P!vars
  BY DEF Store!vars, P!vars
<1>2. Store!Init <=> P!Init
  BY DEF Store!Init, P!Init, Store!keySequence, P!keySequence, Store!NoReply, P!NoReply,
     Store!NoKey, P!NoKey
<1>3. Store!Next <=> P!Next
  BY Zenon DEF Store!Next, P!Next, Store!Tick, P!Tick, Store!tables, P!tables,
     Store!CreateTicket, P!CreateTicket, Store!ProjectName, P!ProjectName,
     Store!OpenDuplicates, P!OpenDuplicates, Store!NoReply, P!NoReply, Store!Refused,
     P!Refused, Store!ParentFound, P!ParentFound, Store!InsertTicket, P!InsertTicket,
     Store!NextKey, P!NextKey, Store!CounterRow, P!CounterRow, Store!NewRow, P!NewRow,
     Store!rfc3339, P!rfc3339, Store!UpdateTicket, P!UpdateTicket, Store!MovesIllegally,
     P!MovesIllegally, Store!RenamesToBlank, P!RenamesToBlank, Store!Moves, P!Moves,
     Store!Renames, P!Renames, Store!LinksError, P!LinksError, Store!LinkError,
     P!LinkError, Store!UpdatedRow, P!UpdatedRow, Store!DropsClaim, P!DropsClaim,
     Store!ChangesRow, P!ChangesRow, Store!NewLinks, P!NewLinks, Store!AddComment,
     P!AddComment, Store!TouchedRow, P!TouchedRow, Store!ClaimTicket, P!ClaimTicket,
     Store!ReleaseClaim, P!ReleaseClaim, Store!AgentId, P!AgentId, Store!HeldAgainst,
     P!HeldAgainst, Store!ClaimActiveAt, P!ClaimActiveAt, Store!ClaimedRow,
     P!ClaimedRow, Store!NotYours, P!NotYours, Store!UnclaimedRow, P!UnclaimedRow,
     Store!KeyArgs, P!KeyArgs, Store!NoKey, P!NoKey, Store!NoTime, P!NoTime,
     Store!keySequence, P!keySequence, Store!Todo, P!Todo, Store!Done, P!Done,
     Store!WontDo, P!WontDo, Store!ValidTransition, P!ValidTransition,
     Store!CanTransition, P!CanTransition, Store!IsTerminal, P!IsTerminal,
     Store!transitions, P!transitions, Store!allStatuses, P!allStatuses, Store!Backlog,
     P!Backlog, Store!InProgress, P!InProgress, Store!InReview, P!InReview,
     Store!Blocked, P!Blocked
<1>4. QED
  BY <1>1, <1>2, <1>3

LEMMA TxInitEstablishes == TxInit => TxIInv /\ Store!Init
<1> SUFFICES ASSUME TxInit PROVE TxIInv /\ Store!Init
  OBVIOUS
<1>1. Init /\ tx = Idle /\ seen = now
  BY DEF TxInit, seen, Idle
<1>2. Store!Init
  BY <1>1 DEF Init, Store!Init, keySequence, Store!keySequence, NoReply, Store!NoReply,
     NoKey, Store!NoKey
<1>3. P!IInv
  BY <1>2, SameStore, SameAssumptions, P!InitEstablishes
<1>4. now \in 0..MaxTime
  BY <1>1, ClockUnits, Bounds DEF Init
<1>5. QED
  BY <1>1, <1>2, <1>3, <1>4 DEF TxIInv, CopyTracksTables

LEMMA TxStepPreserves == TxIInv /\ [TxNext]_txVars => TxIInv'
<1> SUFFICES ASSUME TxIInv, [TxNext]_txVars PROVE TxIInv'
  OBVIOUS
<1>1. CopyTracksTables' /\ now' \in 0..MaxTime /\ [Store!Next]_Store!vars
  BY TxStepRefines
<1>2. [P!Next]_P!vars /\ P!IInv
  <2>1. CASE Store!Next
    BY <2>1, SameStore DEF TxIInv
  <2>2. CASE UNCHANGED Store!vars
    BY <2>2 DEF TxIInv, Store!vars, P!vars
  <2>3. QED
    BY <1>1, <2>1, <2>2
<1>3. P!IInv'
  BY <1>2, SameAssumptions, P!StepPreserves
<1>4. QED
  BY <1>1, <1>3 DEF TxIInv

LEMMA TxInvariance == TxSpec => []TxIInv
BY TxInitEstablishes, TxStepPreserves, PTL DEF TxSpec

\* The transaction's copy stays the committed tables with its own writes, and
\* nothing it has decided on goes stale before it commits.
THEOREM CopyTracksTablesHolds == TxSpec => []CopyTracksTables
<1>1. TxIInv => CopyTracksTables
  BY DEF TxIInv
<1>2. QED
  BY <1>1, TxInvariance, PTL

\* Statement by statement, with rollbacks, interruptions and a clock that moves
\* on in between, every operation is one step of TicketStore.
THEOREM TransactionsAreAtomic == TxSpec => StoreSpec
<1>1. TxInit => Store!Init
  BY TxInitEstablishes
<1>2. TxIInv /\ [TxNext]_txVars => [Store!Next]_Store!vars
  BY TxStepRefines
<1>3. QED
  BY <1>1, <1>2, TxInvariance, PTL DEF TxSpec, StoreSpec, Store!Spec

\* No order of interrupted linking updates leaves a link to itself or to nothing.
THEOREM TxLinksAreWellFormed == TxSpec => []LinksWellFormed
<1>1. TxIInv => LinksWellFormed
  BY DEF TxIInv, P!IInv, P!LinksWellFormed, LinksWellFormed
<1>2. QED
  BY <1>1, TxInvariance, PTL

\* A worklog is in order although every operation has its own idea of the time.
THEOREM TxWorklogIsChronological == TxSpec => []WorklogChronological
<1>1. TxIInv => WorklogChronological
  <2> SUFFICES ASSUME TxIInv PROVE WorklogChronological
    OBVIOUS
  <2>1. \A k \in DOMAIN tickets : tickets[k].updatedAt <= rfc3339(now)
    <3>1. /\ seen \in Nat /\ now \in Nat /\ seen <= now
          /\ P!rfc3339(seen) = rfc3339(seen)
      <4>1. seen \in Nat /\ seen <= now
        BY Bounds DEF TxIInv, CopyTracksTables, seen, Idle, P!IInv, P!TypeOK, NoTime
      <4>2. QED
        BY <4>1, Bounds DEF TxIInv, rfc3339, P!rfc3339
    <3>2. P!rfc3339(seen) <= P!rfc3339(now) /\ P!rfc3339(seen) \in Int /\ P!rfc3339(now) \in Int
      BY <3>1, SameAssumptions, P!Timestamps
    <3>3. P!rfc3339(now) = rfc3339(now)
      BY DEF rfc3339, P!rfc3339
    <3>4. \A k \in DOMAIN tickets :
            tickets[k].updatedAt \in Int /\ tickets[k].updatedAt <= P!rfc3339(seen)
      BY Bounds DEF TxIInv, P!IInv, P!TypeOK, P!Row, P!WorklogChronological
    <3>5. QED
      BY <3>2, <3>3, <3>4
  <2>2. QED
    BY <2>1 DEF TxIInv, P!IInv, P!WorklogChronological, WorklogChronological
<1>2. QED
  BY <1>1, TxInvariance, PTL

================================================================================
