-------------------------------- MODULE StoreTx --------------------------------
(***************************************************************************)
(* The operations of internal/store statement by statement.  An operation  *)
(* begins an immediate transaction, which holds SQLite's write lock, works *)
(* on a copy of the tables that nobody else sees, reads the clock where    *)
(* the code does, and commits or rolls back.  Between any two statements   *)
(* the clock moves on, or the operation is cut off: the caller's context   *)
(* is cancelled, the statement fails, or the process crashes.              *)
(*                                                                         *)
(* The variables of TicketStore are the committed database, the machine's  *)
(* clock and the last answer.  StoreSpec says that all this amounts to     *)
(* TicketStore, where an operation is one step.  Callers that wait for the *)
(* lock have no state: nothing but blank arguments is looked at before     *)
(* BeginTx, so a call is chosen when its transaction begins.               *)
(***************************************************************************)
EXTENDS TicketStore

CONSTANT CallsMade  \* what callers ask of the store, out of all Calls

VARIABLE tx  \* the transaction that holds the write lock, or Idle

txVars == <<vars, tx>>

Creates  == [op : {"create"}, project : Projects, title : Titles, parent : RelatedKeys]
UpdatesOf == [op : {"update"}, key : KeyArgs, change : Updates]
Comments == [op : {"comment"}, key : KeyArgs, blankBody : BOOLEAN]
ClaimCalls == [op : {"claim", "release"}, key : KeyArgs, agent : Agents, force : BOOLEAN]

Calls == Creates \cup UpdatesOf \cup Comments \cup ClaimCalls

ASSUME CallsAreLegal == CallsMade \subseteq Calls

Idle == [step |-> "idle"]

\* Where the transaction stands and the call it serves.
At(step, op) == tx.step = step /\ tx.call.op = op

\* The clock as the operation sees it once it has read it, and until its caller
\* has the answer: the instant at which TicketStore lets the operation happen.
seen == IF tx.step = "idle" \/ tx.stamp = NoTime THEN now ELSE tx.stamp

\* The operators of TicketStore over the transaction's own copy and clock.
Work == INSTANCE TicketStore WITH
          tickets <- tx.work.tickets, counters <- tx.work.counters,
          links <- tx.work.links, comments <- tx.work.comments, now <- seen

\* The four tables as a transaction carries them.
Copy(rows, sequence, edges, worklog) ==
  [tickets |-> rows, counters |-> sequence, links |-> edges, comments |-> worklog]

Committed == Copy(tickets, counters, links, comments)

TxInit == Init /\ tx = Idle

-------------------------------------------------------------------------------
(* What every operation is made of *)

\* A title or a comment of white space is refused before BeginTx.
IsBlank(call) ==
  \/ call.op = "create" /\ call.title = Blank
  \/ call.op = "comment" /\ call.blankBody

Answer(call) ==
  CASE call.op = "create"  -> [NoReply EXCEPT !.op = "create"]
    [] call.op = "update"  -> [NoReply EXCEPT !.op = "update", !.key = call.key,
                                              !.status = call.change.status]
    [] call.op = "comment" -> [NoReply EXCEPT !.op = "comment", !.key = call.key]
    [] OTHER               -> [NoReply EXCEPT !.op = call.op, !.key = call.key,
                                              !.agent = AgentId(call.agent), !.force = call.force]

RefuseBlank(call) ==
  /\ tx = Idle
  /\ IsBlank(call)
  /\ Refused(Answer(call), "empty")
  /\ UNCHANGED tx

BeginTx(call) ==
  /\ tx = Idle
  /\ ~IsBlank(call)
  /\ tx' = [step |-> "begun", call |-> call, stamp |-> NoTime, answer |-> Answer(call),
            work |-> Committed]
  /\ UNCHANGED vars

\* The next statement, and what this one leaves in the transaction.
Continue(step, work, stamp, answer) ==
  /\ tx' = [tx EXCEPT !.step = step, !.work = work, !.stamp = stamp, !.answer = answer]
  /\ UNCHANGED vars

\* Variant: the key that was taken from the sequence is not given back.
RollbackButKey ==
  /\ counters' = tx.work.counters
  /\ UNCHANGED <<tickets, links, comments, now>>

\* Rollback: what the statements did is gone.
Rollback == UNCHANGED <<tables, now>>

\* The deferred Rollback, and an error for the caller.
Fail(out) ==
  /\ reply' = [tx.answer EXCEPT !.out = out]
  /\ tx' = [tx EXCEPT !.step = "ended"]
  /\ Rollback

Commit ==
  /\ tx.step = "commit"
  /\ tickets' = tx.work.tickets
  /\ counters' = tx.work.counters
  /\ links' = tx.work.links
  /\ comments' = tx.work.comments
  /\ reply' = tx.answer
  /\ tx' = [tx EXCEPT !.step = "ended"]
  /\ UNCHANGED now

Return ==
  /\ tx.step = "ended"
  /\ tx' = Idle
  /\ UNCHANGED vars

\* A statement or Commit fails, the context is cancelled or the process dies: the
\* transaction is rolled back, and the caller is left with the driver's error or
\* with none.
Abort ==
  /\ tx.step \notin {"idle", "ended"}
  /\ tx' = Idle
  /\ Rollback
  /\ UNCHANGED reply

\* Variant: the clock was read before the call waited for the write lock.
ReadClockEarly == 0..now

\* now() as a statement of the transaction reads it.
ReadClock == {now}

-------------------------------------------------------------------------------
(* CreateTicket *)

FindTwin ==
  LET twins == Work!OpenDuplicates(ProjectName(tx.call.project), tx.call.title)
  IN  /\ At("begun", "create")
      /\ \/ \E k \in twins :
              /\ \A twin \in twins : k <= twin
              /\ Continue("commit", tx.work, NoTime, [tx.answer EXCEPT !.key = k, !.out = "existed"])
         \/ /\ twins = {}
            /\ Continue("key", tx.work, NoTime, tx.answer)

AllocateKey ==
  LET project == ProjectName(tx.call.project)
      row     == CounterRow(project)
      key     == Work!NextKey(project)
  IN  /\ At("key", "create")
      /\ key <= MaxTickets
      /\ Continue("parent",
                  [tx.work EXCEPT !.counters = [r \in DOMAIN @ \cup {row} |->
                                                  IF r = row THEN key + 1 ELSE @[r]]],
                  NoTime, tx.answer)

LookUpParent ==
  /\ At("parent", "create")
  /\ \/ /\ Work!ParentFound(tx.call.parent)
        /\ Continue("insert", tx.work, NoTime, tx.answer)
     \/ /\ ~Work!ParentFound(tx.call.parent)
        /\ Fail("not_found")

InsertRow ==
  LET project == ProjectName(tx.call.project)
      key == Work!NextKey(project) - 1
      row == NewRow(project, tx.call.title, tx.call.parent)
  IN  /\ At("insert", "create")
      /\ \E t \in ReadClock :
           Continue("commit",
                    [tx.work EXCEPT !.tickets =
                       [k \in DOMAIN @ \cup {key} |->
                          IF k = key THEN [row EXCEPT !.updatedAt = rfc3339(t)] ELSE @[k]]],
                    t, [tx.answer EXCEPT !.key = key])

-------------------------------------------------------------------------------
(* UpdateTicket *)

ReadAndValidate ==
  LET key == tx.call.key
      change == tx.call.change
      out == IF Work!ChangesRow(key, change) \/ NewLinks(key, change) # {} THEN "ok" ELSE "unchanged"
  IN  /\ At("begun", "update")
      /\ \/ key \notin DOMAIN tx.work.tickets /\ Fail("not_found")
         \/ /\ key \in DOMAIN tx.work.tickets
            /\ \/ Work!MovesIllegally(key, change) /\ Fail("illegal_move")
               \/ /\ ~Work!MovesIllegally(key, change)
                  /\ Work!RenamesToBlank(key, change)
                  /\ Fail("empty")
               \/ /\ ~Work!MovesIllegally(key, change)
                  /\ ~Work!RenamesToBlank(key, change)
                  /\ Continue("row", tx.work, NoTime, [tx.answer EXCEPT !.out = out])

UpdateRow ==
  LET key == tx.call.key
      change == tx.call.change
  IN  /\ At("row", "update")
      /\ \/ /\ ~Work!ChangesRow(key, change)
            /\ Continue("blocks", tx.work, NoTime, tx.answer)
         \/ /\ Work!ChangesRow(key, change)
            /\ \E t \in ReadClock :
                 Continue("blocks",
                          [tx.work EXCEPT !.tickets[key] =
                             [Work!UpdatedRow(key, change) EXCEPT !.updatedAt = rfc3339(t)]],
                          t, tx.answer)

\* addLink, when the caller asks for a link of this kind.
AddLink(step, kind, target, next) ==
  LET key == tx.call.key
      error == Work!LinkError(key, target)
  IN  /\ At(step, "update")
      /\ \/ error # "ok" /\ Fail(error)
         \/ /\ error = "ok"
            /\ Continue(next,
                        IF target = NoKey THEN tx.work
                        ELSE [tx.work EXCEPT !.links = @ \cup {<<key, target, kind>>}],
                        tx.stamp, tx.answer)

AddLinks ==
  \/ tx.step = "blocks"  /\ AddLink("blocks", "blocks", tx.call.change.blocks, "relates")
  \/ tx.step = "relates" /\ AddLink("relates", "relates", tx.call.change.relates, "commit")

-------------------------------------------------------------------------------
(* AddComment *)

LookUpTicket ==
  /\ At("begun", "comment")
  /\ \/ /\ tx.call.key \in DOMAIN tx.work.tickets
        /\ Continue("append", tx.work, NoTime, tx.answer)
     \/ /\ tx.call.key \notin DOMAIN tx.work.tickets
        /\ Fail("not_found")

AppendComment ==
  /\ At("append", "comment")
  /\ Len(tx.work.comments) < MaxComments
  /\ \E t \in ReadClock :
       Continue("touch",
                [tx.work EXCEPT !.comments = Append(@, [ticket |-> tx.call.key, at |-> rfc3339(t)])],
                t, tx.answer)

Touch ==
  /\ At("touch", "comment")
  /\ Continue("commit", [tx.work EXCEPT !.tickets[tx.call.key] = Work!TouchedRow(tx.call.key)],
              tx.stamp, tx.answer)

-------------------------------------------------------------------------------
(* ClaimTicket and ReleaseClaim *)

\* The holder is judged by the clock that is then written.
JudgeHolder ==
  LET held == Work!HeldAgainst(tx.call.key, AgentId(tx.call.agent), tx.call.force)
  IN  /\ At("begun", "claim")
      /\ \/ tx.call.key \notin DOMAIN tx.work.tickets /\ Fail("not_found")
         \/ /\ tx.call.key \in DOMAIN tx.work.tickets
            /\ \/ held /\ Fail("claimed")
               \/ ~held /\ \E t \in ReadClock : Continue("write", tx.work, t, tx.answer)

CheckHolder ==
  LET theirs == Work!NotYours(tx.call.key, AgentId(tx.call.agent), tx.call.force)
  IN  /\ At("begun", "release")
      /\ \/ tx.call.key \notin DOMAIN tx.work.tickets /\ Fail("not_found")
         \/ /\ tx.call.key \in DOMAIN tx.work.tickets
            /\ \/ theirs /\ Fail("claimed")
               \/ ~theirs /\ Continue("write", tx.work, NoTime, tx.answer)

WriteHolder ==
  LET key == tx.call.key
  IN  /\ tx.step = "write"
      /\ Continue("commit",
                  [tx.work EXCEPT !.tickets[key] =
                     IF tx.call.op = "claim" THEN Work!ClaimedRow(key, AgentId(tx.call.agent))
                     ELSE Work!UnclaimedRow(key)],
                  tx.stamp, tx.answer)

-------------------------------------------------------------------------------
TickTx == Tick /\ UNCHANGED tx

TxNext ==
  \/ TickTx
  \/ \E call \in CallsMade : RefuseBlank(call) \/ BeginTx(call)
  \/ FindTwin \/ AllocateKey \/ LookUpParent \/ InsertRow
  \/ ReadAndValidate \/ UpdateRow \/ AddLinks
  \/ LookUpTicket \/ AppendComment \/ Touch
  \/ JudgeHolder \/ CheckHolder \/ WriteHolder
  \/ Commit \/ Return \/ Abort

TxSpec == TxInit /\ [][TxNext]_txVars

-------------------------------------------------------------------------------
(* Properties *)

\* To every caller the statements, rollbacks and interruptions of an operation
\* look like one step of TicketStore, at the time the operation read.
Store == INSTANCE TicketStore WITH now <- seen

StoreSpec == Store!Spec

\* No statement has written, timed or decided anything yet.
Fresh == tx.work = Committed /\ tx.stamp = NoTime /\ tx.answer = Answer(tx.call)

\* What the statements of create_ticket have done and decided up to this step.
CreateSoFar ==
  LET project == ProjectName(tx.call.project)
      row     == CounterRow(project)
      twins   == Store!OpenDuplicates(project, tx.call.title)
      key     == Store!NextKey(project)
      taken   == [r \in DOMAIN counters \cup {row} |-> IF r = row THEN key + 1 ELSE counters[r]]
      grown   == [k \in DOMAIN tickets \cup {key} |->
                    IF k = key THEN Store!NewRow(project, tx.call.title, tx.call.parent)
                    ELSE tickets[k]]
  IN  \/ tx.step = "begun" /\ Fresh
      \/ tx.step = "key" /\ Fresh /\ twins = {}
      \/ /\ tx.step = "commit"
         /\ \E k \in twins :
              /\ \A twin \in twins : k <= twin
              /\ tx.answer = [Answer(tx.call) EXCEPT !.key = k, !.out = "existed"]
         /\ tx.work = Committed
         /\ tx.stamp = NoTime
      \/ /\ tx.step \in {"parent", "insert"}
         /\ twins = {} /\ key <= MaxTickets
         /\ tx.step = "insert" => Store!ParentFound(tx.call.parent)
         /\ tx.work = Copy(tickets, taken, links, comments)
         /\ tx.stamp = NoTime
         /\ tx.answer = Answer(tx.call)
      \/ /\ tx.step = "commit"
         /\ twins = {} /\ key <= MaxTickets
         /\ Store!ParentFound(tx.call.parent)
         /\ tx.work = Copy(grown, taken, links, comments)
         /\ tx.stamp # NoTime
         /\ tx.answer = [Answer(tx.call) EXCEPT !.key = key]

UpdateSoFar ==
  LET key     == tx.call.key
      change  == tx.call.change
      written == tx.step # "row" /\ Store!ChangesRow(key, change)
      linked(kind, target, steps) ==
        IF tx.step \in steps /\ target # NoKey THEN {<<key, target, kind>>} ELSE {}
  IN  \/ tx.step = "begun" /\ Fresh
      \/ /\ tx.step \in {"row", "blocks", "relates", "commit"}
         /\ key \in DOMAIN tickets
         /\ ~Store!MovesIllegally(key, change) /\ ~Store!RenamesToBlank(key, change)
         /\ tx.step \in {"relates", "commit"} => Store!LinkError(key, change.blocks) = "ok"
         /\ tx.step = "commit" => Store!LinkError(key, change.relates) = "ok"
         /\ tx.work = Copy(IF written THEN [tickets EXCEPT ![key] = Store!UpdatedRow(key, change)]
                            ELSE tickets,
                           counters,
                           links \cup linked("blocks", change.blocks, {"relates", "commit"})
                                 \cup linked("relates", change.relates, {"commit"}),
                           comments)
         /\ written <=> tx.stamp # NoTime
         /\ tx.answer = [Answer(tx.call) EXCEPT
                           !.out = IF Store!ChangesRow(key, change) \/ Store!NewLinks(key, change) # {}
                                   THEN "ok" ELSE "unchanged"]

CommentSoFar ==
  LET key     == tx.call.key
      worklog == Append(comments, [ticket |-> key, at |-> rfc3339(tx.stamp)])
      touched == [tickets EXCEPT ![key] = Store!TouchedRow(key)]
  IN  \/ tx.step = "begun" /\ Fresh
      \/ tx.step = "append" /\ Fresh /\ key \in DOMAIN tickets
      \/ /\ tx.step \in {"touch", "commit"}
         /\ key \in DOMAIN tickets
         /\ Len(comments) < MaxComments
         /\ tx.work = Copy(IF tx.step = "commit" THEN touched ELSE tickets,
                           counters, links, worklog)
         /\ tx.stamp # NoTime
         /\ tx.answer = Answer(tx.call)

\* A claim was judged by the clock it is written with; a release reads no clock.
HolderSoFar ==
  LET key   == tx.call.key
      agent == AgentId(tx.call.agent)
      row   == IF tx.call.op = "claim" THEN Store!ClaimedRow(key, agent)
               ELSE Store!UnclaimedRow(key)
  IN  \/ tx.step = "begun" /\ Fresh
      \/ /\ tx.step \in {"write", "commit"}
         /\ key \in DOMAIN tickets
         /\ IF tx.call.op = "claim" THEN ~Store!HeldAgainst(key, agent, tx.call.force)
            ELSE ~Store!NotYours(key, agent, tx.call.force)
         /\ tx.work = Copy(IF tx.step = "commit" THEN [tickets EXCEPT ![key] = row] ELSE tickets,
                           counters, links, comments)
         /\ (tx.call.op = "claim") <=> (tx.stamp # NoTime)
         /\ tx.answer = Answer(tx.call)

\* No statement works on a decision that another caller has since made stale:
\* the transaction's copy is the committed tables with its own writes applied and
\* no others, and what it found (no twin, a parent, no holder, a legal move) still
\* holds of the committed tables, at the time it read, up to its commit.
CopyTracksTables ==
  \/ tx = Idle
  \/ /\ tx = [step |-> tx.step, call |-> tx.call, stamp |-> tx.stamp,
               answer |-> tx.answer, work |-> tx.work]
     /\ tx.call \in CallsMade /\ ~IsBlank(tx.call)
     /\ tx.stamp \in {NoTime} \cup 0..now
     /\ \/ tx.step = "ended"
        \/ tx.call.op = "create"  /\ CreateSoFar
        \/ tx.call.op = "update"  /\ UpdateSoFar
        \/ tx.call.op = "comment" /\ CommentSoFar
        \/ tx.call.op \in {"claim", "release"} /\ HolderSoFar

================================================================================
