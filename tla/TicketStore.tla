------------------------------ MODULE TicketStore ------------------------------
(***************************************************************************)
(* The ticket database of internal/store as its callers see it: every      *)
(* operation is one immediate transaction, so one action per operation and *)
(* per way it can end.  The operations are called by any number of agents  *)
(* (MCP, stdio or HTTP) and humans (CLI) in any order.                     *)
(*                                                                         *)
(* A ticket is named by its key, T-1 being 1: no row is ever deleted, so   *)
(* row ids and keys order tickets alike.  Descriptions, labels, priorities *)
(* and the text of comments are not kept: no operation of this module      *)
(* decides anything on them, except that changing one touches updated_at.  *)
(***************************************************************************)
EXTENDS Integers, Sequences, Workflow

CONSTANTS
  Projects,        \* project arguments of callers, NoProject when omitted
  NoProject,       \* the empty string
  DefaultProject,  \* "default"
  Titles,          \* title arguments of callers, Blank among them
  Blank,           \* a title of white space only
  Agents,          \* agent ids of callers, NoAgent when omitted
  NoAgent,         \* the empty string
  DefaultAgent,    \* "agent"
  RelatedKeys,     \* keys callers name as parent or link target, NoKey when omitted
  Keep,            \* a field of an update that is left out
  Updates,         \* the partial updates callers ask for
  ClaimTTL,        \* ticks of the clock a claim stays active
  Second,          \* ticks of the clock in one second, the unit of storage
  MaxTickets,      \* bound: tickets created
  MaxComments,     \* bound: comments added
  MaxTime          \* bound: ticks of the clock

ASSUME EmptyStrings ==
  /\ DefaultProject # NoProject
  /\ DefaultAgent # NoAgent
  /\ Keep \notin Titles \cup allStatuses

ASSUME ClockUnits ==
  /\ Second \in Nat \ {0}
  /\ ClaimTTL \in Nat \ {0}

Changes == [status  : allStatuses \cup {Keep},
            title   : Titles \cup {Keep},
            other   : BOOLEAN,             \* priority, description or labels
            blocks  : RelatedKeys,
            relates : RelatedKeys]

ASSUME UpdatesAreChanges == Updates \subseteq Changes

ASSUME Bounds ==
  /\ MaxTickets \in Nat
  /\ RelatedKeys \subseteq 0..(MaxTickets + 1)
  /\ MaxComments \in Nat
  /\ MaxTime \in Nat

VARIABLES
  tickets,   \* table tickets: key -> row
  counters,  \* table counters: row name -> next key
  links,     \* table links: <<from, to, kind>>
  comments,  \* table comments, in id order
  now,       \* the wall clock of the machine, UTC
  reply      \* what the last operation answered its caller

vars == <<tickets, counters, links, comments, now, reply>>
tables == <<tickets, counters, links, comments>>

NoKey  == 0
NoTime == -1
Keys   == 1..MaxTickets

\* Any key a caller may name, one that never exists included.
KeyArgs == 1..(MaxTickets + 1)

-------------------------------------------------------------------------------
(* Arguments and columns *)

\* The counters row of the sequence all projects share: the empty string.
keySequence == NoProject

ProjectName(project) == IF project = NoProject THEN DefaultProject ELSE project

ProjectNames == {ProjectName(p) : p \in Projects}

\* Variant: the omitted agent id is stored as it came.
AgentIdAsGiven(agent) == agent

AgentId(agent) == IF agent = NoAgent THEN DefaultAgent ELSE agent

AgentIds == (Agents \ {NoAgent}) \cup {DefaultAgent}

\* Variant: the fraction is rounded instead.
RoundedStamp(t) == ((t + (Second \div 2)) \div Second) * Second

\* Timestamps are stored in whole seconds: the fraction is dropped.
rfc3339(t) == t - (t % Second)

Row == [project   : ProjectNames,
        title     : Titles \ {Blank},
        status    : allStatuses,
        parent    : {NoKey} \cup Keys,
        claimedBy : {NoAgent} \cup AgentIds,
        claimedAt : {NoTime} \cup 0..MaxTime,
        updatedAt : 0..MaxTime]

Operations == {"none", "create", "update", "comment", "claim", "release"}
Outcomes == {"ok", "existed", "unchanged",
             "not_found", "empty", "illegal_move", "self_link", "claimed"}

Replies == [op : Operations, key : {NoKey} \cup KeyArgs, agent : {NoAgent} \cup AgentIds,
            force : BOOLEAN, status : allStatuses \cup {Keep}, out : Outcomes]

NoReply == [op |-> "none", key |-> NoKey, agent |-> NoAgent,
            force |-> FALSE, status |-> Keep, out |-> "ok"]

IsOpen(t) == ~IsTerminal(t.status)

\* Variants: the claim never lapses, or lapses one second early.
ClaimActiveForever(t, at) == t.claimedBy # NoAgent
ClaimActiveTooBriefly(t, at) == t.claimedBy # NoAgent /\ at - t.claimedAt < ClaimTTL - Second

\* A claim is held and has not expired.
ClaimActiveAt(t, at) ==
  /\ t.claimedBy # NoAgent
  /\ t.claimedAt # NoTime
  /\ at - t.claimedAt < ClaimTTL

-------------------------------------------------------------------------------
(* A database just created by Open: the migrations leave the key sequence at 1. *)

Init ==
  /\ tickets = [k \in {} |-> {}]
  /\ counters = [row \in {keySequence} |-> 1]
  /\ links = {}
  /\ comments = <<>>
  /\ now \in 0..(Second - 1)
  /\ now <= MaxTime
  /\ reply = NoReply

\* Any amount of time passes between two operations.
Tick ==
  /\ now' \in (now + 1)..MaxTime
  /\ UNCHANGED <<tables, reply>>

\* The call ends with an error, and its transaction is rolled back.
Refused(call, out) ==
  /\ reply' = [call EXCEPT !.out = out]
  /\ UNCHANGED <<tables, now>>

-------------------------------------------------------------------------------
(* CreateTicket *)

\* Variant: the idempotency check forgets tickets that were started.
OpenDuplicatesTodo(project, title) ==
  {k \in DOMAIN tickets : /\ tickets[k].project = project
                          /\ tickets[k].title = title
                          /\ tickets[k].status = Todo}

OpenDuplicates(project, title) ==
  {k \in DOMAIN tickets : /\ tickets[k].project = project
                          /\ tickets[k].title = title
                          /\ tickets[k].status \notin {Done, WontDo}}

\* Variant: one sequence per project, as before migration 002.
CounterRowOfProject(project) == project

CounterRow(project) == keySequence

NextKey(project) ==
  LET row == CounterRow(project)
  IN  IF row \in DOMAIN counters THEN counters[row] ELSE 1

\* Variant: any key is taken for a parent.
AnyParent(parent) == parent \in {NoKey} \cup KeyArgs

ParentFound(parent) == parent = NoKey \/ parent \in DOMAIN tickets

NewRow(project, title, parent) ==
  [project |-> project, title |-> title, status |-> Todo, parent |-> parent,
   claimedBy |-> NoAgent, claimedAt |-> NoTime, updatedAt |-> rfc3339(now)]

InsertTicket(project, title, parent) ==
  LET key == NextKey(project)
      row == CounterRow(project)
  IN  /\ key <= MaxTickets
      /\ counters' = [r \in DOMAIN counters \cup {row} |->
                        IF r = row THEN key + 1 ELSE counters[r]]
      /\ tickets' = [k \in DOMAIN tickets \cup {key} |->
                       IF k = key THEN NewRow(project, title, parent) ELSE tickets[k]]
      /\ reply' = [NoReply EXCEPT !.op = "create", !.key = key]
      /\ UNCHANGED <<links, comments, now>>

CreateTicket(projectArg, title, parent) ==
  LET project == ProjectName(projectArg)
      twins   == OpenDuplicates(project, title)
      call    == [NoReply EXCEPT !.op = "create"]
  IN  \/ /\ title = Blank
         /\ Refused(call, "empty")
      \/ /\ title # Blank
         /\ \E k \in twins :
              /\ \A twin \in twins : k <= twin
              /\ reply' = [call EXCEPT !.key = k, !.out = "existed"]
         /\ UNCHANGED <<tables, now>>
      \/ /\ title # Blank
         /\ twins = {}
         /\ ~ParentFound(parent)
         /\ Refused(call, "not_found")
      \/ /\ title # Blank
         /\ twins = {}
         /\ ParentFound(parent)
         /\ InsertTicket(project, title, parent)

-------------------------------------------------------------------------------
(* UpdateTicket *)

Moves(key, change)   == change.status \notin {Keep, tickets[key].status}
Renames(key, change) == change.title \notin {Keep, tickets[key].title}
ChangesRow(key, change) == Moves(key, change) \/ Renames(key, change) \/ change.other

MovesIllegally(key, change) ==
  Moves(key, change) /\ ~ValidTransition(tickets[key].status, change.status)
RenamesToBlank(key, change) == Renames(key, change) /\ change.title = Blank

NewLinks(key, change) ==
  {<<key, change.blocks, "blocks">>, <<key, change.relates, "relates">>}
    \ {<<key, NoKey, "blocks">>, <<key, NoKey, "relates">>}

\* Variant: addLink without its self-link check.
TrustingLinkError(key, target) ==
  IF target = NoKey \/ target \in DOMAIN tickets THEN "ok" ELSE "not_found"

\* How addLink ends; a link the caller leaves out is not attempted.
LinkError(key, target) ==
  IF target = NoKey THEN "ok"
  ELSE IF target \notin DOMAIN tickets THEN "not_found"
  ELSE IF target = key THEN "self_link" ELSE "ok"

LinksError(key, change) ==
  IF LinkError(key, change.blocks) # "ok"
  THEN LinkError(key, change.blocks)
  ELSE LinkError(key, change.relates)

\* Variant: only success drops the claim.
DropsClaimWhenDone(key, change) == Moves(key, change) /\ change.status = Done

\* Reaching the end of the work drops the claim.
DropsClaim(key, change) ==
  Moves(key, change) /\ IsTerminal(change.status) /\ tickets[key].claimedBy # NoAgent

UpdatedRow(key, change) ==
  [tickets[key] EXCEPT
     !.status    = IF Moves(key, change) THEN change.status ELSE @,
     !.title     = IF Renames(key, change) THEN change.title ELSE @,
     !.claimedBy = IF DropsClaim(key, change) THEN NoAgent ELSE @,
     !.claimedAt = IF DropsClaim(key, change) THEN NoTime ELSE @,
     !.updatedAt = IF ChangesRow(key, change) THEN rfc3339(now) ELSE @]

UpdateTicket(key, change) ==
  LET call == [NoReply EXCEPT !.op = "update", !.key = key, !.status = change.status]
  IN  \/ /\ key \notin DOMAIN tickets
         /\ Refused(call, "not_found")
      \/ /\ key \in DOMAIN tickets
         /\ MovesIllegally(key, change)
         /\ Refused(call, "illegal_move")
      \/ /\ key \in DOMAIN tickets
         /\ ~MovesIllegally(key, change)
         /\ RenamesToBlank(key, change)
         /\ Refused(call, "empty")
      \/ /\ key \in DOMAIN tickets
         /\ ~MovesIllegally(key, change)
         /\ ~RenamesToBlank(key, change)
         /\ LinksError(key, change) # "ok"
         /\ Refused(call, LinksError(key, change))
      \/ /\ key \in DOMAIN tickets
         /\ ~MovesIllegally(key, change)
         /\ ~RenamesToBlank(key, change)
         /\ LinksError(key, change) = "ok"
         /\ tickets' = [tickets EXCEPT ![key] = UpdatedRow(key, change)]
         /\ links' = links \cup NewLinks(key, change)
         /\ reply' = [call EXCEPT !.out = IF ChangesRow(key, change) \/ NewLinks(key, change) # {}
                                          THEN "ok" ELSE "unchanged"]
         /\ UNCHANGED <<counters, comments, now>>

-------------------------------------------------------------------------------
(* AddComment *)

\* Variant: the comment leaves the ticket's updated_at alone.
UntouchedRow(key) == tickets[key]

TouchedRow(key) == [tickets[key] EXCEPT !.updatedAt = rfc3339(now)]

AddComment(key, blankBody) ==
  LET call == [NoReply EXCEPT !.op = "comment", !.key = key]
  IN  \/ /\ blankBody
         /\ Refused(call, "empty")
      \/ /\ ~blankBody
         /\ key \notin DOMAIN tickets
         /\ Refused(call, "not_found")
      \/ /\ ~blankBody
         /\ key \in DOMAIN tickets
         /\ Len(comments) < MaxComments
         /\ comments' = Append(comments, [ticket |-> key, at |-> rfc3339(now)])
         /\ tickets' = [tickets EXCEPT ![key] = TouchedRow(key)]
         /\ reply' = call
         /\ UNCHANGED <<counters, links, now>>

-------------------------------------------------------------------------------
(* ClaimTicket and ReleaseClaim *)

HeldAgainst(key, agent, force) ==
  ClaimActiveAt(tickets[key], now) /\ tickets[key].claimedBy # agent /\ ~force

\* Variant: claiming again keeps the time of the first claim.
ClaimedOnceRow(key, agent) ==
  [tickets[key] EXCEPT !.claimedBy = agent,
                       !.claimedAt = IF tickets[key].claimedBy = agent THEN @ ELSE rfc3339(now)]

ClaimedRow(key, agent) ==
  [tickets[key] EXCEPT !.claimedBy = agent, !.claimedAt = rfc3339(now)]

ClaimTicket(key, agentArg, force) ==
  LET agent == AgentId(agentArg)
      call  == [NoReply EXCEPT !.op = "claim", !.key = key, !.agent = agent, !.force = force]
  IN  \/ /\ key \notin DOMAIN tickets
         /\ Refused(call, "not_found")
      \/ /\ key \in DOMAIN tickets
         /\ HeldAgainst(key, agent, force)
         /\ Refused(call, "claimed")
      \/ /\ key \in DOMAIN tickets
         /\ ~HeldAgainst(key, agent, force)
         /\ tickets' = [tickets EXCEPT ![key] = ClaimedRow(key, agent)]
         /\ reply' = call
         /\ UNCHANGED <<counters, links, comments, now>>

\* Variant: a release forgets the time of the claim it ends.
UnheldRow(key) == [tickets[key] EXCEPT !.claimedBy = NoAgent]

UnclaimedRow(key) ==
  IF tickets[key].claimedBy = NoAgent
  THEN tickets[key]
  ELSE [tickets[key] EXCEPT !.claimedBy = NoAgent, !.claimedAt = NoTime]

\* Expired or not: the TTL does not matter to a release.
NotYours(key, agent, force) == tickets[key].claimedBy \notin {NoAgent, agent} /\ ~force

ReleaseClaim(key, agentArg, force) ==
  LET agent == AgentId(agentArg)
      call  == [NoReply EXCEPT !.op = "release", !.key = key, !.agent = agent, !.force = force]
  IN  \/ /\ key \notin DOMAIN tickets
         /\ Refused(call, "not_found")
      \/ /\ key \in DOMAIN tickets
         /\ NotYours(key, agent, force)
         /\ Refused(call, "claimed")
      \/ /\ key \in DOMAIN tickets
         /\ ~NotYours(key, agent, force)
         /\ tickets' = [tickets EXCEPT ![key] = UnclaimedRow(key)]
         /\ reply' = call
         /\ UNCHANGED <<counters, links, comments, now>>

-------------------------------------------------------------------------------
Next ==
  \/ Tick
  \/ \E project \in Projects, title \in Titles, parent \in RelatedKeys :
       CreateTicket(project, title, parent)
  \/ \E key \in KeyArgs :
       \/ \E change \in Updates : UpdateTicket(key, change)
       \/ \E blankBody \in BOOLEAN : AddComment(key, blankBody)
       \/ \E agent \in Agents, force \in BOOLEAN : ClaimTicket(key, agent, force)
       \/ \E agent \in Agents, force \in BOOLEAN : ReleaseClaim(key, agent, force)

Spec == Init /\ [][Next]_vars

-------------------------------------------------------------------------------
(* Properties *)

TypeOK ==
  /\ DOMAIN tickets \subseteq Keys
  /\ tickets \in [DOMAIN tickets -> Row]
  /\ counters \in [{keySequence} -> 1..(MaxTickets + 1)]
  /\ links \subseteq Keys \X Keys \X {"blocks", "relates"}
  /\ comments \in Seq([ticket : Keys, at : 0..MaxTime])
  /\ now \in 0..MaxTime
  /\ reply \in Replies

\* The key sequence is exactly one ahead of the keys in use: whatever creates
\* fail or are answered with an existing ticket, no key is skipped, and none is
\* handed out twice, which the UNIQUE constraint on tickets.key would refuse.
KeysSequential == DOMAIN tickets = 1..(counters[keySequence] - 1)

\* A subtask is created after its parent, so subtasks form a forest: following
\* parents from any ticket ends at a ticket without one, never in a cycle.
ParentsOlder == \A k \in DOMAIN tickets : tickets[k].parent < k

\* Links join two different tickets that exist, through every order of creates
\* and of updates that link forwards and backwards.
LinksWellFormed ==
  \A link \in links : /\ link[1] # link[2]
                      /\ {link[1], link[2]} \subseteq DOMAIN tickets

\* A ticket has a holder exactly when it has the time of its claim: whichever
\* mix of claims, takeovers, releases and closings led here, ClaimActiveAt's
\* test for a zero time never decides, and the row of an expired claim still has
\* its holder, whom no view shows.
ClaimFieldsAgree ==
  \A k \in DOMAIN tickets :
    (tickets[k].claimedBy = NoAgent) <=> (tickets[k].claimedAt = NoTime)

\* The worklog of a ticket reads in the order it was written (comments are read
\* ORDER BY created_at, id), and a ticket is never older than its worklog nor
\* newer than the clock: the stale list of get_context goes by updated_at alone.
WorklogChronological ==
  /\ \A k \in DOMAIN tickets : tickets[k].updatedAt <= rfc3339(now)
  /\ \A i \in DOMAIN comments :
       /\ comments[i].ticket \in DOMAIN tickets
       /\ comments[i].at <= tickets[comments[i].ticket].updatedAt
       /\ \A j \in 1..i :
            comments[j].ticket = comments[i].ticket => comments[j].at <= comments[i].at

\* All of the above: what every operation preserves.
IInv ==
  /\ TypeOK
  /\ KeysSequential
  /\ ParentsOlder
  /\ LinksWellFormed
  /\ ClaimFieldsAgree
  /\ WorklogChronological

\* Pairs of open tickets of one project with one title: what create_ticket's
\* idempotency is there to prevent.
Twins ==
  {p \in (DOMAIN tickets) \X (DOMAIN tickets) :
     /\ p[1] < p[2]
     /\ IsOpen(tickets[p[1]]) /\ IsOpen(tickets[p[2]])
     /\ tickets[p[1]].project = tickets[p[2]].project
     /\ tickets[p[1]].title = tickets[p[2]].title}

\* No retry of create_ticket and no status move makes twins; only an update
\* that gives one of them a new title does.
TwinsOnlyByRename ==
  [][ \A p \in Twins' \ Twins :
        \E k \in {p[1], p[2]} \cap DOMAIN tickets :
          tickets'[k].title # tickets[k].title ]_vars

\* A holder loses a claim only by force, by its own release, because the ticket
\* is closed, or to an agent that claims it when a full TTL has passed since
\* the recorded time of the claim.
ClaimsNotStolen ==
  [][ \A k \in DOMAIN tickets :
        LET old == tickets[k]
            new == tickets'[k]
        IN  old.claimedBy \notin {NoAgent, new.claimedBy} =>
              \/ reply'.force
              \/ reply'.op = "release" /\ reply'.agent = old.claimedBy
              \/ new.claimedBy = NoAgent /\ IsOpen(old) /\ ~IsOpen(new)
              \/ reply'.op = "claim" /\ now >= old.claimedAt + ClaimTTL ]_vars

\* The other side: an agent is turned away only by somebody else's claim that is
\* younger than the TTL, so a crashed agent's claim blocks nobody for longer.
\* (A Tick is no answer.)
ExpiredClaimsYield ==
  [][ now' = now /\ reply'.op = "claim" /\ reply'.out = "claimed" =>
        LET t == tickets[reply'.key]
        IN  /\ t.claimedBy \notin {NoAgent, reply'.agent}
            /\ now < t.claimedAt + ClaimTTL ]_vars

\* Work that ends leaves no claim behind, whoever holds it and whoever ends it.
ClosingReleases ==
  [][ \A k \in DOMAIN tickets :
        IsOpen(tickets[k]) /\ ~IsOpen(tickets'[k]) => tickets'[k].claimedBy = NoAgent ]_vars

\* Done and wont_do are final: no sequence of updates reopens a ticket.
TerminalIsFinal ==
  [][ \A k \in DOMAIN tickets :
        ~IsOpen(tickets[k]) => tickets'[k].status = tickets[k].status ]_vars

===============================================================================
