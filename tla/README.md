# A TLA+ specification of ticketd

ticketd is a ticket tracker for coding agents: a Go binary over one SQLite file.
Agents use it through seven MCP tools (stdio or HTTP), humans through CLI
commands and a read-only web board. Several processes may have the same file
open: each agent may run its own stdio server, and every CLI command is a process
of its own. There is no server-side coordination besides SQLite: what makes the
system correct is what each operation of `internal/store` does inside its
transaction, what it assumes of the state it reads, and what is *not* inside a
transaction.

This directory holds the specification of that core: modules, TLC configurations,
and proofs checked by TLAPS. `PROJECT.json` lists the components, the hazards the
properties are for, the runs, and for every definition the lines it models.

## The system

| Component | Source | State | Operations | Hard behaviour |
|---|---|---|---|---|
| Workflow | `internal/domain/transitions.go` | none | `CanTransition`, `IsTerminal`, `ValidateTransition` | long chains of legal moves |
| Tickets, claims | `internal/domain/ticket.go` | columns of a ticket | `ClaimActiveAt` | expiry against the wall clock, whole-second storage |
| Store operations | `internal/store/store.go` | tables `tickets`, `counters`, `links`, `comments` | `CreateTicket`, `UpdateTicket`, `AddComment`, `ClaimTicket`, `ReleaseClaim` | agents interleave, retry and crash; operations fail half-way and roll back |
| Open, migrate | `internal/store/{store,migrations}.go` | schema, `user_version`, write lock | one transaction per migration | processes open at once, crash between transactions, run into `busy_timeout` |
| Context report | `internal/store/search.go` (`ContextReport`) | the report being built | 5 + n + m queries, no transaction | operations commit between the queries |
| Search | `internal/store/search.go` (`Search`), FTS5 triggers | hit map | up to 3 queries, no transaction | as above |
| Reads for display | `GetTicketFull`, `AllTickets` | none | one snapshot each | none |
| Backup | `Backup`, `cmdBackup` | none | `VACUUM INTO` | two backups in one second |
| MCP tools | `internal/mcptools/tools.go` | none | one handler per tool | retries after lost answers |
| Rendering | `internal/mcptools/render.go` | none | formatting | claims made in prose about the report |
| CLI | `internal/cli/cli.go` | none | open, one call, exit | processes come and go |
| Web board | `internal/web/board.go` | none | one page | none |
| Process, HTTP front | `cmd/ticketd/{main,http}.go` | the goroutines of main, of the listener and of the handlers | start in one of four modes, routing, bearer check, signals, shutdown | signals in every phase, shutdown with handlers and streams at work |

The handlers and the CLI commands call one store operation each (or one context
report); the store calls the workflow inside its transactions. `_txlock=immediate`
makes every `BeginTx` take SQLite's write lock at once, so write operations
serialize; reads outside a transaction see the last committed state.

What makes the components correct: keys unique and gap-free across projects;
subtasks a forest; links sound; no twins from retried creates; terminal statuses
final and reached through work; a claim that is neither lost early nor held for
ever; a worklog that reads in order; an opened store always on a whole schema;
and a context report that is right about whatever did not change while it was put
together.

## Modules

`Workflow` - the seven statuses and the table of moves, as pure operators.

`TicketStore` - the database and the five operations. One action per operation,
with one disjunct per way it can end: every early return of the Go function is
a disjunct that leaves the tables alone (`Refused`) and answers why. `reply` is
what the last operation answered; properties use it to say *who* did something.
Correspondence:

| TLA+ | code |
|---|---|
| `tickets[k]` | row of `tickets` with key `T-k`; fields as the columns, `NoAgent`/`NoTime`/`NoKey` for `''`, `''`, `NULL` |
| `counters` | table `counters`, a partial function from row name to `next` |
| `links` | table `links` with its primary key `(from, to, kind)` (hence `INSERT OR IGNORE` is a union) |
| `comments` | table `comments` in id order, with `created_at` only |
| `now`, `Second`, `rfc3339` | the clock, in ticks finer than the stored second; `rfc3339` drops the fraction |
| `Changes`, `Keep` | `UpdateParams`: any combination of a status, a title, a link of each kind and one flag for the priority, description and labels; `Keep` is the nil pointer |
| `Blank` | a title `strings.TrimSpace` makes empty |

`TicketHistory` - `TicketStore` with two history variables (`worked`, `granted`)
that say what the database has forgotten: the tickets ever worked on, and the exact
instant at which the last claim was granted.

`Migrations` - `Open` and `migrate` in several processes. `db` is the committed
file, `writer` the write lock, `work` the writer's uncommitted copy, `pc[p]` where
process `p` is in `Open`, `index[p]` its loop variable. `user_version` is read in
`ReadVersion`, outside of any transaction, as in the code. `Applies` says when
SQLite accepts a migration (`CREATE TABLE` and `ADD COLUMN` fail on what exists).
A database at version 1 has the counter of the one project that could create tickets
under the old per-project sequences, and the keys it handed out; `Init`
ranges over new files and files left by earlier versions. An open store also
creates tickets, to show that the key it hands out next is new. `OpenFails` is every error return of
`Open` that has nothing to do with the schema or the lock: of `Ping`, of the read of the version, of
a statement, of the commit; it counts as a crash.

`ContextReport` - one reader that assembles a report query by query while
`TicketStore!Next` goes on (`StoreStep`). `step` is the next query, `pending` the
loop over tickets inside a section. Three memory variables record what the store
changed since the first query, so that properties can speak of the tickets that
were left alone. `EndReport` hands the report over, or is the error return, which
any query can be.

`StoreTx` - the five operations statement by statement. `tx` is the transaction that
holds SQLite's write lock (`_txlock=immediate`: there is at most one): the call it
serves, the next statement (`step`), a private copy of the tables (`work`), the time
it has read (`stamp`) and the answer it is going to give. `BeginTx`, one action per
statement, `Commit`, and `Fail` for an early return with its deferred `Rollback`;
`Abort` is everything that cuts an operation off: an I/O error, a cancelled context, a
commit that fails, a crash. The clock ticks between any two statements. The guards and
rows are the operators of `TicketStore`, instantiated over the transaction's copy
(`Work`). `StoreSpec` is the refinement: `TicketStore!Spec` with the clock replaced by
`seen`, the time the running operation has read, if any.

`AgentSessions` - agents that share one `TicketStore` and behave as the tool
descriptions in `tools.go` ask: look at `get_context`, claim, start, work, renew, finish
or release. `session[a]` is where agent `a` stands and the call it is waiting for.
`Execute` is the handler and the store operation; the answer arrives in `Receive`, some
time later. Faults, `MaxFaults` of them, are calls or answers that are lost or late and made
again (`Retry`), sessions that stop without finishing (`GiveUp`) and sessions that die
holding what they hold (`Die`). The handlers pass the context of the SDK on to the store and
nothing here says when that is cancelled, so a call that its agent no longer waits for may still
reach the store: such calls are in `abandoned`, one per fault, and `ExecuteLate` carries them out
at any later time, or never. Two agents with the same id, forced takeovers and
humans at the CLI are not here: each may legitimately break what is stated.

To keep the state finite with claims that expire for ever, time is counted back from
the present. `now` runs through one second, from `ClaimTTL` to `MaxTime`; when it is over, `Age`
takes a second off the time of every claim instead of adding one to the clock. Claims are
stored to the second and leases counted to the tick, as in the code.

`Search` - one search, query by query, while `TicketStore!Next` goes on, in the manner
of `ContextReport`. `hits` is the hit map, `params` the arguments, `results` the keys
handed over. Which titles and comments match is a constant, ranks are chosen afresh by
each query, because bm25 depends on everything indexed at that time.

`Server` - one process: `main` is where the main goroutine is, `listener` the goroutine
of `ListenAndServe`, `conn[c]` the connection of client `c` and its handler. A request
is its path, its method and whether it bears the token; `mux`, `rootRouter` and `bearerAuth` find
its handler as the functions of these names do. A client may leave while its handler works; the
handler is `orphaned` and goes on until it returns.

`MCTicketStore`, `MCTicketHistory`, `MCContextReport`, `MCStoreTx`, `MCSearch`,
`MCAgentSessions` - the calls and updates callers may ask for in the runs, symmetries and views,
and the documented promises that TLC refutes.

`TicketStoreProofs`, `TicketHistoryProofs`, `MigrationsProofs`, `ServerProofs`,
`StoreTxProofs`, `AgentSessionsProofs`, `ContextReportProofs`, `SearchProofs` - theorems and
proofs about the modules of those names.

Each modelling module also holds a few variants of its definitions (each commented
as such): plausible slips, such as one key counter per project, that show a property
does depend on the definition. `PROJECT.json` says which property refutes which.

## Runs

| Run | Question | Bounds | Result |
|---|---|---|---|
| `StoreTickets` | Do keys, parents and terminal statuses survive every order of creates, retries, refusals, moves, renames, links and comments; can anything but a rename make open twins? | 2 tickets, 1 comment, 2 instants, 2 titles and a blank one, 3 project arguments of which two mean `default`, parents T-1 to T-3 (T-3 never exists), links to T-1 from every ticket; the view leaves out the last answer (43,946 states) | holds |
| `StoreTx` | Does an operation, interrupted between any two statements, look like one step of `TicketStore`; are links sound and worklogs in order; does it ever act on a decision that is no longer true? | 2 tickets, 2 comments, 2 agents, 3 instants of half a second, updates whose first or second link is refused (871,267 states) | holds |
| `HistoryLease` | Is a claim neither stolen, nor held past its TTL, nor left on closed work; how much of its TTL does a granted claim get; was done work worked on? | 1 ticket, 3 agents (one anonymous), TTL 4 ticks, second 2 ticks, 8 instants | holds |
| `Migrate` | Can processes that open together end up on half a schema or hand out a used key; if openings do not overlap, does the version tell the schema and does opening complete? | 2 processes, 2 crashes or errors, new and old databases, keys up to 3 | holds |
| `Report` | Is a ticket that stays put in its section and in no other, and in none of a report for another project; are suggestions free to take, excerpts the newest, stale tickets silent, the limits kept? | 1 ticket over 4 statuses with an agent and 2 comments, and one of another project that waits (`FirstTicketOnly`); `TopN` 1, 2 instants, which are the TTL and more than `StaleAfter`, 0; the view leaves out the last answer (442,054 states) | holds |
| `Search` | Does a search find what matches and was left alone, list nothing else, and keep the best when it cuts? | 3 tickets of which 2 may match, 1 comment, 2 ranks, limits that default to 1 and are cut at 2 | holds |
| `AgentSessions` | Do agents that lose answers, retry, give up and die ever work on one open ticket together, or trust a lease the store does not have, while late calls reach the store? | 2 agents, alike, 1 ticket, second 2 ticks, TTL 4 ticks, 2 faults; the view leaves out the last answer, links and comments (1,100,185 states) | holds |
| `AgentProgress` | Do repeated creates make twins; is every ticket finished in the end, and no closed ticket left claimed? | 2 agents, 2 tickets, second and TTL 1 tick, 1 fault (266,473 states) | holds |
| `Server` | Is the store closed only under idle handlers, do the layers of the routing guard the tools and nothing else, do exit codes mean what they say, does a signal always end the process? | 2 connections, a token, 4 modes, requests of 4 paths and 2 methods | holds |
| `StoreParking` | DESIGN.md: a todo ticket can be parked in backlog | | refuted |
| `MigrateRace` | migrations.go: `user_version` says which migrations ran | 2 processes, no crash | refuted |
| `ReportStarved` | render.go: all todo tickets are claimed when it says so | `FetchLimit` 2 for 50 | refuted |

Why the bounds are enough to be interesting: the runs about claims (`HistoryLease`, `AgentSessions`) have a TTL of two stored
seconds, a clock with two ticks per second and enough ticks for a claim, its
expiry and a takeover with a renewal in between; one ticket suffices because claims
of different tickets never meet. Keys, parents and twins need two tickets, and keys
that do not exist yet or never will. Migration races need two
processes, and crashes can fall between any two steps. The sections of a
report treat each ticket separately, so one ticket to which things happen is enough for them; a second
one that waits is there for the limit of the suggestions, scaled to 1, and for reports about one
project. An instant is long enough for a claim to lapse and a ticket to go stale. A ticket that moves
while the report is assembled may be in no section at all: `SettledTicketsInPlace` says
what the separate queries do guarantee.

A transaction excludes every other one, so one `tx` is enough for `StoreTx`: what other
callers do falls between `Return` and the next `BeginTx`, and what they see is the
committed state. The lease run has one
contended ticket, because leases of different tickets never meet, a TTL of two stored seconds and
two ticks to a second, so that a claim can lose a fraction; two faults are a call that is late and
a session that dies or another late call. A second ticket matters where a repeated create could
make one: `AgentProgress` has it, with one title, so that its two tickets are open one
after the other: a create while the first is open is answered with the first. The liveness properties need claims to lapse but no
fractions, and have the shortest clock that does it; their one fault is any fault, at any point. A cut
that hides a match needs three tickets and a limit of two (50 in the code) or one (10).
The `VIEW` of `Search` leaves the last answer of the store out of its states, which
nothing in `Search` reads.

Deadlock checking is off in `Server` alone, whose process exits; in the other runs
the store, the clock or a process that opens it can always go on.

### What the refuted promises mean

* `StoreParking`: no row of the transition table has `backlog` as a target, so a
  todo ticket can be blocked or closed as `wont_do`, but not parked.
* `MigrateRace`: from version 1, two processes read 1, one runs 002 and 003, the
  other then runs 002 again and sets `user_version` to 2 on a schema that has
  003's columns. Its own 003, and that of every later `Open`, fails on the
  duplicate column, so the database cannot be opened until somebody sets the
  version by hand. `Migrate` shows that nothing worse happens: a store that does open
  is on a whole schema and continues the key sequence.
* `ReportStarved`: `LIMIT 50` is applied before claims are filtered out.

### What the other runs say that is not obvious

* A lease is shorter than `ClaimTTL` by up to one second: `claimed_at` is stored without
  its fraction and compared with an exact clock. `LeaseWithinASecond` is the exact bound.
* Claims are advisory. `update_ticket` does not look at them, so an agent that finishes
  after its lease has run out closes a ticket somebody else may have taken over, and
  `claim_ticket` also claims closed tickets. `OneWorkerPerTicket` is therefore about agents whose
  lease has at least a second left by their own, pessimistic count (from when they asked), and about
  open tickets: when one agent closes a ticket that it lost to a second, the claim of the
  second goes too, and a third one may renew an old claim of its own on it. That takes
  three agents; it came to light when the invariant was to be proved for any number. And
  `ClosedTicketsEndUnclaimed` says that claims on closed work go away by themselves.
* An agent must not count on the last second of its lease: a claim asked for at 10.9 s is stored
  as 10 s, and another agent is granted it TTL seconds later, while the first still counts 0.9 s.
  Without the second of slack TLC refutes `LeasesAreBacked` and `OneWorkerPerTicket`.
* A `release` that its agent stopped waiting for may reach the store after the same agent has claimed
  the ticket again, and drops that claim: `ReleaseClaim` compares the holder only, and the holder
  is the same. Both properties except an agent that has such a release out (`Disowned`); without the
  exception TLC refutes them. Every other late call (claims, renewals, starts, finishes and creates)
  leaves them true.
* A `create_ticket` repeated after the first ticket was already finished makes a second
  one: the twin check is about open tickets, and so is `RetriesMakeNoTwins`.
* A ticket that changes while a search is under way may be listed with the flags of
  what it was, or not at all; the search properties are about the others.
* A stream never goes idle, so a server with a stream open that is told to stop waits
  for the whole grace, exits with 1 and leaves the store to the operating system, although
  `main.go` speaks of a clean shutdown. `ExitCodeTells` and `StopsWhenTold` are what holds in every case.
  When the listener fails and a signal arrives at the same time, `select` may pick the
  signal, and the process exits with 0 although it never listened.

## Fairness

`Migrate`: `FairSpec` has weak fairness of `OpenStep(p)`: a process that is in `Open`
goes on executing it, and one that has closed the store, or whose `Open` failed or
crashed, is started again by its user. `BusyTimeout`, `Close`, `Crash` and `CreateTicket`
have no fairness, and crashes are finite in number. `OpenCompletes` and `VersionTellsSchema` are
conditional on openings that do not overlap: otherwise both are false, for the reason
`MigrateRace` shows.

`AgentSessions`: time passes, and a call that was made is executed and answered (weak
fairness of `Age`, `Execute` and `Receive`; a call that is lost is a fault, and faults
are finite; a late call may be executed or not). A living session picks up work that it sees again and again, and finishes
work that it keeps coming back to (strong fairness of `Pick` and `Finish`: weak fairness
would let it be distracted for ever by tickets that others grab first, or by renewals).
Agents are asked by `contextDesc` to look for work and by `updateDesc` to finish it. One session is
alive at any time.

`Server`: the main goroutine is scheduled, the timer of the grace fires, and the SDK's
stdio transport returns once its context is cancelled. Nothing is assumed of handlers and
clients: `StopsWhenTold` holds with hanging handlers and endless streams.

The store itself promises no progress; `ExpiredClaimsYield` is the safety side of "a
crashed agent never blocks work", `EveryTicketIsFinished` the liveness side.

## Proofs

`TicketStoreProofs` proves, for every value of the constants that satisfies the
assumptions of `TicketStore`, that `IInv` is inductive:

    IInv == TypeOK /\ KeysSequential /\ ParentsOlder /\ LinksWellFormed
              /\ ClaimFieldsAgree /\ WorklogChronological

The conjuncts need each other. A new ticket gets `counters[keySequence]` as its key,
which is fresh only because of `KeysSequential`; its parent is older because the
parent exists and existing keys are below the counter. Worklogs are in
order only because `updated_at` bounds the comments *and* is bounded by the clock
(`WorklogChronological` has both halves). Timestamps are multiples of `Second` cut from
`now`, and lemma `Timestamps` gives what is needed about `%`: stamps never exceed the
time, are monotonic, and lose less than a second. There is one `...Preserves` lemma per
action; `RowRewritePreserves` serves the actions that rewrite one row.

The action properties follow from `IInv` and two lemmas about steps: `RowSteps`, the
five ways an existing row can come out of a step, and `ColumnSteps`, what that means
for project, status and claim. `ClaimsAreSafe`, `FinalityHolds`, `ClosingReleasesHolds`
and `TwinsNeedRename` cite these; `ExpiredClaimsAreFree` is proved action by action.

`TicketHistoryProofs` extends `IInv` with the history (`HistoryInv`). `HoldsLastGrant`
is the link: the stored time of a claim is the second of the last grant, so a takeover
that waited a TTL since the stored time waited all but a second since the grant
(`LeaseIsKept`). `DoneMeansWorked` is an induction over the table of moves.

The assumptions: the defaults for omitted arguments differ from the omitted
argument, `Second` and `ClaimTTL` are positive, updates are partial updates, bounds
are natural numbers. The bounds may be as large as one likes, so the theorems are about
the unbounded store up to any number of tickets.

`MigrationsProofs` proves `OpenMeansReady` and `VersionNotAhead` for any set of processes,
any number of crashes and of keys. Neither is inductive. The invariant `IInv` of
`Migrations` adds what a process in the loop trusts (`Trusts`: the migrations below its
index are in the committed schema, even if somebody has set the version back), what the
holder of the write lock has in hand (`WorkInHand`: a database that `Advances` the
committed one, so a commit takes nothing from the others), and that keys are
sequential in both copies (`Numbered`), which is what makes `MAX(key) + 1` of migration 002
the right start of the sequence also when it runs a second time. `OutsidePreserves` and
`InsidePreserves` serve the steps outside and inside of a transaction.

`VersionTellsSchema` speaks of whole behaviours: as long as openings do not overlap, the
version is exact. `VersionIsExact` proves it from one more invariant, `AloneInv`, of the steps
that keep to that condition: the schema `Fits` the version exactly, and the one process
in `Open`, if there is one, has its index at that version and the next migration in hand.

`ServerProofs` proves `StoreOutlivesHandlers` and `ExitCodeTells` for any number of
connections, with or without a token. They rest on `QuietBeforeClose`: from `BeginShutdown` on nothing listens, so when
a poll finds every connection idle and closes it, none comes back before `CloseStore`;
and on `CodeDecided`, which says on what grounds a code was chosen.
`StopsWhenTold` is liveness and is checked by TLC alone.

`StoreTxProofs` discharges the atomicity that `TicketStore` takes for granted:
`TransactionsAreAtomic` is `TxSpec => StoreSpec`. A transaction begins, reads, writes its
copy and ends in many steps; of these only the one that ends it is a step of the abstract
store, and everything else is a stutter. So the invariant has to carry to the
`Commit` all that the operation has found out on the way. That is what `CopyTracksTables`
says, one conjunct per operation and stage: what the copy is in terms of the committed
tables and the call, and that the checks behind it (no twin, a parent that exists, a legal
move, no foreign claim) are still true of the committed tables at the time `seen`. The time read
is the abstract clock while the operation runs, so that the steps of the machine's clock
meanwhile are stutters, and `Return` lets the abstract clock catch up. `LinksWellFormed` and
`WorklogChronological` of the committed tables then follow from the theorems about `TicketStore`.

`AgentSessionsProofs` proves the safety properties of `AgentSessions` for any number of
agents, tickets, titles and faults, any TTL of whole seconds and any number of ticks to a second.
`OneWorkerPerTicket` holds because a lease an agent trusts is backed by a claim on record that runs
as long but for less than a second (`LeasesAreBacked`), and a ticket records one claim. Backing is kept
because an agent counts from when it asked and the store from the second in which it executed
(`StampOfSecond`), and from then on both lose a tick with every tick; because `ClaimActiveAt` protects
a claim that has some time left; and because nobody but its holder releases it, while closing its ticket
ends what is claimed of it. Late calls need two more facts: `LateCallsFiled`, that they are about
tickets that exist and filed under faults that have happened, so that a new one overwrites none;
and that a late release leaves its agent `Disowned` for good. `RetriesMakeNoTwins` uses that sessions never
rename. The constants are those of `SessionConstants`: a TTL of whole seconds, as `ticket.go` has it,
every agent gives an id, and sessions only start and finish tickets.

`ContextReportProofs` proves all properties of `ContextReport` for any number of tickets
and comments and any limits. `ReportInv` says for each query already made what its result is
worth now: the sections against the tickets that have not `moved`, the excerpts against the
comments there were at the start, a suggestion against the clock.

`SearchProofs` does the same for `Search` (`SearchInv`): after each query, what the hit map
says of titles and comments is true of every ticket nobody `touched`. What the last query
lists rests on lemmas about lists of any length: `InsertionSorts` and `SortedFacts` (inserting row by
row gives a list of the same rows in which ranks never fall), `CutFacts` and
`CutKeepsFirst` (what a cut drops ranks no better than what it keeps). `Sorted` is a recursive function
over the rows, and the lemmas are inductions over data. The library's induction theorems are
out of the provers' reach, so `ChainExists` and `ChainSorts` argue by the least number of rows for
which the claim fails, which `LeastNat` of `TicketStoreProofs` provides.

Only model-checked are the four liveness properties, `OpenCompletes`,
`EveryTicketIsFinished`, `ClosedTicketsEndUnclaimed` and `StopsWhenTold`, which rest on fairness, whose
`ENABLED` the provers cannot handle, and `TokenGuardsMCP`, which is about single requests: TLC
tries them all. Every other property of a passing run is a theorem. The refuted promises are
refuted by TLC's counterexamples.

## Not modelled

* A clock that is set back. `Tick` only goes forward.
* Priorities, labels, descriptions, comment bodies, and with them the order of the
  lists, the tokenizer and ranking of full-text search, and rendering.
* `GetTicketFull`, `AllTickets`, the board: reads of one snapshot.
* Backup: one statement of SQLite and a file name.
* The inside of the MCP SDK and of net/http. `Server` models what `main.go` and
  `http.go` rely on. The deferred `Close` is checked against the handlers of net/http, those whose
  client has left included; goroutines the SDK may leave behind a handler that has returned, and
  what a stdio session is doing when its transport returns, are the SDK's.
* Rows written by hand, other programs on the database file, agents that share an id.

## Plan

1. (done) `Workflow`, `TicketStore`, its runs and its proofs; `TicketHistory`.
2. (done) `Migrations` and its proofs; `ContextReport`.
3. (done) `StoreTx`, which discharges the atomicity `TicketStore` takes for granted;
   `AgentSessions`; `Search`; `Server` and its proofs.
4. (done) Proofs of `StoreTx`, with the refinement, of `AgentSessions`, `ContextReport` and
   `Search`; `VersionIsExact`.
5. What is left is not safety of what is modelled but breadth: the order of the lists in
   `ContextReport` (priorities), and what an `AgentSessions` with forced takeovers may still
   promise.
