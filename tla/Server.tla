--------------------------------- MODULE Server ---------------------------------
(***************************************************************************)
(* The life of one ticketd process: main chooses between a subcommand, the *)
(* stdio transport and the HTTP server, each over a store it opens first   *)
(* and closes last.  HTTP handlers run in goroutines of their own while    *)
(* main waits for a signal or for the listener to fail; Shutdown waits for *)
(* them for shutdownGrace, and os.Exit ends whatever still runs.           *)
(*                                                                         *)
(* net/http, the MCP SDK and the kernel's signals are external and modelled*)
(* as main uses them.  What a request does to the tickets is TicketStore's *)
(* matter; here it is in progress, or answered.                            *)
(***************************************************************************)
EXTENDS Integers

CONSTANTS
  Clients,        \* connections to the HTTP server
  TokenRequired   \* a token was given

ASSUME TokenIsFlag == TokenRequired \in BOOLEAN

VARIABLES
  mode,      \* what the command line asks for
  main,      \* where the main goroutine is
  failed,    \* the transport returned an error
  code,      \* the exit code decided on
  db,        \* the handle of the store
  told,      \* a SIGINT or SIGTERM has arrived
  listener,  \* the goroutine of ListenAndServe; failed, it has sent its error
  conn,      \* the connections
  command    \* the subcommand and how its call of the store ended

mainVars == <<main, failed, code>>
serverVars == <<mode, mainVars, db, told, listener, conn, command>>

Modes == {"cli", "stdio", "http", "other"}

\* What the routing reads of a request: its path and method, /mcp standing for every
\* path nobody registered, and whether its Authorization header has the token.
Requests == [path : {"/", "/board", "/healthz", "/mcp"}, method : {"GET", "POST"}, bearer : BOOLEAN]

NoRequest == [path |-> "/", method |-> "GET", bearer |-> FALSE]

Commands == {"create", "ls", "show", "comment", "claim", "context", "backup"}

Undecided == -1
Killed    == 130

Closed == [at |-> "closed", request |-> NoRequest]

NoCommand == [name |-> "none", call |-> "none"]

ServerInit ==
  /\ mode \in Modes
  /\ main = "opening"
  /\ failed = FALSE
  /\ code = Undecided
  /\ db = "none"
  /\ told = FALSE
  /\ listener = "none"
  /\ conn = [c \in Clients |-> Closed]
  /\ command = NoCommand

-------------------------------------------------------------------------------
(* main *)

Exit(status) == main' = "exited" /\ code' = status

\* Every mode but version opens the store first.
OpenStore ==
  /\ main = "opening"
  /\ \/ /\ Exit(1)
        /\ UNCHANGED <<db, listener>>
     \/ /\ main' = IF mode = "cli" THEN "dispatching" ELSE "serving"
        /\ db' = "open"
        /\ listener' = IF mode = "http" THEN "starting" ELSE listener
        /\ UNCHANGED code
  /\ UNCHANGED <<mode, failed, told, conn, command>>

\* From NotifyContext to the deferred stop a signal cancels the context, once;
\* before and after, and in a subcommand, it kills the process.
Signal ==
  /\ main # "exited"
  /\ ~told
  /\ told' = TRUE
  /\ IF main \in {"serving", "draining", "returned"}
     THEN UNCHANGED mainVars
     ELSE Exit(Killed) /\ UNCHANGED failed
  /\ UNCHANGED <<mode, db, listener, conn, command>>

\* The client of a stdio server went away, the context was cancelled, or the
\* transport failed; which of these the SDK calls an error is open.
StdioReturns ==
  /\ main = "serving"
  /\ mode = "stdio"
  /\ main' = "returned"
  /\ failed' \in BOOLEAN
  /\ UNCHANGED <<mode, code, db, told, listener, conn, command>>

UnknownTransport ==
  /\ main = "serving"
  /\ mode = "other"
  /\ main' = "returned"
  /\ failed' = TRUE
  /\ UNCHANGED <<mode, code, db, told, listener, conn, command>>

\* fatal: os.Exit runs no deferred Close.
Fatal ==
  /\ main = "returned"
  /\ failed
  /\ Exit(1)
  /\ UNCHANGED <<mode, failed, db, told, listener, conn, command>>

ReturnFromMain ==
  /\ main = "returned"
  /\ ~failed
  /\ main' = "closing"
  /\ code' = 0
  /\ UNCHANGED <<mode, failed, db, told, listener, conn, command>>

\* The deferred Close, and the end of the process.
CloseStore ==
  /\ main = "closing"
  /\ db' = "closed"
  /\ Exit(code)
  /\ UNCHANGED <<mode, failed, told, listener, conn, command>>

-------------------------------------------------------------------------------
(* Subcommands *)

\* Variant: a command prints the error of its call and reports success.
CodeOfAnyCall(call) == 0

CodeOfCall(call) == IF call = "refused" THEN 1 ELSE 0

\* Help needs no call and a command that is unknown or malformed makes none; the
\* others make one call of the store.
RunCommand ==
  /\ main = "dispatching"
  /\ \/ \E name \in {"help", "unknown"} \cup Commands :
          /\ command' = [NoCommand EXCEPT !.name = name]
          /\ code' = IF name = "help" THEN 0 ELSE 2
     \/ \E name \in Commands, call \in {"done", "refused"} :
          /\ command' = [name |-> name, call |-> call]
          /\ code' = CodeOfCall(call)
  /\ main' = "closing"
  /\ UNCHANGED <<mode, failed, db, told, listener, conn>>

-------------------------------------------------------------------------------
(* The HTTP server *)

\* The listener is bound or not, fails later, or finds that Shutdown was called.
Listen ==
  /\ main # "exited"
  /\ \/ listener = "starting" /\ listener' \in {"accepting", "failed"}
     \/ listener = "accepting" /\ listener' = "failed"
  /\ UNCHANGED <<mode, mainVars, db, told, conn, command>>

\* The error of ListenAndServe reaches main, and serveHTTP returns it.
ListenerError ==
  /\ main = "serving"
  /\ listener = "failed"
  /\ main' = "returned"
  /\ failed' = TRUE
  /\ UNCHANGED <<mode, code, db, told, listener, conn, command>>

\* The select may choose this although the listener has failed as well; its error
\* then stays in the buffer of errc.
BeginShutdown ==
  /\ main = "serving"
  /\ mode = "http"
  /\ told
  /\ main' = "draining"
  /\ listener' = "closed"
  /\ UNCHANGED <<mode, failed, code, db, told, conn, command>>

\* A handler runs, or is about to; orphaned, its client has gone.
Busy(c) == conn[c].at \in {"received", "working", "streaming", "orphaned"}

\* Shutdown polls: it closes the connections that are idle, and returns when
\* there are no others.
Poll ==
  LET quiescent == \A c \in Clients : ~Busy(c)
  IN  /\ main = "draining"
      /\ conn' = [c \in Clients |-> IF Busy(c) THEN conn[c] ELSE Closed]
      /\ main' = IF quiescent THEN "returned" ELSE main
      /\ UNCHANGED <<mode, failed, code, db, told, listener, command>>

\* Variants: the error of Shutdown is dropped; Shutdown has no deadline.
GraceForgiven ==
  /\ main = "draining"
  /\ main' = "returned"
  /\ UNCHANGED <<mode, failed, code, db, told, listener, conn, command>>
GraceUnlimited == FALSE /\ UNCHANGED serverVars

\* shutdownGrace is over before a poll found all connections idle.
GraceOver ==
  /\ main = "draining"
  /\ main' = "returned"
  /\ failed' = TRUE
  /\ UNCHANGED <<mode, code, db, told, listener, conn, command>>

-------------------------------------------------------------------------------
(* Connections and their handlers, which run until the process ends *)

AtWork(c, at) ==
  /\ main # "exited"
  /\ conn[c].at = at
  /\ UNCHANGED <<mode, mainVars, db, told, listener, command>>

Connect(c) ==
  /\ AtWork(c, "closed")
  /\ listener = "accepting"
  /\ conn' = [conn EXCEPT ![c] = [Closed EXCEPT !.at = "idle"]]

Send(c) ==
  /\ AtWork(c, "idle")
  /\ \E request \in Requests :
       conn' = [conn EXCEPT ![c] = [at |-> "received", request |-> request]]

\* The client leaves, or the server gives up on an idle connection after
\* readHeaderTimeout or idleTimeout.  A handler is told by its context, but runs
\* until it returns; a stream has no timeout.
HangUp(c) ==
  \/ /\ AtWork(c, "idle")
     /\ conn' = [conn EXCEPT ![c] = Closed]
  \/ /\ AtWork(c, "working") \/ AtWork(c, "streaming")
     /\ conn' = [conn EXCEPT ![c] = [Closed EXCEPT !.at = "orphaned"]]

\* An answer keeps the connection open, unless the server is shutting down.
Answer(c) == conn' = [conn EXCEPT ![c] = IF listener = "closed" THEN Closed
                                         ELSE [Closed EXCEPT !.at = "idle"]]

bearerAuth(request) == IF TokenRequired /\ ~request.bearer THEN "unauthorized" ELSE "mcp"

\* Variant: bearerAuth stands before the calls only.
GuardsCallsOnly(request) ==
  IF request.method # "GET" THEN bearerAuth(request)
  ELSE IF request.path = "/" THEN "redirect" ELSE "mcp"

rootRouter(request) ==
  IF request.path = "/" /\ request.method = "GET" THEN "redirect" ELSE bearerAuth(request)

\* The handler that serves a request, whatever its method at the first two.
mux(request) ==
  CASE request.path = "/board"   -> "board"
    [] request.path = "/healthz" -> "healthz"
    [] OTHER                     -> rootRouter(request)

\* Redirects, health checks and refusals are answered at once.  The board and the
\* MCP endpoint go to work; a GET there opens a stream of server-sent events.
Handle(c) ==
  LET handler == mux(conn[c].request)
  IN  /\ AtWork(c, "received")
      /\ \/ /\ handler \in {"board", "mcp"}
            /\ conn' = [conn EXCEPT ![c] = [Closed EXCEPT !.at = "working"]]
         \/ /\ handler = "mcp"
            /\ conn[c].request.method = "GET"
            /\ conn' = [conn EXCEPT ![c] = [Closed EXCEPT !.at = "streaming"]]
         \/ /\ handler \in {"redirect", "healthz", "unauthorized"}
            /\ Answer(c)

\* The handler answers, or panics and recoverMiddleware answers for it; one whose
\* client has gone answers nobody.
Finish(c) ==
  \/ /\ AtWork(c, "working")
     /\ Answer(c)
  \/ /\ AtWork(c, "orphaned")
     /\ conn' = [conn EXCEPT ![c] = Closed]

-------------------------------------------------------------------------------
MainStep ==
  \/ OpenStore \/ StdioReturns \/ UnknownTransport
  \/ Fatal \/ ReturnFromMain \/ CloseStore
  \/ RunCommand
  \/ ListenerError \/ BeginShutdown \/ Poll \/ GraceOver

ServerNext ==
  \/ MainStep
  \/ Signal
  \/ Listen
  \/ \E c \in Clients : Connect(c) \/ Send(c) \/ HangUp(c) \/ Handle(c) \/ Finish(c)

\* The main goroutine is scheduled, the timer of the grace fires, and a stdio
\* transport notices that its context is cancelled.  Nothing is assumed of
\* clients and handlers: a stream may stay open and a handler may hang.
ServerFairness ==
  /\ WF_serverVars(OpenStore)
  /\ WF_serverVars(told /\ StdioReturns)
  /\ WF_serverVars(UnknownTransport)
  /\ WF_serverVars(Fatal \/ ReturnFromMain \/ CloseStore)
  /\ WF_serverVars(RunCommand)
  /\ WF_serverVars(ListenerError \/ BeginShutdown)
  /\ WF_serverVars(GraceOver)

ServerSpec == ServerInit /\ [][ServerNext]_serverVars /\ ServerFairness

-------------------------------------------------------------------------------
(* Properties *)

\* Close never pulls the store from under a handler, even of a client that has gone:
\* main closes it only after Shutdown found every connection idle, and otherwise
\* leaves it to os.Exit.
StoreOutlivesHandlers ==
  main = "closing" \/ db = "closed" => \A c \in Clients : ~Busy(c)

\* What exit codes tell a supervisor or a script.  0: every handler the server
\* started came to its end and no stream was cut, and a subcommand that calls the store
\* was not refused.  1 or 2 from a subcommand: its call, if any, changed nothing.
ExitCodeTells ==
  main = "exited" =>
    /\ code = 0 => /\ \A c \in Clients : ~Busy(c)
                   /\ command.name \in Commands => command.call = "done"
    /\ code \in {1, 2} => command.call # "done"

\* What the layers of the routing, each tested by itself, come to together.  A
\* request without the token that any handler works on asked for the board; and
\* nobody is turned away at once but who asked for GET / or /healthz, or has no
\* token and wanted something else than the board.
TokenGuardsMCP ==
  [][ \A c \in Clients :
        LET request  == conn[c].request
            stranger == TokenRequired /\ ~request.bearer
        IN  conn[c].at = "received" =>
              /\ stranger /\ conn'[c].at \in {"working", "streaming"}
                   => request.path = "/board"
              /\ conn'[c].at \in {"idle", "closed"} =>
                   \/ request.path = "/healthz"
                   \/ request.path = "/" /\ request.method = "GET"
                   \/ stranger /\ request.path # "/board" ]_serverVars

\* A signal ends the process, in whichever phase it arrives and however long
\* clients hold their streams, and so does a listener that fails.
StopsWhenTold == told \/ listener = "failed" ~> main = "exited"

===============================================================================
