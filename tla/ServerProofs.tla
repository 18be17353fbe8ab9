------------------------------ MODULE ServerProofs ------------------------------
(***************************************************************************)
(* Proofs about Server for any number of connections, with or without a    *)
(* token: main closes the store only when no handler runs, and exit codes  *)
(* say what they should.                                                   *)
(***************************************************************************)
EXTENDS Server, TLAPS

Connections ==
  [at : {"closed", "idle", "received", "working", "streaming", "orphaned"}, request : Requests]

CommandRuns ==
  [name : {"none", "help", "unknown"} \cup Commands, call : {"none", "done", "refused"}]

ServerTypeOK ==
  /\ mode \in Modes
  /\ main \in {"opening", "dispatching", "serving", "draining", "returned", "closing", "exited"}
  /\ failed \in BOOLEAN
  /\ code \in {Undecided, 0, 1, 2, Killed}
  /\ db \in {"none", "open", "closed"}
  /\ told \in BOOLEAN
  /\ listener \in {"none", "starting", "accepting", "failed", "closed"}
  /\ conn \in [Clients -> Connections]
  /\ command \in CommandRuns

Quiet == \A c \in Clients : conn[c].at = "closed"

\* Nothing listens that could take another connection.
Deaf == listener \in {"none", "closed"}

\* Connections need a listener, and only serveHTTP starts one.
ListenerFirst ==
  /\ listener = "none" => Quiet
  /\ mode # "http" => listener = "none"
  /\ main \in {"opening", "dispatching"} => listener = "none"

\* From the call of Shutdown on nobody connects; if main goes on to return without
\* an error, nobody is connected any more.
QuietBeforeClose ==
  /\ main = "draining" => listener = "closed"
  /\ main = "returned" /\ ~failed => Quiet /\ Deaf
  /\ main = "closing" => Quiet /\ Deaf
  /\ db = "closed" => Quiet /\ main = "exited"

\* The exit code is decided once, and on these grounds.
CodeDecided ==
  /\ main \notin {"closing", "exited"} => code = Undecided /\ command = NoCommand
  /\ code = 0 => Quiet /\ (command.name \in Commands => command.call = "done")
  /\ code \in {1, 2} => command.call # "done"
  /\ main = "closing" => code # Undecided

IInv ==
  /\ ServerTypeOK
  /\ ListenerFirst
  /\ QuietBeforeClose
  /\ CodeDecided

-------------------------------------------------------------------------------
(* IInv is inductive: one lemma per action *)

LEMMA InitEstablishes == ServerInit => IInv
<1> SUFFICES ASSUME ServerInit
             PROVE  IInv
  OBVIOUS
<1> USE DEF ServerInit, Closed, NoCommand, NoRequest
<1>1. ServerTypeOK
  BY DEF ServerTypeOK, Connections, CommandRuns, Requests, Modes, Undecided, Killed
<1>2. ListenerFirst /\ QuietBeforeClose
  BY DEF ListenerFirst, QuietBeforeClose, Quiet
<1>3. CodeDecided
  BY DEF CodeDecided, Undecided
<1>4. QED
  BY <1>1, <1>2, <1>3 DEF IInv

LEMMA OpenStorePreserves ==
  ASSUME IInv, OpenStore
  PROVE  IInv'
  BY DEF OpenStore, NoCommand, Commands, Modes, IInv, ServerTypeOK, ListenerFirst,
         QuietBeforeClose, CodeDecided,
         Quiet, Deaf, Exit, Undecided, Killed

LEMMA SignalPreserves ==
  ASSUME IInv, Signal
  PROVE  IInv'
  BY DEF Signal, mainVars, IInv, ServerTypeOK, ListenerFirst, QuietBeforeClose, CodeDecided,
         Quiet, Deaf, Exit, Undecided, Killed

LEMMA StdioReturnsPreserves ==
  ASSUME IInv, StdioReturns
  PROVE  IInv'
  BY DEF StdioReturns, IInv, ServerTypeOK, ListenerFirst, QuietBeforeClose, CodeDecided,
         Quiet, Deaf, Exit, Undecided, Killed

LEMMA UnknownTransportPreserves ==
  ASSUME IInv, UnknownTransport
  PROVE  IInv'
  BY DEF UnknownTransport, IInv, ServerTypeOK, ListenerFirst, QuietBeforeClose, CodeDecided,
         Quiet, Deaf, Exit, Undecided, Killed

LEMMA FatalPreserves ==
  ASSUME IInv, Fatal
  PROVE  IInv'
  BY DEF Fatal, NoCommand, Commands, IInv, ServerTypeOK, ListenerFirst, QuietBeforeClose,
         CodeDecided,
         Quiet, Deaf, Exit, Undecided, Killed

LEMMA ReturnFromMainPreserves ==
  ASSUME IInv, ReturnFromMain
  PROVE  IInv'
  BY DEF ReturnFromMain, NoCommand, Commands, IInv, ServerTypeOK, ListenerFirst,
         QuietBeforeClose, CodeDecided,
         Quiet, Deaf, Exit, Undecided, Killed

LEMMA CloseStorePreserves ==
  ASSUME IInv, CloseStore
  PROVE  IInv'
  BY DEF CloseStore, IInv, ServerTypeOK, ListenerFirst, QuietBeforeClose, CodeDecided,
         Quiet, Deaf, Exit, Undecided, Killed

LEMMA RunCommandPreserves ==
  ASSUME IInv, RunCommand
  PROVE  IInv'
  BY DEF RunCommand, CodeOfCall, NoCommand, CommandRuns, Commands, IInv, ServerTypeOK,
         ListenerFirst, QuietBeforeClose, CodeDecided,
         Quiet, Deaf, Exit, Undecided, Killed

LEMMA ListenPreserves ==
  ASSUME IInv, Listen
  PROVE  IInv'
  BY DEF Listen, mainVars, IInv, ServerTypeOK, ListenerFirst, QuietBeforeClose, CodeDecided,
         Quiet, Deaf, Exit, Undecided, Killed

LEMMA ListenerErrorPreserves ==
  ASSUME IInv, ListenerError
  PROVE  IInv'
  BY DEF ListenerError, IInv, ServerTypeOK, ListenerFirst, QuietBeforeClose, CodeDecided,
         Quiet, Deaf, Exit, Undecided, Killed

LEMMA BeginShutdownPreserves ==
  ASSUME IInv, BeginShutdown
  PROVE  IInv'
  BY DEF BeginShutdown, IInv, ServerTypeOK, ListenerFirst, QuietBeforeClose, CodeDecided,
         Quiet, Deaf, Exit, Undecided, Killed

LEMMA PollPreserves ==
  ASSUME IInv, Poll
  PROVE  IInv'
  BY DEF Poll, Busy, Closed, NoRequest, Connections, Requests, IInv, ServerTypeOK, ListenerFirst,
         QuietBeforeClose, CodeDecided,
         Quiet, Deaf, Exit, Undecided, Killed

LEMMA GraceOverPreserves ==
  ASSUME IInv, GraceOver
  PROVE  IInv'
  BY DEF GraceOver, IInv, ServerTypeOK, ListenerFirst, QuietBeforeClose, CodeDecided,
         Quiet, Deaf, Exit, Undecided, Killed

LEMMA ConnectionTypes ==
  /\ Closed \in Connections /\ Closed.at = "closed"
  /\ \A at \in {"idle", "orphaned", "working", "streaming"} : [Closed EXCEPT !.at = at] \in Connections
BY DEF Closed, NoRequest, Connections, Requests

\* A step of one connection, or of its handler, while it is not closed or something
\* listens.
LEMMA ConnectionStepPreserves ==
  ASSUME IInv, NEW c \in Clients, NEW x \in Connections,
         main # "exited",
         UNCHANGED <<mode, mainVars, db, told, listener, command>>,
         conn' = [conn EXCEPT ![c] = x],
         conn[c].at # "closed" \/ listener = "accepting"
  PROVE  IInv'
<1>1. ServerTypeOK'
  BY DEF IInv, ServerTypeOK, mainVars
<1>2. ~Quiet \/ listener = "accepting"
  BY DEF Quiet
<1>3. ListenerFirst' /\ QuietBeforeClose' /\ CodeDecided'
  BY <1>2 DEF IInv, ServerTypeOK, ListenerFirst, QuietBeforeClose, CodeDecided, Quiet, Deaf,
              mainVars, Undecided
<1>4. QED
  BY <1>1, <1>3 DEF IInv

LEMMA ConnectPreserves ==
  ASSUME IInv, NEW c \in Clients, Connect(c)
  PROVE  IInv'
BY ConnectionTypes, ConnectionStepPreserves DEF Connect, AtWork

LEMMA SendPreserves ==
  ASSUME IInv, NEW c \in Clients, Send(c)
  PROVE  IInv'
<1>1. PICK request \in Requests :
        conn' = [conn EXCEPT ![c] = [at |-> "received", request |-> request]]
  BY DEF Send
<1>2. [at |-> "received", request |-> request] \in Connections
  BY DEF Connections
<1>3. QED
  BY <1>1, <1>2, ConnectionStepPreserves DEF Send, AtWork

LEMMA HangUpPreserves ==
  ASSUME IInv, NEW c \in Clients, HangUp(c)
  PROVE  IInv'
BY ConnectionTypes, ConnectionStepPreserves DEF HangUp, AtWork

LEMMA HandlePreserves ==
  ASSUME IInv, NEW c \in Clients, Handle(c)
  PROVE  IInv'
<1>1. AtWork(c, "received")
  BY DEF Handle
<1>2. PICK x \in Connections : conn' = [conn EXCEPT ![c] = x]
  BY ConnectionTypes DEF Handle, Answer
<1>3. QED
  BY <1>1, <1>2, ConnectionStepPreserves DEF AtWork

LEMMA FinishPreserves ==
  ASSUME IInv, NEW c \in Clients, Finish(c)
  PROVE  IInv'
BY ConnectionTypes, ConnectionStepPreserves DEF Finish, Answer, AtWork

LEMMA StepPreserves == IInv /\ [ServerNext]_serverVars => IInv'
<1> SUFFICES ASSUME IInv, [ServerNext]_serverVars
             PROVE  IInv'
  OBVIOUS
<1>1. CASE UNCHANGED serverVars
  BY <1>1 DEF serverVars, mainVars, IInv, ServerTypeOK, ListenerFirst, QuietBeforeClose, CodeDecided, Quiet, Deaf
<1>2. CASE MainStep
  BY <1>2, OpenStorePreserves, StdioReturnsPreserves, UnknownTransportPreserves, FatalPreserves,
     ReturnFromMainPreserves, CloseStorePreserves, RunCommandPreserves, ListenerErrorPreserves,
     BeginShutdownPreserves, PollPreserves, GraceOverPreserves
     DEF MainStep
<1>3. CASE Signal \/ Listen
  BY <1>3, SignalPreserves, ListenPreserves
<1>4. ASSUME NEW c \in Clients, Connect(c) \/ Send(c) \/ HangUp(c) \/ Handle(c) \/ Finish(c)
      PROVE  IInv'
  BY <1>4, ConnectPreserves, SendPreserves, HangUpPreserves, HandlePreserves, FinishPreserves
<1>5. QED
  BY <1>1, <1>2, <1>3, <1>4 DEF ServerNext

-------------------------------------------------------------------------------
\* The invariant, for any number of connections, with or without a token.
THEOREM ServerInvariance == ServerSpec => []IInv
<1>1. QED
  BY InitEstablishes, StepPreserves, PTL DEF ServerSpec

\* The deferred Close of main finds no handler at work: Shutdown has returned
\* without an error, or there never was a connection.
THEOREM CloseFindsNoHandler == ServerSpec => []StoreOutlivesHandlers
<1>1. IInv => StoreOutlivesHandlers
  BY DEF IInv, QuietBeforeClose, StoreOutlivesHandlers, Quiet, Busy
<1>2. QED
  BY <1>1, ServerInvariance, PTL

\* Exit code 0 means nothing was cut short and no call refused, 1 and 2 that no
\* call of a subcommand was carried out.
THEOREM ExitCodesAreTrue == ServerSpec => []ExitCodeTells
<1>1. IInv => ExitCodeTells
  BY DEF IInv, CodeDecided, ExitCodeTells, Quiet, Busy
<1>2. QED
  BY <1>1, ServerInvariance, PTL

=================================================================================
