----------------------------- MODULE AgentSessions -----------------------------
(***************************************************************************)
(* Agents that share one ticketd and follow the tool descriptions of       *)
(* internal/mcptools: a session looks at get_context, claims a ticket,     *)
(* starts it, renews its claim while it works, and moves it to done or     *)
(* releases it.  Calls take time: the store executes a call some time      *)
(* after the agent has made it, and the agent gets the answer later still, *)
(* or never, and calls again, while the store may still execute the call   *)
(* it no longer waits for.  A session that dies never comes back.  The     *)
(* store is TicketStore; the agents are not part of the repository and     *)
(* behave as its tool descriptions ask them to.                            *)
(*                                                                         *)
(* Time is told from the present backwards, so that it never runs out: now *)
(* only tells how far the second that began at ClaimTTL has gone, and when *)
(* it is over, Age moves the claims back by a second instead of the clock  *)
(* forward.  A lease loses a tick with every tick.                         *)
(***************************************************************************)
EXTENDS TicketStore, FiniteSets

CONSTANT MaxFaults   \* bound: lost calls, deaths and sessions that give up

VARIABLES
  session,   \* agent -> where it stands
  abandoned, \* fault -> the call that nobody waits for any more since
  faults

agentVars == <<vars, session, abandoned, faults>>

NoChange == [status |-> Keep, title |-> Keep, other |-> FALSE, blocks |-> NoKey, relates |-> NoKey]
MovesTo(s) == [NoChange EXCEPT !.status = s]

SessionUpdates == {MovesTo(InProgress), MovesTo(Done)}

\* The TTL is a whole number of seconds, and the clock the one above; everybody
\* gives its id, and nobody a project, a parent or a link.
ASSUME SessionConstants ==
  /\ ClaimTTL % Second = 0
  /\ MaxTime = ClaimTTL + Second - 1
  /\ NoAgent \notin Agents
  /\ NoProject \in Projects
  /\ NoKey \in RelatedKeys
  /\ Updates = SessionUpdates
  /\ MaxFaults \in Nat

Calling == {"create", "claim", "start", "renew", "finish", "release"}

Sessions ==
  [at    : {"idle", "work", "gone"} \cup Calling,
   title : Titles \cup {Blank},       \* of the ticket it creates
   key   : {NoKey} \cup Keys,         \* of the ticket it works on
   call  : {"none", "sent"} \cup Outcomes,
   lease : 0..ClaimTTL,               \* left of the claim it was granted
   asked : 0..ClaimTTL]               \* left of the claim it is asking for

LostCalls ==
  [agent : Agents \cup {NoAgent}, at : Calling \cup {"none"}, title : Titles \cup {Blank},
   key : {NoKey} \cup Keys,
   pending : BOOLEAN]                 \* the store may still execute it

NoCall == [agent |-> NoAgent, at |-> "none", title |-> Blank, key |-> NoKey, pending |-> FALSE]

Looking == [at |-> "idle", title |-> Blank, key |-> NoKey, call |-> "none", lease |-> 0, asked |-> 0]

SessionInit ==
  /\ tickets = [k \in {} |-> {}]
  /\ counters = [row \in {keySequence} |-> 1]
  /\ links = {}
  /\ comments = <<>>
  /\ now \in ClaimTTL..MaxTime
  /\ reply = NoReply
  /\ session = [a \in Agents |-> Looking]
  /\ abandoned = [i \in 1..MaxFaults |-> NoCall]
  /\ faults = 0

-------------------------------------------------------------------------------
(* Calls *)

Active(k) == ClaimActiveAt(tickets[k], now)

\* A step of the agents alone.
StoreRests == reply' = NoReply /\ UNCHANGED <<tables, now>>

\* s, having made a call to get to at.
Sending(s, at) == [s EXCEPT !.at = at, !.call = "sent",
                            !.asked = IF at \in {"claim", "renew"} THEN ClaimTTL ELSE 0]

\* The handlers of the tools, called by a session, or by what it was when it
\* called: call says where it stood, with which title and key.
handleCreate(call) == call.at = "create" /\ CreateTicket(NoProject, call.title, NoKey)

handleUpdate(call) ==
  \/ call.at = "start"  /\ UpdateTicket(call.key, MovesTo(InProgress))
  \/ call.at = "finish" /\ UpdateTicket(call.key, MovesTo(Done))

handleClaim(a, call) ==
  \/ call.at \in {"claim", "renew"} /\ ClaimTicket(call.key, a, FALSE)
  \/ call.at = "release"            /\ ReleaseClaim(call.key, a, FALSE)

Operation(a, call) == handleCreate(call) \/ handleUpdate(call) \/ handleClaim(a, call)

\* The store executes the call of a; the answer is on its way to a.
Execute(a) ==
  /\ session[a].call = "sent"
  /\ Operation(a, session[a])
  /\ session' = [session EXCEPT ![a].call = reply'.out]
  /\ UNCHANGED <<abandoned, faults>>

\* Room for one more ticket than the sessions are already creating.
RoomForTicket ==
  Cardinality(DOMAIN tickets) + Cardinality({a \in Agents : session[a].at = "create"}) < MaxTickets

\* What is worth remembering of a late call: that it was a release.
Executed(call) == IF call.at = "release" THEN [call EXCEPT !.pending = FALSE] ELSE NoCall

\* The store executes a call that nobody waits for any more.
ExecuteLate(i) ==
  LET call == abandoned[i]
  IN  /\ call.pending
      /\ call.at = "create" => RoomForTicket
      /\ Operation(call.agent, call)
      /\ abandoned' = [abandoned EXCEPT ![i] = Executed(call)]
      /\ UNCHANGED <<session, faults>>

\* What a session does next, given the answer to its call.
AfterAnswer(s) ==
  LET granted == [s EXCEPT !.lease = s.asked, !.asked = 0, !.call = "none"]
  IN  CASE s.at = "claim" /\ s.call = "ok"                  -> Sending(granted, "start")
        [] s.at = "renew" /\ s.call = "ok"                  -> [granted EXCEPT !.at = "work"]
        [] s.at = "start" /\ s.call \in {"ok", "unchanged"} -> [s EXCEPT !.at = "work", !.call = "none"]
        [] s.at = "start" /\ s.call = "illegal_move"        -> Sending(s, "release")
        [] OTHER                                            -> Looking

Receive(a) ==
  /\ session[a].call \in Outcomes
  /\ session' = [session EXCEPT ![a] = AfterAnswer(session[a])]
  /\ StoreRests
  /\ UNCHANGED <<abandoned, faults>>

-------------------------------------------------------------------------------
(* Sessions *)

Plan(a, title) ==
  /\ session[a].at = "idle"
  /\ RoomForTicket
  /\ session' = [session EXCEPT ![a] = Sending([Looking EXCEPT !.title = title], "create")]
  /\ StoreRests
  /\ UNCHANGED <<abandoned, faults>>

\* get_context suggests a todo ticket that is not claimed, or shows one in
\* progress that nobody else is working on.
Pick(a, k) ==
  /\ session[a].at = "idle"
  /\ k \in DOMAIN tickets
  /\ tickets[k].status \in {Todo, InProgress}
  /\ ~Active(k)
  /\ session' = [session EXCEPT ![a] = Sending([Looking EXCEPT !.key = k], "claim")]
  /\ StoreRests
  /\ UNCHANGED <<abandoned, faults>>

Working(a, at) ==
  /\ session[a].at = "work"
  /\ session' = [session EXCEPT ![a] = Sending(session[a], at)]
  /\ StoreRests
  /\ UNCHANGED abandoned

Renew(a)  == Working(a, "renew")  /\ UNCHANGED faults
Finish(a) == Working(a, "finish") /\ UNCHANGED faults

-------------------------------------------------------------------------------
(* Faults *)

Fault == faults < MaxFaults /\ faults' = faults + 1

\* The session stops without finishing.
GiveUp(a) == Working(a, "release") /\ Fault

\* Nobody waits for the call of a any more.  If the store has not executed it yet,
\* it may still do so, or the call is lost.
Abandon(a) ==
  LET s == session[a]
  IN  abandoned' = IF s.call # "sent" THEN abandoned
                   ELSE [abandoned EXCEPT ![faults'] =
                           [agent |-> a, at |-> s.at, title |-> s.title, key |-> s.key,
                            pending |-> TRUE]]

\* The call or its answer is lost or late, and the agent calls again.
Retry(a) ==
  /\ session[a].call # "none"
  /\ Fault
  /\ Abandon(a)
  /\ session' = [session EXCEPT ![a] = Sending(@, @.at)]
  /\ StoreRests

\* The session dies, with whatever it holds; another one goes on.
Die(a) ==
  /\ session[a].at # "gone"
  /\ \E b \in Agents \ {a} : session[b].at # "gone"
  /\ Fault
  /\ Abandon(a)
  /\ session' = [session EXCEPT ![a] = [Looking EXCEPT !.at = "gone"]]
  /\ StoreRests

-------------------------------------------------------------------------------
(* The clock *)

SecondEnds == now = MaxTime

OneLess(t) == IF t > 0 THEN t - 1 ELSE t

\* The time of a claim, seen from the second that begins.
SecondEarlier(t) == IF t >= Second THEN t - Second ELSE t

\* A tick of the clock.
Age ==
  /\ now' = IF SecondEnds THEN ClaimTTL ELSE now + 1
  /\ tickets' = IF ~SecondEnds THEN tickets
                ELSE [k \in DOMAIN tickets |-> [tickets[k] EXCEPT !.claimedAt = SecondEarlier(@)]]
  /\ session' = [a \in Agents |-> [session[a] EXCEPT !.lease = OneLess(@), !.asked = OneLess(@)]]
  /\ reply' = NoReply
  /\ UNCHANGED <<counters, links, comments, abandoned, faults>>

-------------------------------------------------------------------------------
SessionNext ==
  \/ Age
  \/ \E a \in Agents :
       \/ Execute(a) \/ Receive(a)
       \/ \E title \in Titles : Plan(a, title)
       \/ \E k \in Keys : Pick(a, k)
       \/ Renew(a) \/ Finish(a)
       \/ GiveUp(a) \/ Retry(a) \/ Die(a)
  \/ \E i \in 1..MaxFaults : ExecuteLate(i)

\* Time passes; calls are executed and answered, but those nobody waits for may
\* be lost for good; a session that is alive picks up
\* work it sees again and again, and one that keeps coming back to its work
\* finishes it.
SessionFairness ==
  /\ WF_agentVars(Age)
  /\ \A a \in Agents :
       /\ WF_agentVars(Execute(a))
       /\ WF_agentVars(Receive(a))
       /\ SF_agentVars(\E k \in Keys : Pick(a, k))
       /\ SF_agentVars(Finish(a))

SessionSpec == SessionInit /\ [][SessionNext]_agentVars /\ SessionFairness

-------------------------------------------------------------------------------
(* Properties *)

SessionTypeOK ==
  /\ TypeOK
  /\ session \in [Agents -> Sessions]
  /\ abandoned \in [1..MaxFaults -> LostCalls]
  /\ faults \in 0..MaxFaults

\* How long the store will protect the claim of k.
ClaimLeft(k) == ClaimTTL - (now - tickets[k].claimedAt)

\* The store records a claim of a that has left to run at least that long, but for
\* the fraction of a second that is not stored.
Backed(k, a, left) == tickets[k].claimedBy = a /\ ClaimLeft(k) > left - Second

\* An agent no longer waits for a release of k it has asked for: the store may
\* execute it when the agent has claimed k again.
Disowned(k, a) ==
  \E i \in 1..MaxFaults :
    /\ abandoned[i].at = "release"
    /\ abandoned[i].agent = a
    /\ abandoned[i].key = k

\* What is left of a lease, as its agent counts it from when it asked for the claim,
\* is left of its claim in the store to within a second, until the ticket is closed:
\* whatever calls are in flight, late or lost, nobody has taken or dropped the claim,
\* and a renewal whose answer is still on its way is recorded already.  A late
\* release by the agent itself is the exception.
LeasesAreBacked ==
  \A a \in Agents :
    LET s == session[a]
    IN  s.key \in DOMAIN tickets /\ IsOpen(tickets[s.key]) /\ ~Disowned(s.key, a) =>
          /\ s.at \in {"start", "work", "renew"} /\ s.lease >= Second
               => Backed(s.key, a, s.lease)
          /\ s.at \in {"claim", "renew"} /\ s.call = "ok" /\ s.asked >= Second
               => Backed(s.key, a, s.asked)

AtWork(a, k) == session[a].at \in {"work", "renew"} /\ session[a].key = k

\* Two agents that trust their claims until a second before they have counted the
\* TTL down, from when they asked, never work on the same open ticket, whichever
\* calls are repeated or late, sessions die, claims run out and tickets are picked up
\* half done; unless one of them had a release of that ticket time out.  (Of a closed
\* ticket it is not true: closing drops the claim of an agent that is still at work,
\* and then a third one, whose claim had run out, may renew it.)
OneWorkerPerTicket ==
  \A a, b \in Agents : \A k \in DOMAIN tickets :
    IsOpen(tickets[k]) /\ AtWork(a, k) /\ AtWork(b, k) /\ a # b =>
      \/ session[a].lease < Second \/ session[b].lease < Second
      \/ Disowned(k, a) \/ Disowned(k, b)

\* Agents that create, repeat a create whose answer was lost and move tickets on
\* meanwhile never leave two open tickets with one title.
RetriesMakeNoTwins == Twins = {}

\* Every ticket that is created is finished in the end, although sessions die
\* holding it, give up, lose calls and race each other.
EveryTicketIsFinished ==
  \A k \in Keys : k \in DOMAIN tickets ~> k \in DOMAIN tickets /\ tickets[k].status = Done

\* claim_ticket also claims tickets that were closed meanwhile; such claims go
\* away again, and in the end nobody is shown as working on closed tickets.
ClosedTicketsEndUnclaimed ==
  <>[](\A k \in DOMAIN tickets : IsTerminal(tickets[k].status) => ~Active(k))

===============================================================================
