-------------------------- MODULE AgentSessionsProofs --------------------------
(***************************************************************************)
(* Proofs about AgentSessions, for any number of agents, tickets and       *)
(* faults and any TTL: what TicketStoreProofs proves of a single operation *)
(* carries over to calls that are in flight, lost and repeated.            *)
(***************************************************************************)
EXTENDS AgentSessions, TicketStoreProofs

\* A call is about what its caller has: a title to create, or a ticket that exists.
HasSubject(call) ==
  /\ call.at = "create" => call.title \in Titles
  /\ call.at \in {"claim", "start", "work", "renew", "finish", "release"}
       => call.key \in DOMAIN tickets

\* A call is in flight, or answered, only in a state that has one.
CallsHaveSubjects ==
  \A a \in Agents : /\ session[a].call # "none" => session[a].at \in Calling
                    /\ HasSubject(session[a])

\* The calls nobody waits for are filed under the faults that have happened.
LateCallsFiled ==
  /\ faults \in 0..MaxFaults
  /\ abandoned \in [1..MaxFaults -> LostCalls]
  /\ \A i \in 1..MaxFaults :
       /\ i > faults => abandoned[i].at = "none"
       /\ abandoned[i].pending =>
            abandoned[i].agent \in Agents /\ abandoned[i].at \in Calling /\ HasSubject(abandoned[i])

\* The inductive invariant: that of the store, and the leases.
SessionInv ==
  /\ IInv
  /\ now \in ClaimTTL..MaxTime
  /\ session \in [Agents -> Sessions]
  /\ LateCallsFiled
  /\ CallsHaveSubjects
  /\ LeasesAreBacked
  /\ RetriesMakeNoTwins

-------------------------------------------------------------------------------
(* The second that goes on *)

\* Whatever the clock shows of the second, its stamp is the beginning of the second.
LEMMA StampOfSecond == ASSUME NEW t \in ClaimTTL..MaxTime PROVE rfc3339(t) = ClaimTTL
<1> DEFINE p == t \div Second
           m == t % Second
           q == ClaimTTL \div Second
<1>1. /\ ClaimTTL \in Nat /\ Second \in Nat \ {0} /\ t \in Nat
      /\ ClaimTTL <= t /\ t < ClaimTTL + Second
  BY ClockUnits, SessionConstants
<1>2. p \in Int /\ m \in 0..(Second - 1) /\ t = (Second * p) + m
  BY <1>1, QuotientRemainder
<1>3. q \in Int /\ ClaimTTL = Second * q
  BY <1>1, QuotientRemainder, SessionConstants
<1>4. rfc3339(t) = t - m
  BY DEF rfc3339
<1> HIDE DEF p, m, q
<1>5. /\ Second * (p - q) = (Second * p) - (Second * q)
      /\ Second * (q - p) = (Second * q) - (Second * p)
  BY <1>1, <1>2, <1>3
<1>6. Second * (p - q) < Second /\ Second * (q - p) < Second
  BY <1>1, <1>2, <1>3, <1>5
<1>7. ~(p - q >= 1) /\ ~(q - p >= 1)
  BY <1>1, <1>2, <1>3, <1>6, MultipleAtLeast
<1>8. p = q
  BY <1>2, <1>3, <1>7
<1>9. QED
  BY <1>1, <1>2, <1>3, <1>4, <1>8

LEMMA StampIsNow ==
  ASSUME SessionInv
  PROVE  /\ rfc3339(now) = ClaimTTL
         /\ now \in Nat /\ ClaimTTL <= now /\ now < ClaimTTL + Second
BY StampOfSecond, ClockUnits, SessionConstants DEF SessionInv

-------------------------------------------------------------------------------
(* What a call does to the store *)

LEMMA UpdatesOfSessions ==
  /\ MovesTo(InProgress) \in Updates /\ MovesTo(Done) \in Updates
  /\ \A s : MovesTo(s).status = s /\ MovesTo(s).title = Keep
<1>1. MovesTo(InProgress) \in Updates /\ MovesTo(Done) \in Updates
  BY SessionConstants DEF SessionUpdates
<1>2. \A s : MovesTo(s).status = s /\ MovesTo(s).title = Keep
  BY DEF MovesTo, NoChange
<1>3. QED
  BY <1>1, <1>2

LEMMA AgentNamed == ASSUME NEW a \in Agents PROVE AgentId(a) = a /\ a # NoAgent
BY SessionConstants DEF AgentId

\* Every call is an operation of TicketStore.
LEMMA OperationIsNext ==
  ASSUME SessionInv, NEW a \in Agents, NEW call, HasSubject(call), Operation(a, call)
  PROVE  Next
<1>1. \A k \in DOMAIN tickets : k \in KeyArgs
  BY Bounds DEF SessionInv, IInv, TypeOK, Keys, KeyArgs
<1>2. CASE call.at = "create" /\ CreateTicket(NoProject, call.title, NoKey)
  BY <1>2, SessionConstants DEF HasSubject, Next
<1>3. CASE call.at \in {"claim", "renew"} /\ ClaimTicket(call.key, a, FALSE)
  BY <1>1, <1>3 DEF HasSubject, Next
<1>4. CASE \/ call.at = "start" /\ UpdateTicket(call.key, MovesTo(InProgress))
           \/ call.at = "finish" /\ UpdateTicket(call.key, MovesTo(Done))
  BY <1>1, <1>4, UpdatesOfSessions DEF HasSubject, Next
<1>5. CASE call.at = "release" /\ ReleaseClaim(call.key, a, FALSE)
  BY <1>1, <1>5 DEF HasSubject, Next
<1>6. QED
  BY <1>2, <1>3, <1>4, <1>5 DEF Operation, handleCreate, handleUpdate, handleClaim

\* The row of a ticket that is there, after a call of b: a claim of b, the move b
\* asks for, or a release by b.
LEMMA RowAfterCall ==
  ASSUME SessionInv, NEW b \in Agents, NEW call, HasSubject(call), Operation(b, call),
         NEW k \in DOMAIN tickets
  PROVE  /\ k \in DOMAIN tickets'
         /\ \/ tickets'[k] = tickets[k]
            \/ /\ ~HeldAgainst(k, b, FALSE)
               /\ tickets'[k] = ClaimedRow(k, b)
            \/ \E status \in {InProgress, Done} :
                 /\ ~RenamesToBlank(k, MovesTo(status))
                 /\ tickets'[k] = UpdatedRow(k, MovesTo(status))
            \/ /\ call.at = "release" /\ call.key = k
               /\ ~NotYours(k, b, FALSE)
               /\ tickets'[k] = UnclaimedRow(k)
<1>1. ASSUME NEW key \in DOMAIN tickets, NEW row, tickets' = [tickets EXCEPT ![key] = row]
      PROVE  k \in DOMAIN tickets' /\ tickets'[k] = IF k = key THEN row ELSE tickets[k]
  BY <1>1 DEF SessionInv, IInv, TypeOK
<1>2. CASE UNCHANGED tickets
  BY <1>2
<1>3. CASE call.at = "create" /\ CreateTicket(NoProject, call.title, NoKey)
  BY <1>3, CreateKeepsRows, SessionConstants DEF SessionInv, HasSubject
<1>4. CASE call.at \in {"claim", "renew"} /\ ClaimTicket(call.key, b, FALSE)
  BY <1>1, <1>2, <1>4, AgentNamed DEF ClaimTicket, Refused, tables
<1>5. ASSUME NEW status \in {InProgress, Done}, UpdateTicket(call.key, MovesTo(status))
      PROVE  \/ UNCHANGED tickets
             \/ /\ call.key \in DOMAIN tickets
                /\ ~RenamesToBlank(call.key, MovesTo(status))
                /\ tickets' = [tickets EXCEPT ![call.key] = UpdatedRow(call.key, MovesTo(status))]
  BY <1>5 DEF UpdateTicket, Refused, tables
<1>6. CASE call.at = "release" /\ ReleaseClaim(call.key, b, FALSE)
  BY <1>1, <1>2, <1>6, AgentNamed DEF ReleaseClaim, Refused, tables
<1>7. QED
  BY <1>1, <1>2, <1>3, <1>4, <1>5, <1>6 DEF Operation, handleCreate, handleUpdate, handleClaim

\* No call reopens a ticket.
LEMMA OpenBeforeCall ==
  ASSUME SessionInv, NEW b \in Agents, NEW call, HasSubject(call), Operation(b, call),
         NEW k \in DOMAIN tickets, IsOpen(tickets'[k])
  PROVE  IsOpen(tickets[k])
<1>1. Next
  BY OperationIsNext
<1>2. IInv
  BY DEF SessionInv
<1>3. QED
  BY <1>1, <1>2, ColumnSteps, TerminalStatuses DEF IsOpen, Row

\* What is left of a claim that is fresh.
LEMMA FreshClaim ==
  ASSUME SessionInv, NEW left \in 0..ClaimTTL
  PROVE  ClaimTTL - (now - ClaimTTL) > left - Second
BY StampIsNow, ClockUnits

\* A claim that backs a lease of at least a second survives every call but its
\* agent's release, as long as the ticket stays open.
LEMMA BackedAfterCall ==
  ASSUME SessionInv, NEW b \in Agents, NEW call, HasSubject(call), Operation(b, call),
         NEW a \in Agents, NEW k \in DOMAIN tickets, NEW left \in Second..ClaimTTL,
         Backed(k, a, left),
         a # b \/ call.at # "release" \/ call.key # k,
         IsOpen(tickets'[k])
  PROVE  Backed(k, a, left)'
<1>1. /\ tickets[k] \in Row /\ a # NoAgent /\ b # NoAgent
      /\ tickets[k].claimedBy = a /\ tickets[k].claimedAt \in Int
      /\ ClaimTTL - (now - tickets[k].claimedAt) > left - Second
      /\ left >= Second /\ left <= ClaimTTL
  <2>1. tickets[k] \in Row
    BY RowFacts DEF SessionInv
  <2>2. tickets[k].claimedAt \in Int
    BY <2>1, Bounds DEF Row, NoTime
  <2>3. QED
    BY <2>1, <2>2, AgentNamed, ClockUnits DEF Backed, ClaimLeft
<1>2. now' = now
  BY DEF Operation, handleCreate, handleUpdate, handleClaim, CreateTicket, InsertTicket,
     ClaimTicket, UpdateTicket, ReleaseClaim, Refused
<1>3. SUFFICES /\ tickets'[k].claimedBy = a
               /\ ClaimTTL - (now - tickets'[k].claimedAt) > left - Second
  BY <1>2 DEF Backed, ClaimLeft
<1>4. CASE tickets'[k] = tickets[k]
  BY <1>1, <1>4
<1>5. CASE ~HeldAgainst(k, b, FALSE) /\ tickets'[k] = ClaimedRow(k, b)
  <2>1. tickets[k].claimedAt # NoTime
    BY <1>1 DEF SessionInv, IInv, ClaimFieldsAgree
  <2>2. ClaimActiveAt(tickets[k], now)
    BY <1>1, <2>1, StampIsNow, ClockUnits DEF ClaimActiveAt
  <2>3. b = a
    BY <1>1, <1>5, <2>2 DEF HeldAgainst
  <2>4. tickets'[k].claimedBy = a /\ tickets'[k].claimedAt = ClaimTTL
    BY <1>1, <1>5, <2>3, StampIsNow DEF ClaimedRow, Row
  <2>5. left \in 0..ClaimTTL
    BY <1>1, ClockUnits
  <2>6. QED
    BY <2>4, <2>5, FreshClaim
<1>6. ASSUME NEW status \in {InProgress, Done},
             ~RenamesToBlank(k, MovesTo(status)),
             tickets'[k] = UpdatedRow(k, MovesTo(status))
      PROVE  /\ tickets'[k].claimedBy = tickets[k].claimedBy
             /\ tickets'[k].claimedAt = tickets[k].claimedAt
  <2>1. /\ tickets'[k].status = IF Moves(k, MovesTo(status)) THEN status ELSE tickets[k].status
        /\ tickets'[k].claimedBy = IF DropsClaim(k, MovesTo(status)) THEN NoAgent
                                   ELSE tickets[k].claimedBy
        /\ tickets'[k].claimedAt = IF DropsClaim(k, MovesTo(status)) THEN NoTime
                                   ELSE tickets[k].claimedAt
    BY <1>1, <1>6, UpdatesOfSessions DEF UpdatedRow, Row
  <2>2. ~DropsClaim(k, MovesTo(status))
    BY <2>1, UpdatesOfSessions DEF DropsClaim, IsOpen
  <2>3. QED
    BY <2>1, <2>2
<1>7. CASE /\ call.at = "release" /\ call.key = k /\ ~NotYours(k, b, FALSE)
           /\ tickets'[k] = UnclaimedRow(k)
  BY <1>1, <1>7 DEF NotYours
<1>8. QED
  BY <1>1, <1>4, <1>5, <1>6, <1>7, RowAfterCall

\* No call gives a ticket a new title.
LEMMA TitleAfterCall ==
  ASSUME SessionInv, NEW b \in Agents, NEW call, HasSubject(call), Operation(b, call),
         NEW k \in DOMAIN tickets
  PROVE  tickets'[k].title = tickets[k].title
<1>1. tickets[k] \in Row
  BY RowFacts DEF SessionInv
<1>2. ASSUME NEW status \in {InProgress, Done}, tickets'[k] = UpdatedRow(k, MovesTo(status))
      PROVE  tickets'[k].title = tickets[k].title
  <2>1. ~Renames(k, MovesTo(status))
    BY UpdatesOfSessions DEF Renames
  <2>2. QED
    BY <1>1, <1>2, <2>1 DEF UpdatedRow, Row
<1>3. CASE tickets'[k] = ClaimedRow(k, b) \/ tickets'[k] = UnclaimedRow(k)
  BY <1>1, <1>3 DEF ClaimedRow, UnclaimedRow, Row
<1>4. CASE tickets'[k] = tickets[k]
  BY <1>4
<1>5. QED
  BY <1>2, <1>3, <1>4, RowAfterCall

-------------------------------------------------------------------------------
(* The invariant, one action at a time *)

\* What holds of the store and of who holds what after any call.
LEMMA CallPreserves ==
  ASSUME SessionInv, NEW b \in Agents, NEW call, HasSubject(call), Operation(b, call)
  PROVE  /\ IInv' /\ now' = now /\ RetriesMakeNoTwins'
         /\ reply'.out \in Outcomes
         /\ \A k \in DOMAIN tickets : k \in DOMAIN tickets'
<1>1. Next /\ IInv'
  BY OperationIsNext, StepPreserves DEF SessionInv
<1>2. now' = now
  BY DEF Operation, handleCreate, handleUpdate, handleClaim, CreateTicket, InsertTicket,
     ClaimTicket, UpdateTicket, ReleaseClaim, Refused
<1>3. RetriesMakeNoTwins'
  BY <1>1, TwinStep, TitleAfterCall DEF SessionInv, RetriesMakeNoTwins
<1>4. reply'.out \in Outcomes
  BY <1>1 DEF IInv, TypeOK, Replies
<1>5. \A k \in DOMAIN tickets : k \in DOMAIN tickets'
  BY RowAfterCall
<1>6. QED
  BY <1>1, <1>2, <1>3, <1>4, <1>5

\* What backs the lease of a, and the lease that is on its way to a, still does.
LEMMA LeaseAfterCall ==
  ASSUME SessionInv, NEW b \in Agents, NEW call, HasSubject(call), Operation(b, call),
         NEW a \in Agents, NEW k \in DOMAIN tickets, NEW lease, NEW asked,
         k = session[a].key, lease = session[a].lease, asked = session[a].asked,
         ~Disowned(k, a),
         a # b \/ call.at # "release" \/ call.key # k,
         IsOpen(tickets'[k])
  PROVE  /\ session[a].at \in {"start", "work", "renew"} /\ lease >= Second
              => Backed(k, a, lease)'
         /\ session[a].at \in {"claim", "renew"} /\ session[a].call = "ok" /\ asked >= Second
              => Backed(k, a, asked)'
<1>1. lease \in 0..ClaimTTL /\ asked \in 0..ClaimTTL
  BY DEF SessionInv, Sessions
<1>2. IsOpen(tickets[k])
  BY OpenBeforeCall
<1>3. /\ session[a].at \in {"start", "work", "renew"} /\ lease >= Second => Backed(k, a, lease)
      /\ session[a].at \in {"claim", "renew"} /\ session[a].call = "ok" /\ asked >= Second
           => Backed(k, a, asked)
  BY <1>2 DEF SessionInv, LeasesAreBacked
<1>4. ASSUME NEW left \in 0..ClaimTTL, left >= Second, Backed(k, a, left)
      PROVE  Backed(k, a, left)'
  <2>1. left \in Second..ClaimTTL
    BY <1>4, ClockUnits
  <2>2. QED
    BY <1>4, <2>1, BackedAfterCall
<1>5. QED
  BY <1>1, <1>3, <1>4

-------------------------------------------------------------------------------
(* The invariant, one action at a time *)

LEMMA SessionInitEstablishes == SessionInit => SessionInv
<1> SUFFICES ASSUME SessionInit PROVE SessionInv
  OBVIOUS
<1>1. DOMAIN tickets = {} /\ links = {} /\ comments = <<>> /\ counters[keySequence] = 1
  BY DEF SessionInit
<1>2. TypeOK
  <2>1. comments \in Seq([ticket : Keys, at : 0..MaxTime])
    BY <1>1
  <2>2. now \in 0..MaxTime
    BY ClockUnits, SessionConstants DEF SessionInit
  <2>3. counters \in [{keySequence} -> 1..(MaxTickets + 1)]
    BY Bounds DEF SessionInit
  <2>4. tickets \in [DOMAIN tickets -> Row]
    BY DEF SessionInit
  <2>5. QED
    BY <1>1, <2>1, <2>2, <2>3, <2>4, NoReplyType DEF TypeOK, SessionInit
<1>3. IInv
  BY <1>1, <1>2 DEF IInv, KeysSequential, ParentsOlder, LinksWellFormed, ClaimFieldsAgree,
     WorklogChronological
<1>4. session = [a \in Agents |-> Looking] /\ session \in [Agents -> Sessions]
  BY ClockUnits DEF SessionInit, Looking, Sessions, Calling
<1>5. CallsHaveSubjects
  BY <1>4 DEF CallsHaveSubjects, HasSubject, Looking
<1>6. LateCallsFiled
  <2>1. NoCall \in LostCalls /\ NoCall.at = "none" /\ NoCall.pending = FALSE
    BY DEF NoCall, LostCalls, NoKey
  <2>2. abandoned = [i \in 1..MaxFaults |-> NoCall]
    BY DEF SessionInit
  <2>3. faults \in 0..MaxFaults
    BY SessionConstants DEF SessionInit
  <2> HIDE DEF NoCall
  <2>4. QED
    BY <2>1, <2>2, <2>3 DEF LateCallsFiled
<1>7. LeasesAreBacked /\ RetriesMakeNoTwins
  BY <1>1 DEF LeasesAreBacked, RetriesMakeNoTwins, Twins, SessionInit, Looking
<1>8. QED
  BY <1>3, <1>4, <1>5, <1>6, <1>7 DEF SessionInv, SessionInit

LEMMA ExecutePreserves ==
  ASSUME SessionInv, NEW b \in Agents, Execute(b)
  PROVE  SessionInv'
<1>1. /\ Operation(b, session[b]) /\ HasSubject(session[b]) /\ session[b].at \in Calling
      /\ UNCHANGED <<abandoned, faults>>
  BY DEF Execute, SessionInv, CallsHaveSubjects
<1>2. /\ IInv' /\ now' = now /\ RetriesMakeNoTwins' /\ reply'.out \in Outcomes
      /\ \A k \in DOMAIN tickets : k \in DOMAIN tickets'
  BY <1>1, CallPreserves
<1>3. /\ session' = [session EXCEPT ![b].call = reply'.out]
      /\ \A a \in Agents : session[a] \in Sessions
  BY DEF Execute, SessionInv
<1>4. \A a \in Agents :
        session'[a] = IF a = b THEN [session[b] EXCEPT !.call = reply'.out] ELSE session[a]
  BY <1>3 DEF SessionInv
<1>5. session' \in [Agents -> Sessions]
  BY <1>2, <1>3 DEF SessionInv, Sessions
<1>6. \A a \in Agents :
        /\ session'[a].at = session[a].at /\ session'[a].title = session[a].title
        /\ session'[a].key = session[a].key /\ session'[a].lease = session[a].lease
        /\ session'[a].asked = session[a].asked
        /\ a # b => session'[a].call = session[a].call
        /\ a = b => session'[a].call = reply'.out
  BY <1>3, <1>4 DEF Sessions
<1>7. CallsHaveSubjects'
  BY <1>1, <1>2, <1>6 DEF CallsHaveSubjects, HasSubject, SessionInv
<1>8. LateCallsFiled'
  BY <1>1, <1>2 DEF LateCallsFiled, HasSubject, SessionInv
<1>9. LeasesAreBacked'
  <2> SUFFICES ASSUME NEW a \in Agents, NEW k, NEW lease, NEW asked,
                      k = session[a].key, lease = session[a].lease, asked = session[a].asked,
                      k \in DOMAIN tickets', IsOpen(tickets'[k]), ~Disowned(k, a)
               PROVE  /\ (session[a].at \in {"start", "work", "renew"} /\ lease >= Second)
                            => Backed(k, a, lease)'
                      /\ (/\ session[a].at \in {"claim", "renew"}
                          /\ session'[a].call = "ok" /\ asked >= Second)
                            => Backed(k, a, asked)'
    BY <1>1, <1>6 DEF LeasesAreBacked, IsOpen, Disowned
  <2>1. CASE session[a].at \in {"claim", "start", "work", "renew"}
    <3>1. k \in DOMAIN tickets
      BY <2>1 DEF SessionInv, CallsHaveSubjects, HasSubject
    <3>2. a # b \/ session[b].at # "release"
      BY <2>1
    <3>3. /\ session[a].at \in {"start", "work", "renew"} /\ lease >= Second
               => Backed(k, a, lease)'
          /\ session[a].at \in {"claim", "renew"} /\ session[a].call = "ok" /\ asked >= Second
               => Backed(k, a, asked)'
      BY <1>1, <3>1, <3>2, LeaseAfterCall
    <3>4. CASE a # b
      BY <1>6, <3>3, <3>4
    <3>5. ASSUME a = b, session[a].at \in {"claim", "renew"}, session'[a].call = "ok"
          PROVE  Backed(k, a, asked)'
      <4>1. ClaimTicket(k, a, FALSE) /\ reply'.out = "ok"
        BY <1>1, <1>6, <3>5 DEF Operation, handleCreate, handleUpdate, handleClaim
      <4>2. tickets' = [tickets EXCEPT ![k] = ClaimedRow(k, a)]
        BY <4>1, AgentNamed DEF ClaimTicket, Refused, NoReply
      <4>3. tickets \in [DOMAIN tickets -> Row] /\ tickets[k] \in Row
        BY <3>1 DEF SessionInv, IInv, TypeOK
      <4>4. tickets'[k].claimedBy = a /\ tickets'[k].claimedAt = ClaimTTL
        BY <3>1, <4>2, <4>3, StampIsNow DEF ClaimedRow, Row
      <4>5. asked \in 0..ClaimTTL
        BY <1>3 DEF Sessions
      <4>6. QED
        BY <1>2, <4>4, <4>5, FreshClaim DEF Backed, ClaimLeft
    <3>6. QED
      BY <3>3, <3>4, <3>5
  <2>2. QED
    BY <2>1
<1>10. now' \in ClaimTTL..MaxTime
  BY <1>2 DEF SessionInv
<1>11. QED
  BY <1>2, <1>5, <1>7, <1>8, <1>9, <1>10 DEF SessionInv

\* The steps of the filed calls themselves leave the releases among them.
LEMMA ExecuteLatePreserves ==
  ASSUME SessionInv, NEW i \in 1..MaxFaults, ExecuteLate(i)
  PROVE  SessionInv'
<1> DEFINE call == abandoned[i]
           b == call.agent
<1>1. /\ b \in Agents /\ HasSubject(call) /\ Operation(b, call)
      /\ UNCHANGED <<session, faults>>
      /\ abandoned' = [abandoned EXCEPT ![i] = Executed(call)]
  BY DEF ExecuteLate, SessionInv, LateCallsFiled
<1>2. /\ IInv' /\ now' = now /\ RetriesMakeNoTwins'
      /\ \A k \in DOMAIN tickets : k \in DOMAIN tickets'
  BY <1>1, CallPreserves
<1>3. /\ abandoned \in [1..MaxFaults -> LostCalls] /\ call \in LostCalls
      /\ faults \in 0..MaxFaults
  BY DEF SessionInv, LateCallsFiled
<1>4. /\ Executed(call) \in LostCalls /\ ~Executed(call).pending
      /\ call.at = "release" => /\ Executed(call).at = "release" /\ Executed(call).agent = b
                                /\ Executed(call).key = call.key
      /\ call.at # "release" => Executed(call).at = "none"
  <2>1. NoCall \in LostCalls /\ NoCall.at = "none" /\ NoCall.pending = FALSE
    BY DEF NoCall, LostCalls, NoKey
  <2>2. ASSUME NEW c \in LostCalls
        PROVE  LET e == [c EXCEPT !.pending = FALSE]
               IN  /\ e \in LostCalls /\ e.pending = FALSE /\ e.at = c.at /\ e.agent = c.agent
                   /\ e.key = c.key
    BY DEF LostCalls
  <2> HIDE DEF NoCall
  <2>3. QED
    BY <1>3, <2>1, <2>2 DEF Executed
<1>5. /\ abandoned' \in [1..MaxFaults -> LostCalls]
      /\ \A j \in 1..MaxFaults :
           abandoned'[j] = IF j = i THEN Executed(call) ELSE abandoned[j]
  BY <1>1, <1>3, <1>4
<1> HIDE DEF call
<1>6. \A j \in 1..MaxFaults :
        /\ j > faults => abandoned'[j].at = "none"
        /\ abandoned'[j].pending => /\ abandoned'[j].agent \in Agents /\ abandoned'[j].at \in Calling
                                    /\ HasSubject(abandoned[j]) /\ abandoned'[j] = abandoned[j]
  <2> SUFFICES ASSUME NEW j \in 1..MaxFaults
               PROVE  /\ j > faults => abandoned'[j].at = "none"
                      /\ abandoned'[j].pending =>
                           /\ abandoned'[j].agent \in Agents /\ abandoned'[j].at \in Calling
                           /\ HasSubject(abandoned[j]) /\ abandoned'[j] = abandoned[j]
    OBVIOUS
  <2>1. CASE j = i
    BY <1>4, <1>5, <2>1 DEF SessionInv, LateCallsFiled, call
  <2>2. CASE j # i
    BY <1>5, <2>2 DEF SessionInv, LateCallsFiled
  <2>3. QED
    BY <2>1, <2>2
<1>7. LateCallsFiled'
  BY <1>1, <1>2, <1>3, <1>5, <1>6 DEF LateCallsFiled, HasSubject
<1>8. CallsHaveSubjects'
  BY <1>1, <1>2 DEF CallsHaveSubjects, HasSubject, SessionInv
<1>9. ASSUME NEW k, NEW a \in Agents
      PROVE  /\ Disowned(k, a) => Disowned(k, a)'
             /\ call.at = "release" /\ b = a /\ call.key = k => Disowned(k, a)
  BY <1>4, <1>5 DEF Disowned, call
<1>10. LeasesAreBacked'
  <2> SUFFICES ASSUME NEW a \in Agents, NEW k, NEW lease, NEW asked,
                      k = session[a].key, lease = session[a].lease, asked = session[a].asked,
                      k \in DOMAIN tickets', IsOpen(tickets'[k]), ~Disowned(k, a)
               PROVE  /\ (session[a].at \in {"start", "work", "renew"} /\ lease >= Second)
                            => Backed(k, a, lease)'
                      /\ (/\ session[a].at \in {"claim", "renew"}
                          /\ session[a].call = "ok" /\ asked >= Second)
                            => Backed(k, a, asked)'
    BY <1>1, <1>9 DEF LeasesAreBacked, IsOpen
  <2>1. CASE session[a].at \in {"claim", "start", "work", "renew"}
    <3>1. k \in DOMAIN tickets
      BY <2>1 DEF SessionInv, CallsHaveSubjects, HasSubject
    <3>2. a # b \/ call.at # "release" \/ call.key # k
      BY <1>9
    <3>3. QED
      BY <1>1, <3>1, <3>2, LeaseAfterCall
  <2>2. QED
    BY <2>1
<1>11. now' \in ClaimTTL..MaxTime /\ session' \in [Agents -> Sessions]
  BY <1>1, <1>2 DEF SessionInv
<1>12. QED
  BY <1>2, <1>7, <1>8, <1>10, <1>11 DEF SessionInv

\* What a step of b alone does to the faults: none happens, or one of them, which may
\* leave a call behind.
FaultStep(b) ==
  \/ UNCHANGED <<abandoned, faults>>
  \/ Fault /\ UNCHANGED abandoned
  \/ Fault /\ Abandon(b)

LEMMA FaultStepKeeps ==
  ASSUME SessionInv, NEW b \in Agents, FaultStep(b), UNCHANGED tickets
  PROVE  /\ LateCallsFiled'
         /\ \A a \in Agents : \A k : Disowned(k, a) => Disowned(k, a)'
<1>1. /\ faults \in 0..MaxFaults /\ MaxFaults \in Nat
      /\ abandoned \in [1..MaxFaults -> LostCalls]
      /\ \A i \in 1..MaxFaults :
           /\ i > faults => abandoned[i].at = "none"
           /\ abandoned[i].pending =>
                /\ abandoned[i].agent \in Agents /\ abandoned[i].at \in Calling
                /\ HasSubject(abandoned[i])
  BY SessionConstants DEF SessionInv, LateCallsFiled
<1>2. CASE UNCHANGED abandoned
  <2>1. faults' \in 0..MaxFaults /\ faults' >= faults
    BY <1>1 DEF FaultStep, Fault
  <2>2. QED
    BY <1>1, <1>2, <2>1 DEF LateCallsFiled, HasSubject, Disowned
<1>3. CASE Fault /\ Abandon(b) /\ session[b].call = "sent"
  <2> DEFINE s == session[b]
             call == [agent |-> b, at |-> s.at, title |-> s.title, key |-> s.key, pending |-> TRUE]
  <2>1. faults' = faults + 1 /\ faults' \in 1..MaxFaults
    BY <1>1, <1>3 DEF Fault
  <2>2. s \in Sessions /\ s.at \in Calling /\ HasSubject(s)
    BY <1>3 DEF SessionInv, CallsHaveSubjects
  <2>3. /\ call \in LostCalls /\ call.agent = b /\ call.at = s.at /\ call.title = s.title
        /\ call.key = s.key
    BY <2>2 DEF LostCalls, Sessions
  <2>4. abandoned' = [abandoned EXCEPT ![faults'] = call]
    BY <1>3 DEF Abandon
  <2> HIDE DEF call
  <2>5. /\ abandoned' \in [1..MaxFaults -> LostCalls]
        /\ \A i \in 1..MaxFaults : abandoned'[i] = IF i = faults' THEN call ELSE abandoned[i]
    BY <1>1, <2>1, <2>3, <2>4
  <2>6. LateCallsFiled'
    <3> SUFFICES ASSUME NEW i \in 1..MaxFaults
                 PROVE  /\ i > faults' => abandoned'[i].at = "none"
                        /\ abandoned'[i].pending =>
                             /\ abandoned'[i].agent \in Agents /\ abandoned'[i].at \in Calling
                             /\ HasSubject(abandoned[i])'
      BY <2>1, <2>5 DEF LateCallsFiled
    <3>1. CASE i = faults'
      BY <2>1, <2>2, <2>3, <2>5, <3>1 DEF HasSubject
    <3>2. CASE i # faults'
      BY <1>1, <2>1, <2>5, <3>2 DEF HasSubject
    <3>3. QED
      BY <3>1, <3>2
  <2>7. ASSUME NEW a \in Agents, NEW k, NEW i \in 1..MaxFaults,
               abandoned[i].at = "release", abandoned[i].agent = a, abandoned[i].key = k
        PROVE  Disowned(k, a)'
    <3>1. i # faults'
      BY <1>1, <2>1, <2>7
    <3>2. QED
      BY <2>5, <2>7, <3>1 DEF Disowned
  <2>8. QED
    BY <2>6, <2>7 DEF Disowned
<1>4. QED
  BY <1>2, <1>3 DEF FaultStep, Abandon

\* A step of one session that leaves the store alone: its next state may only
\* claim a subject that exists and a lease that is backed.
LEMMA SessionStepPreserves ==
  ASSUME SessionInv, NEW b \in Agents, NEW next \in Sessions,
         session' = [session EXCEPT ![b] = next],
         StoreRests,
         FaultStep(b),
         next.call # "none" => next.at \in Calling,
         HasSubject(next),
         next.key \in DOMAIN tickets /\ IsOpen(tickets[next.key]) /\ ~Disowned(next.key, b) =>
           /\ next.at \in {"start", "work", "renew"} /\ next.lease >= Second
                => Backed(next.key, b, next.lease)
           /\ next.at \in {"claim", "renew"} /\ next.call = "ok" /\ next.asked >= Second
                => Backed(next.key, b, next.asked)
  PROVE  SessionInv'
<1>1. UNCHANGED <<tickets, counters, links, comments, now>> /\ reply' \in Replies
  BY NoReplyType DEF StoreRests, tables
<1>2. IInv'
  BY <1>1 DEF SessionInv, IInv, TypeOK, KeysSequential, ParentsOlder, LinksWellFormed,
     ClaimFieldsAgree, WorklogChronological
<1>3. session' \in [Agents -> Sessions]
  BY DEF SessionInv
<1>4. \A a \in Agents : session'[a] = IF a = b THEN next ELSE session[a]
  BY DEF SessionInv
<1>5. CallsHaveSubjects'
  BY <1>1, <1>4 DEF SessionInv, CallsHaveSubjects, HasSubject
<1>6. /\ LateCallsFiled'
      /\ \A a \in Agents : \A k : Disowned(k, a) => Disowned(k, a)'
  BY <1>1, FaultStepKeeps
<1>7. LeasesAreBacked'
  <2> SUFFICES ASSUME NEW a \in Agents, NEW s, s = session'[a],
                      s.key \in DOMAIN tickets, IsOpen(tickets[s.key]), ~Disowned(s.key, a)
               PROVE  /\ s.at \in {"start", "work", "renew"} /\ s.lease >= Second
                           => Backed(s.key, a, s.lease)
                      /\ s.at \in {"claim", "renew"} /\ s.call = "ok" /\ s.asked >= Second
                           => Backed(s.key, a, s.asked)
    BY <1>1, <1>6 DEF LeasesAreBacked, Backed, ClaimLeft, IsOpen
  <2>1. QED
    BY <1>4 DEF SessionInv, LeasesAreBacked
<1>8. RetriesMakeNoTwins'
  BY <1>1 DEF SessionInv, RetriesMakeNoTwins, Twins, IsOpen
<1>9. QED
  BY <1>1, <1>2, <1>3, <1>5, <1>6, <1>7, <1>8 DEF SessionInv

\* What a session knows when it has made a call.
LEMMA SendingType ==
  ASSUME NEW s \in Sessions, NEW at \in Calling
  PROVE  /\ Sending(s, at) \in Sessions
         /\ Sending(s, at).at = at /\ Sending(s, at).title = s.title
         /\ Sending(s, at).key = s.key /\ Sending(s, at).lease = s.lease
         /\ Sending(s, at).call = "sent"
<1> DEFINE asked == IF at \in {"claim", "renew"} THEN ClaimTTL ELSE 0
<1>1. asked \in 0..ClaimTTL
  BY ClockUnits
<1>2. Sending(s, at) = [s EXCEPT !.at = at, !.call = "sent", !.asked = asked]
  BY DEF Sending
<1> HIDE DEF asked
<1>3. Sending(s, at) = [at |-> at, title |-> s.title, key |-> s.key, call |-> "sent",
                        lease |-> s.lease, asked |-> asked]
  BY <1>2 DEF Sessions
<1>4. /\ s.title \in Titles \cup {Blank} /\ s.key \in {NoKey} \cup Keys
      /\ s.lease \in 0..ClaimTTL
  BY DEF Sessions
<1> HIDE DEF Sending
<1>5. QED
  BY <1>1, <1>3, <1>4 DEF Sessions

LEMMA GrantedRecord ==
  ASSUME NEW s \in Sessions
  PROVE  [s EXCEPT !.lease = s.asked, !.asked = 0, !.call = "none"]
           = [at |-> s.at, title |-> s.title, key |-> s.key, call |-> "none",
              lease |-> s.asked, asked |-> 0]
<1> DEFINE one == [s EXCEPT !.lease = s.asked]
           two == [one EXCEPT !.asked = 0]
<1>1. one = [at |-> s.at, title |-> s.title, key |-> s.key, call |-> s.call,
             lease |-> s.asked, asked |-> s.asked]
  BY DEF Sessions
<1> HIDE DEF one
<1>2. two = [at |-> s.at, title |-> s.title, key |-> s.key, call |-> s.call,
             lease |-> s.asked, asked |-> 0]
  BY <1>1
<1> HIDE DEF two
<1>3. [two EXCEPT !.call = "none"]
        = [at |-> s.at, title |-> s.title, key |-> s.key, call |-> "none",
           lease |-> s.asked, asked |-> 0]
  BY <1>2
<1>4. QED
  BY <1>3 DEF one, two

LEMMA LookingType ==
  /\ Looking \in Sessions /\ Looking.at = "idle" /\ Looking.key = NoKey /\ Looking.lease = 0
  /\ Looking.call = "none"
  /\ \A k \in Keys : /\ [Looking EXCEPT !.key = k] \in Sessions
                     /\ [Looking EXCEPT !.key = k].key = k
  /\ \A title \in Titles : /\ [Looking EXCEPT !.title = title] \in Sessions
                           /\ [Looking EXCEPT !.title = title].title = title
                           /\ [Looking EXCEPT !.title = title].key = NoKey
  /\ [Looking EXCEPT !.at = "gone"] \in Sessions
  /\ [Looking EXCEPT !.at = "gone"].at = "gone" /\ [Looking EXCEPT !.at = "gone"].call = "none"
BY ClockUnits DEF Looking, Sessions, Calling

LEMMA SessionTypes ==
  ASSUME SessionInv, NEW a \in Agents
  PROVE  /\ session[a] \in Sessions
         /\ NoKey \notin DOMAIN tickets
BY DEF SessionInv, IInv, TypeOK, Keys, NoKey

LEMMA ReceivePreserves ==
  ASSUME SessionInv, NEW b \in Agents, Receive(b)
  PROVE  SessionInv'
<1> DEFINE s == session[b]
           granted == [s EXCEPT !.lease = s.asked, !.asked = 0, !.call = "none"]
           back(next) == /\ session' = [session EXCEPT ![b] = next]
                         /\ StoreRests /\ FaultStep(b)
<1>1. s \in Sessions /\ NoKey \notin DOMAIN tickets
  BY SessionTypes
<1>2. back(AfterAnswer(s))
  BY DEF Receive, FaultStep
<1>3. s.key \in DOMAIN tickets /\ IsOpen(tickets[s.key]) /\ ~Disowned(s.key, b) =>
        /\ s.at \in {"start", "work", "renew"} /\ s.lease >= Second => Backed(s.key, b, s.lease)
        /\ s.at \in {"claim", "renew"} /\ s.call = "ok" /\ s.asked >= Second
             => Backed(s.key, b, s.asked)
  BY DEF SessionInv, LeasesAreBacked
<1>4. s.at \in {"claim", "start", "work", "renew", "finish", "release"}
        => s.key \in DOMAIN tickets
  BY DEF SessionInv, CallsHaveSubjects, HasSubject
<1>5. /\ granted = [at |-> s.at, title |-> s.title, key |-> s.key, call |-> "none",
                     lease |-> s.asked, asked |-> 0]
      /\ granted \in Sessions /\ granted.key = s.key /\ granted.lease = s.asked
  <2>1. /\ s.at \in {"idle", "work", "gone"} \cup Calling
        /\ s.title \in Titles \cup {Blank} /\ s.key \in {NoKey} \cup Keys
        /\ s.asked \in 0..ClaimTTL /\ 0 \in 0..ClaimTTL
    BY <1>1, ClockUnits DEF Sessions
  <2>2. granted = [at |-> s.at, title |-> s.title, key |-> s.key, call |-> "none",
                   lease |-> s.asked, asked |-> 0]
    BY <1>1, GrantedRecord
  <2> HIDE DEF granted
  <2>3. QED
    BY <2>1, <2>2 DEF Sessions
<1>6. CASE s.at = "claim" /\ s.call = "ok"
  <2> DEFINE next == Sending(granted, "start")
  <2>1. back(next)
    BY <1>2, <1>6 DEF AfterAnswer
  <2>2. /\ next \in Sessions /\ next.at = "start" /\ next.key = s.key
        /\ next.lease = s.asked /\ next.call = "sent"
    BY <1>5, SendingType DEF Calling
  <2> HIDE DEF next
  <2>3. QED
    BY <1>3, <1>4, <1>6, <2>1, <2>2, SessionStepPreserves DEF Calling, HasSubject
<1>7. CASE s.at = "renew" /\ s.call = "ok"
  <2> DEFINE next == [granted EXCEPT !.at = "work"]
  <2>1. back(next)
    BY <1>2, <1>7 DEF AfterAnswer
  <2> HIDE DEF granted
  <2>2. /\ next \in Sessions /\ next.at = "work" /\ next.key = s.key /\ next.lease = s.asked
        /\ next.call = "none"
    BY <1>5 DEF Sessions
  <2> HIDE DEF next
  <2>3. QED
    BY <1>3, <1>4, <1>7, <2>1, <2>2, SessionStepPreserves DEF HasSubject
<1>8. CASE s.at = "start" /\ s.call \in {"ok", "unchanged"}
  <2> DEFINE next == [s EXCEPT !.at = "work", !.call = "none"]
  <2>1. back(next)
    BY <1>2, <1>8 DEF AfterAnswer
  <2>2. /\ next \in Sessions /\ next.at = "work" /\ next.key = s.key /\ next.lease = s.lease
        /\ next.call = "none"
    BY <1>1 DEF Sessions
  <2> HIDE DEF next
  <2>3. QED
    BY <1>3, <1>4, <1>8, <2>1, <2>2, SessionStepPreserves DEF HasSubject
<1>9. CASE s.at = "start" /\ s.call = "illegal_move"
  <2> DEFINE next == Sending(s, "release")
  <2>1. back(next)
    BY <1>2, <1>9 DEF AfterAnswer
  <2>2. next \in Sessions /\ next.at = "release" /\ next.key = s.key
    BY <1>1, SendingType DEF Calling
  <2> HIDE DEF next
  <2>3. QED
    BY <1>4, <1>9, <2>1, <2>2, SessionStepPreserves DEF Calling, HasSubject
<1>10. CASE AfterAnswer(s) = Looking
  <2>1. back(Looking)
    BY <1>2, <1>10
  <2>2. QED
    BY <1>1, <2>1, LookingType, SessionStepPreserves DEF HasSubject
<1>11. QED
  BY <1>6, <1>7, <1>8, <1>9, <1>10 DEF AfterAnswer

LEMMA PlanPreserves ==
  ASSUME SessionInv, NEW b \in Agents, NEW title \in Titles, Plan(b, title)
  PROVE  SessionInv'
<1> DEFINE next == Sending([Looking EXCEPT !.title = title], "create")
<1>1. /\ session' = [session EXCEPT ![b] = next]
      /\ StoreRests /\ FaultStep(b)
  BY DEF Plan, FaultStep
<1>2. next \in Sessions /\ next.at = "create" /\ next.title = title /\ next.key = NoKey
  <2>1. ASSUME NEW from \in Sessions, from.title = title, from.key = NoKey
        PROVE  /\ Sending(from, "create") \in Sessions /\ Sending(from, "create").at = "create"
               /\ Sending(from, "create").title = title /\ Sending(from, "create").key = NoKey
    BY <2>1, SendingType DEF Calling
  <2>2. QED
    BY <2>1, LookingType, Zenon
<1> HIDE DEF next
<1>3. QED
  BY <1>1, <1>2, SessionTypes, SessionStepPreserves DEF Calling, HasSubject

LEMMA PickPreserves ==
  ASSUME SessionInv, NEW b \in Agents, NEW k \in Keys, Pick(b, k)
  PROVE  SessionInv'
<1> DEFINE next == Sending([Looking EXCEPT !.key = k], "claim")
<1>1. /\ session' = [session EXCEPT ![b] = next]
      /\ StoreRests /\ FaultStep(b) /\ k \in DOMAIN tickets
  BY DEF Pick, FaultStep
<1>2. next \in Sessions /\ next.at = "claim" /\ next.key = k /\ next.call = "sent"
  <2>1. ASSUME NEW from \in Sessions, from.key = k
        PROVE  /\ Sending(from, "claim") \in Sessions /\ Sending(from, "claim").at = "claim"
               /\ Sending(from, "claim").key = k /\ Sending(from, "claim").call = "sent"
    BY <2>1, SendingType DEF Calling
  <2>2. QED
    BY <2>1, LookingType, Zenon
<1> HIDE DEF next
<1>3. QED
  BY <1>1, <1>2, SessionStepPreserves DEF Calling, HasSubject

\* Renew, Finish and GiveUp.
LEMMA WorkingPreserves ==
  ASSUME SessionInv, NEW b \in Agents, NEW at \in {"renew", "finish", "release"},
         Working(b, at), UNCHANGED faults \/ Fault
  PROVE  SessionInv'
<1> DEFINE next == Sending(session[b], at)
<1>1. /\ session' = [session EXCEPT ![b] = next] /\ StoreRests /\ session[b].at = "work"
      /\ FaultStep(b)
  BY DEF Working, FaultStep
<1>2. /\ next \in Sessions /\ next.at = at /\ next.key = session[b].key
      /\ next.lease = session[b].lease /\ next.call = "sent"
  BY SessionTypes, SendingType DEF Calling
<1>3. /\ session[b].key \in DOMAIN tickets
      /\ IsOpen(tickets[session[b].key]) /\ ~Disowned(session[b].key, b) =>
           (session[b].lease >= Second => Backed(session[b].key, b, session[b].lease))
  BY <1>1 DEF SessionInv, CallsHaveSubjects, HasSubject, LeasesAreBacked
<1> HIDE DEF next
<1>4. QED
  BY <1>1, <1>2, <1>3, SessionStepPreserves DEF Calling, HasSubject

LEMMA RetryPreserves ==
  ASSUME SessionInv, NEW b \in Agents, Retry(b)
  PROVE  SessionInv'
<1> DEFINE s == session[b]
           next == Sending(s, s.at)
<1>1. /\ session' = [session EXCEPT ![b] = next] /\ StoreRests /\ FaultStep(b)
      /\ s.call # "none"
  BY DEF Retry, FaultStep
<1>2. s.at \in Calling
  BY <1>1 DEF SessionInv, CallsHaveSubjects
<1>3. QED
  <2>1. /\ next \in Sessions /\ next.at = s.at /\ next.key = s.key /\ next.title = s.title
        /\ next.lease = s.lease /\ next.call = "sent"
    BY <1>2, SessionTypes, SendingType
  <2>2. /\ HasSubject(s)
        /\ s.key \in DOMAIN tickets /\ IsOpen(tickets[s.key]) /\ ~Disowned(s.key, b) =>
             (s.at \in {"start", "work", "renew"} /\ s.lease >= Second => Backed(s.key, b, s.lease))
    BY DEF SessionInv, CallsHaveSubjects, LeasesAreBacked
  <2> HIDE DEF next
  <2>3. QED
    BY <1>1, <1>2, <2>1, <2>2, SessionStepPreserves DEF HasSubject

LEMMA DiePreserves ==
  ASSUME SessionInv, NEW b \in Agents, Die(b)
  PROVE  SessionInv'
<1> DEFINE next == [Looking EXCEPT !.at = "gone"]
<1>1. session' = [session EXCEPT ![b] = next] /\ StoreRests /\ FaultStep(b)
  BY DEF Die, FaultStep
<1>2. next \in Sessions /\ next.at = "gone" /\ next.call = "none"
  BY LookingType
<1> HIDE DEF next
<1>3. QED
  BY <1>1, <1>2, SessionStepPreserves DEF HasSubject

-------------------------------------------------------------------------------
(* The clock *)

\* The time of a claim as it is seen after a tick.
SeenNext(t) == IF SecondEnds THEN SecondEarlier(t) ELSE t

\* Every lease has one tick less, claims move back when the second ends, and nothing
\* else changes.
LEMMA AgeSteps ==
  ASSUME SessionInv, Age
  PROVE  /\ DOMAIN tickets' = DOMAIN tickets
         /\ tickets' \in [DOMAIN tickets -> Row]
         /\ \A k \in DOMAIN tickets :
              /\ tickets'[k].claimedAt = SeenNext(tickets[k].claimedAt)
              /\ tickets[k].claimedAt \in {NoTime} \cup Nat
              /\ tickets'[k].claimedBy = tickets[k].claimedBy
              /\ tickets'[k].parent = tickets[k].parent
              /\ tickets'[k].status = tickets[k].status
              /\ tickets'[k].project = tickets[k].project
              /\ tickets'[k].title = tickets[k].title
              /\ tickets'[k].updatedAt = tickets[k].updatedAt
         /\ session' \in [Agents -> Sessions]
         /\ \A a \in Agents :
              /\ session'[a].lease = OneLess(session[a].lease)
              /\ session'[a].asked = OneLess(session[a].asked)
              /\ session[a].lease \in Nat /\ session[a].asked \in Nat
              /\ session'[a].at = session[a].at /\ session'[a].call = session[a].call
              /\ session'[a].key = session[a].key /\ session'[a].title = session[a].title
<1>1. ASSUME NEW t \in Row
      PROVE  /\ t.claimedAt \in {NoTime} \cup 0..MaxTime
             /\ SecondEarlier(t.claimedAt) \in {NoTime} \cup 0..MaxTime
  BY Bounds, ClockUnits DEF Row, SecondEarlier, NoTime
<1>2. ASSUME NEW left \in 0..ClaimTTL PROVE OneLess(left) \in 0..ClaimTTL /\ left \in Nat
  BY ClockUnits DEF OneLess
<1>3. DOMAIN tickets' = DOMAIN tickets
  BY DEF Age
<1>4. ASSUME NEW k \in DOMAIN tickets
      PROVE  /\ tickets'[k] \in Row
             /\ tickets'[k].claimedAt = SeenNext(tickets[k].claimedAt)
             /\ tickets[k].claimedAt \in {NoTime} \cup Nat
             /\ tickets'[k].claimedBy = tickets[k].claimedBy
             /\ tickets'[k].parent = tickets[k].parent
             /\ tickets'[k].status = tickets[k].status
             /\ tickets'[k].project = tickets[k].project
             /\ tickets'[k].title = tickets[k].title
             /\ tickets'[k].updatedAt = tickets[k].updatedAt
  <2>1. tickets[k] \in Row
    BY RowFacts DEF SessionInv
  <2>2. PICK at : at = SeenNext(tickets[k].claimedAt)
    OBVIOUS
  <2>3. tickets'[k] = [tickets[k] EXCEPT !.claimedAt = at]
    <3>1. CASE SecondEnds
      BY <2>2, <3>1 DEF Age, SeenNext
    <3>2. CASE ~SecondEnds
      BY <2>1, <2>2, <3>2 DEF Age, SeenNext, Row
    <3>3. QED
      BY <3>1, <3>2
  <2>4. at \in {NoTime} \cup 0..MaxTime
    BY <1>1, <2>1, <2>2 DEF SeenNext
  <2>5. tickets'[k] \in Row
    BY <2>1, <2>3, <2>4 DEF Row
  <2>6. /\ tickets'[k].claimedBy = tickets[k].claimedBy
        /\ tickets'[k].parent = tickets[k].parent
        /\ tickets'[k].status = tickets[k].status
        /\ tickets'[k].project = tickets[k].project
        /\ tickets'[k].title = tickets[k].title
        /\ tickets'[k].updatedAt = tickets[k].updatedAt
        /\ tickets'[k].claimedAt = at
    BY <2>1, <2>3 DEF Row
  <2>7. tickets[k].claimedAt \in {NoTime} \cup Nat
    BY <1>1, <2>1, Bounds
  <2>8. QED
    BY <2>2, <2>5, <2>6, <2>7
<1>5. tickets' \in [DOMAIN tickets -> Row]
  <2>1. tickets' = [k \in DOMAIN tickets |-> tickets'[k]]
    BY DEF Age, SessionInv, IInv, TypeOK
  <2>2. QED
    BY <1>4, <2>1
<1>6. ASSUME NEW a \in Agents
      PROVE  /\ session'[a] \in Sessions
             /\ session'[a].lease = OneLess(session[a].lease)
             /\ session'[a].asked = OneLess(session[a].asked)
             /\ session[a].lease \in Nat /\ session[a].asked \in Nat
             /\ session'[a].at = session[a].at /\ session'[a].call = session[a].call
             /\ session'[a].key = session[a].key /\ session'[a].title = session[a].title
  <2>1. session[a] \in Sessions
    BY SessionTypes
  <2>2. PICK lease, asked : lease = OneLess(session[a].lease) /\ asked = OneLess(session[a].asked)
    OBVIOUS
  <2>3. session'[a] = [session[a] EXCEPT !.lease = lease, !.asked = asked]
    BY <2>2 DEF Age
  <2>4. session[a].lease \in 0..ClaimTTL /\ session[a].asked \in 0..ClaimTTL
    BY <2>1 DEF Sessions
  <2>5. lease \in 0..ClaimTTL /\ asked \in 0..ClaimTTL
    BY <1>2, <2>2, <2>4
  <2>6. session'[a] \in Sessions /\ session'[a].lease = lease /\ session'[a].asked = asked
    BY <2>1, <2>3, <2>5 DEF Sessions
  <2>7. /\ session'[a].at = session[a].at /\ session'[a].call = session[a].call
        /\ session'[a].key = session[a].key /\ session'[a].title = session[a].title
    BY <2>1, <2>3 DEF Sessions
  <2>8. QED
    BY <1>2, <2>2, <2>4, <2>6, <2>7
<1>7. session' \in [Agents -> Sessions]
  BY <1>6 DEF Age
<1>8. QED
  BY <1>3, <1>4, <1>5, <1>6, <1>7

\* The claim and the lease that it backs come nearer to their ends together.
LEMMA BackedAfterTick ==
  ASSUME SessionInv, Age, NEW a \in Agents, NEW k \in DOMAIN tickets, NEW left \in Nat,
         OneLess(left) >= Second, left >= Second => Backed(k, a, left)
  PROVE  Backed(k, a, OneLess(left))'
<1> DEFINE at == tickets[k].claimedAt
<1>1. /\ OneLess(left) = left - 1 /\ left >= Second
      /\ Second \in Nat \ {0} /\ ClaimTTL \in Nat /\ MaxTime = ClaimTTL + Second - 1
  BY ClockUnits, SessionConstants DEF OneLess
<1>2. /\ tickets[k].claimedBy = a /\ ClaimTTL - (now - at) > left - Second
      /\ now \in Nat /\ ClaimTTL <= now /\ now <= MaxTime
  BY <1>1, StampIsNow DEF Backed, ClaimLeft, SessionInv
<1>3. /\ at \in Int /\ tickets'[k].claimedBy = a /\ tickets'[k].claimedAt = SeenNext(at)
  BY <1>2, AgeSteps DEF NoTime
<1>4. now' = IF SecondEnds THEN ClaimTTL ELSE now + 1
  BY DEF Age
<1>5. ClaimTTL - (now' - SeenNext(at)) > (left - 1) - Second
  BY <1>1, <1>2, <1>3, <1>4 DEF SeenNext, SecondEarlier, SecondEnds
<1>6. QED
  BY <1>1, <1>3, <1>5 DEF Backed, ClaimLeft

LEMMA AgePreserves ==
  ASSUME SessionInv, Age
  PROVE  SessionInv'
<1>1. /\ UNCHANGED <<counters, links, comments, abandoned, faults>> /\ reply' \in Replies
      /\ DOMAIN tickets' = DOMAIN tickets
  BY NoReplyType, AgeSteps DEF Age
<1>2. now' \in ClaimTTL..MaxTime
  <2>1. now \in Int /\ ClaimTTL <= now /\ now <= MaxTime
    BY StampIsNow DEF SessionInv
  <2>2. ClaimTTL \in Int /\ MaxTime \in Int /\ ClaimTTL <= MaxTime
    BY ClockUnits, SessionConstants
  <2>3. now' = IF now = MaxTime THEN ClaimTTL ELSE now + 1
    BY DEF Age, SecondEnds
  <2>4. QED
    BY <2>1, <2>2, <2>3
<1>3. TypeOK'
  <2>1. now' \in 0..MaxTime
    BY <1>2, ClockUnits
  <2>2. QED
    BY <1>1, <2>1, AgeSteps DEF SessionInv, IInv, TypeOK
<1>4. KeysSequential' /\ ParentsOlder' /\ LinksWellFormed'
  BY <1>1, AgeSteps DEF SessionInv, IInv, KeysSequential, ParentsOlder, LinksWellFormed
<1>5. ClaimFieldsAgree'
  <2>1. ASSUME NEW t \in {NoTime} \cup Nat
        PROVE  SeenNext(t) = NoTime <=> t = NoTime
    BY <2>1, ClockUnits DEF SeenNext, SecondEarlier, NoTime
  <2>2. QED
    BY <1>1, <2>1, AgeSteps DEF SessionInv, IInv, ClaimFieldsAgree
<1>6. WorklogChronological'
  <2>1. rfc3339(now') = rfc3339(now)
    BY <1>2, StampIsNow, StampOfSecond
  <2>2. \A k \in DOMAIN tickets' : tickets'[k].updatedAt <= rfc3339(now')
    BY <1>1, <2>1, AgeSteps DEF SessionInv, IInv, WorklogChronological
  <2>3. ASSUME NEW i \in DOMAIN comments
        PROVE  /\ comments[i].ticket \in DOMAIN tickets'
               /\ comments[i].at <= tickets'[comments[i].ticket].updatedAt
               /\ \A j \in 1..i :
                    comments[j].ticket = comments[i].ticket => comments[j].at <= comments[i].at
    BY <1>1, AgeSteps DEF SessionInv, IInv, WorklogChronological
  <2>4. QED
    BY <1>1, <2>2, <2>3 DEF WorklogChronological
<1>7. CallsHaveSubjects' /\ LateCallsFiled'
  BY <1>1, AgeSteps DEF SessionInv, CallsHaveSubjects, LateCallsFiled, HasSubject
<1>8. LeasesAreBacked'
  <2> SUFFICES ASSUME NEW a \in Agents, NEW k, NEW lease, NEW asked,
                      k = session[a].key, lease = session[a].lease, asked = session[a].asked,
                      k \in DOMAIN tickets, IsOpen(tickets[k]), ~Disowned(k, a)
               PROVE  /\ (session[a].at \in {"start", "work", "renew"} /\ OneLess(lease) >= Second)
                            => Backed(k, a, OneLess(lease))'
                      /\ (/\ session[a].at \in {"claim", "renew"}
                          /\ session[a].call = "ok" /\ OneLess(asked) >= Second)
                            => Backed(k, a, OneLess(asked))'
    BY <1>1, AgeSteps DEF LeasesAreBacked, IsOpen, Disowned, OneLess
  <2>1. /\ session[a].at \in {"start", "work", "renew"} /\ lease >= Second => Backed(k, a, lease)
        /\ session[a].at \in {"claim", "renew"} /\ session[a].call = "ok" /\ asked >= Second
             => Backed(k, a, asked)
    BY DEF SessionInv, LeasesAreBacked
  <2>2. lease \in Nat /\ asked \in Nat
    BY AgeSteps
  <2>3. QED
    BY <2>1, <2>2, BackedAfterTick
<1>9. RetriesMakeNoTwins'
  <2>1. Twins' = Twins
    BY <1>1, AgeSteps DEF Twins, IsOpen
  <2>2. QED
    BY <2>1 DEF SessionInv, RetriesMakeNoTwins
<1>10. QED
  BY <1>2, <1>3, <1>4, <1>5, <1>6, <1>7, <1>8, <1>9, AgeSteps DEF SessionInv, IInv

-------------------------------------------------------------------------------
(* Every step *)

LEMMA SessionsPreserve == SessionInv /\ [SessionNext]_agentVars => SessionInv'
<1> SUFFICES ASSUME SessionInv, [SessionNext]_agentVars PROVE SessionInv'
  OBVIOUS
<1>1. CASE Age
  BY <1>1, AgePreserves
<1>2. ASSUME NEW a \in Agents, Execute(a) PROVE SessionInv'
  BY <1>2, ExecutePreserves
<1>3. ASSUME NEW a \in Agents, Receive(a) PROVE SessionInv'
  BY <1>3, ReceivePreserves
<1>4. ASSUME NEW a \in Agents, NEW title \in Titles, Plan(a, title) PROVE SessionInv'
  BY <1>4, PlanPreserves
<1>5. ASSUME NEW a \in Agents, NEW k \in Keys, Pick(a, k) PROVE SessionInv'
  BY <1>5, PickPreserves
<1>6. ASSUME NEW a \in Agents, Renew(a) PROVE SessionInv'
  BY <1>6, SessionTypes, WorkingPreserves DEF Renew
<1>7. ASSUME NEW a \in Agents, Finish(a) PROVE SessionInv'
  BY <1>7, SessionTypes, WorkingPreserves DEF Finish
<1>8. ASSUME NEW a \in Agents, GiveUp(a) PROVE SessionInv'
  BY <1>8, WorkingPreserves DEF GiveUp
<1>9. ASSUME NEW a \in Agents, Retry(a) PROVE SessionInv'
  BY <1>9, RetryPreserves
<1>10. ASSUME NEW a \in Agents, Die(a) PROVE SessionInv'
  BY <1>10, DiePreserves
<1>11. CASE UNCHANGED agentVars
  <2>1. UNCHANGED <<tickets, counters, links, comments, now, reply, session, abandoned, faults>>
    BY <1>11 DEF agentVars, vars
  <2>2. IInv'
    BY <2>1 DEF SessionInv, IInv, TypeOK, KeysSequential, ParentsOlder, LinksWellFormed,
       ClaimFieldsAgree, WorklogChronological
  <2>3. CallsHaveSubjects' /\ LateCallsFiled' /\ RetriesMakeNoTwins'
    BY <2>1 DEF SessionInv, CallsHaveSubjects, LateCallsFiled, HasSubject, IsOpen,
       RetriesMakeNoTwins, Twins
  <2>4. LeasesAreBacked'
    BY <2>1 DEF SessionInv, LeasesAreBacked, Backed, ClaimLeft, Disowned, IsOpen
  <2>5. QED
    BY <2>1, <2>2, <2>3, <2>4 DEF SessionInv
<1>12. ASSUME NEW i \in 1..MaxFaults, ExecuteLate(i) PROVE SessionInv'
  BY <1>12, ExecuteLatePreserves
<1>13. QED
  BY <1>1, <1>2, <1>3, <1>4, <1>5, <1>6, <1>7, <1>8, <1>9, <1>10, <1>11, <1>12 DEF SessionNext

LEMMA SessionInvariance == SessionSpec => []SessionInv
BY SessionInitEstablishes, SessionsPreserve, PTL DEF SessionSpec

\* In every behaviour of the sessions the tables keep the invariants of the store,
\* every session is in one of the states the tool descriptions lead to, and the
\* faults stay within their bound.
THEOREM SessionsAreWellTyped == SessionSpec => []SessionTypeOK
<1>1. SessionInv => SessionTypeOK
  BY DEF SessionInv, SessionTypeOK, LateCallsFiled, IInv
<1>2. QED
  BY <1>1, SessionInvariance, PTL

\* As long as an agent's lease has a second left, counted from when it asked, the
\* store records a claim of its that has as much left, to within a second: no call of
\* anybody, late or repeated, takes it or drops it while the ticket is open, but a
\* late release by the agent itself.
THEOREM LeasesStayBacked == SessionSpec => []LeasesAreBacked
<1>1. SessionInv => LeasesAreBacked
  BY DEF SessionInv
<1>2. QED
  BY <1>1, SessionInvariance, PTL

\* Two agents whose leases both have a second left are not at work on one open
\* ticket: both leases would be backed, and a ticket has one claim.
THEOREM OneTrustedWorker == SessionSpec => []OneWorkerPerTicket
<1>1. SessionInv => OneWorkerPerTicket
  <2> SUFFICES ASSUME SessionInv, NEW a \in Agents, NEW b \in Agents, NEW k \in DOMAIN tickets,
                      IsOpen(tickets[k]), AtWork(a, k), AtWork(b, k),
                      ~(session[a].lease < Second), ~(session[b].lease < Second),
                      ~Disowned(k, a), ~Disowned(k, b)
               PROVE  a = b
    BY DEF OneWorkerPerTicket
  <2>1. session[a].lease >= Second /\ session[b].lease >= Second
    <3>1. session[a].lease \in 0..ClaimTTL /\ session[b].lease \in 0..ClaimTTL
      BY SessionTypes DEF Sessions
    <3>2. QED
      BY <3>1, ClockUnits
  <2>2. tickets[k].claimedBy = a /\ tickets[k].claimedBy = b
    BY <2>1 DEF SessionInv, LeasesAreBacked, AtWork, Backed
  <2>3. QED
    BY <2>2
<1>2. QED
  BY <1>1, SessionInvariance, PTL

\* A create that is repeated because its answer was lost makes no second open ticket
\* with the same title, however the calls of the agents interleave.
THEOREM RetriedCreatesMakeNoTwins == SessionSpec => []RetriesMakeNoTwins
<1>1. SessionInv => RetriesMakeNoTwins
  BY DEF SessionInv
<1>2. QED
  BY <1>1, SessionInvariance, PTL

================================================================================
