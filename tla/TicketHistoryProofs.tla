-------------------------- MODULE TicketHistoryProofs --------------------------
(***************************************************************************)
(* Proofs about TicketHistory, from the invariant of TicketStore and the   *)
(* ways a step can change a row (TicketStoreProofs).                       *)
(***************************************************************************)
EXTENDS TicketHistory, TicketStoreProofs

\* What a step does to the claim columns of an existing ticket: it leaves them,
\* clears them, or is the grant of a claim at this instant; and a grant is the
\* only step that GrantsClaim recognises.
LEMMA ClaimColumnSteps ==
  ASSUME IInv, Next, NEW k \in DOMAIN tickets
  PROVE  \/ tickets'[k].claimedBy = NoAgent /\ ~GrantsClaim(k)
         \/ /\ tickets'[k].claimedBy = tickets[k].claimedBy
            /\ tickets'[k].claimedAt = tickets[k].claimedAt
            /\ ~GrantsClaim(k)
         \/ tickets'[k].claimedAt = rfc3339(now) /\ GrantsClaim(k)
<1> DEFINE old == tickets[k]
           new == tickets'[k]
           Same == new.claimedBy = old.claimedBy /\ new.claimedAt = old.claimedAt
<1>1. ASSUME NEW key \in DOMAIN tickets, NEW row, tickets' = [tickets EXCEPT ![key] = row]
      PROVE  new = IF k = key THEN row ELSE old
  BY <1>1 DEF IInv, TypeOK
<1>2. old \in Row
  BY RowFacts
<1>3. CASE Tick
  <2>1. now' # now
    BY <1>3, StampNow, Bounds DEF Tick
  <2>2. QED
    BY <1>3, <2>1 DEF Tick, tables, GrantsClaim
<1>4. ASSUME NEW project \in Projects, NEW title \in Titles, NEW parent \in RelatedKeys,
             CreateTicket(project, title, parent)
      PROVE  Same /\ ~GrantsClaim(k)
  <2>1. reply'.op = "create"
    BY <1>4 DEF CreateTicket, InsertTicket, Refused, NoReply
  <2>2. k \in DOMAIN tickets' /\ new = old
    BY <1>4, CreateKeepsRows
  <2>3. QED
    BY <2>1, <2>2 DEF GrantsClaim
<1>5. ASSUME NEW key \in KeyArgs, NEW change \in Changes, UpdateTicket(key, change)
      PROVE  (Same \/ new.claimedBy = NoAgent) /\ ~GrantsClaim(k)
  <2>1. reply'.op = "update"
    BY <1>5 DEF UpdateTicket, Refused, NoReply
  <2>2. CASE tickets' = tickets
    BY <2>1, <2>2 DEF GrantsClaim
  <2>3. CASE key \in DOMAIN tickets /\ tickets' = [tickets EXCEPT ![key] = UpdatedRow(key, change)]
    BY <1>1, <1>2, <2>1, <2>3 DEF GrantsClaim, UpdatedRow, Row
  <2>4. QED
    BY <1>5, <2>2, <2>3 DEF UpdateTicket, Refused, tables
<1>6. ASSUME NEW key \in KeyArgs, NEW blankBody \in BOOLEAN, AddComment(key, blankBody)
      PROVE  Same /\ ~GrantsClaim(k)
  <2>1. reply'.op = "comment"
    BY <1>6 DEF AddComment, Refused, NoReply
  <2>2. CASE tickets' = tickets
    BY <2>1, <2>2 DEF GrantsClaim
  <2>3. CASE key \in DOMAIN tickets /\ tickets' = [tickets EXCEPT ![key] = TouchedRow(key)]
    BY <1>1, <1>2, <2>1, <2>3 DEF GrantsClaim, TouchedRow, Row
  <2>4. QED
    BY <1>6, <2>2, <2>3 DEF AddComment, Refused, tables
<1>7. ASSUME NEW key \in KeyArgs, NEW agentArg \in Agents, NEW force \in BOOLEAN,
             ClaimTicket(key, agentArg, force)
      PROVE  \/ Same /\ ~GrantsClaim(k)
             \/ new.claimedAt = rfc3339(now) /\ GrantsClaim(k)
  <2>1. CASE tickets' = tickets /\ reply'.out # "ok"
    BY <2>1 DEF GrantsClaim
  <2>2. CASE /\ key \in DOMAIN tickets
             /\ tickets' = [tickets EXCEPT ![key] = ClaimedRow(key, AgentId(agentArg))]
             /\ now' = now /\ reply'.op = "claim" /\ reply'.out = "ok" /\ reply'.key = key
    BY <1>1, <1>2, <2>2 DEF GrantsClaim, ClaimedRow, Row
  <2>3. QED
    BY <1>7, <2>1, <2>2 DEF ClaimTicket, Refused, tables, NoReply
<1>8. ASSUME NEW key \in KeyArgs, NEW agentArg \in Agents, NEW force \in BOOLEAN,
             ReleaseClaim(key, agentArg, force)
      PROVE  (Same \/ new.claimedBy = NoAgent) /\ ~GrantsClaim(k)
  <2>1. reply'.op = "release"
    BY <1>8 DEF ReleaseClaim, Refused, NoReply
  <2>2. CASE tickets' = tickets
    BY <2>1, <2>2 DEF GrantsClaim
  <2>3. CASE key \in DOMAIN tickets /\ tickets' = [tickets EXCEPT ![key] = UnclaimedRow(key)]
    BY <1>1, <1>2, <2>1, <2>3 DEF GrantsClaim, UnclaimedRow, Row
  <2>4. QED
    BY <1>8, <2>2, <2>3 DEF ReleaseClaim, Refused, tables
<1>9. QED
  BY <1>3, <1>4, <1>5, <1>6, <1>7, <1>8, UpdatesAreChanges DEF Next

\* Only a ticket that is in progress, in review or done moves to the last two.
LEMMA WorkComesFirst ==
  ASSUME NEW from \in allStatuses, NEW to \in {InReview, Done},
         to # from => CanTransition(from, to)
  PROVE  from \in {InProgress, InReview, Done}
BY DEF CanTransition, transitions, allStatuses, Backlog, Todo, InProgress, InReview,
   Blocked, Done, WontDo

\* The history follows the store: one more grant, one more ticket worked on.
LEMMA HistoryStepPreserves == HistoryInv /\ [HistoryNext]_historyVars => HistoryInv'
<1> SUFFICES ASSUME HistoryInv, [HistoryNext]_historyVars PROVE HistoryInv'
  OBVIOUS
<1>1. CASE UNCHANGED historyVars
  BY <1>1 DEF historyVars, vars, HistoryInv, IInv, TypeOK, KeysSequential, ParentsOlder,
     LinksWellFormed, ClaimFieldsAgree, WorklogChronological, HistoryTypeOK,
     WorkedBeforeDone, HoldsLastGrant
<1>2. CASE HistoryNext
  <2>1. IInv /\ Next /\ IInv' /\ Remember
    BY <1>2, StepPreserves DEF HistoryNext, HistoryInv
  <2>2. DOMAIN tickets \subseteq DOMAIN tickets'
    BY <2>1, RowSteps
  <2>3. HistoryTypeOK'
    <3>1. TypeOK'
      BY <2>1 DEF IInv
    <3>2. worked' \subseteq DOMAIN tickets'
      BY <2>1, <2>2 DEF Remember, HistoryInv, HistoryTypeOK
    <3>3. now \in 0..MaxTime
      BY <2>1, StampNow
    <3>4. granted' \in [DOMAIN tickets' -> {NoTime} \cup 0..MaxTime]
      BY <2>1, <3>3 DEF Remember, HistoryInv, HistoryTypeOK
    <3>5. QED
      BY <3>1, <3>2, <3>4 DEF HistoryTypeOK
  <2>4. WorkedBeforeDone'
    <3>1. SUFFICES ASSUME NEW k \in DOMAIN tickets',
                          tickets'[k].status \in {InReview, Done}
                   PROVE  k \in worked'
      BY <2>1 DEF WorkedBeforeDone, Remember
    <3>2. CASE k \in DOMAIN tickets
      <4>1. /\ tickets[k].status \in allStatuses
            /\ tickets'[k].status # tickets[k].status =>
                 CanTransition(tickets[k].status, tickets'[k].status)
        BY <2>1, <3>2, ColumnSteps DEF Row
      <4>2. tickets[k].status \in {InProgress, InReview, Done}
        BY <3>1, <4>1, WorkComesFirst
      <4>3. QED
        BY <2>1, <3>2, <4>2 DEF HistoryInv, WorkedBeforeDone, Remember
    <3>3. CASE k \notin DOMAIN tickets
      <4>1. tickets'[k].status = Todo
        BY <2>1, <3>3, NewTicketStep
      <4>2. QED
        BY <3>1, <4>1 DEF Todo, InReview, Done
    <3>4. QED
      BY <3>2, <3>3
  <2>5. HoldsLastGrant'
    <3>1. SUFFICES ASSUME NEW k \in DOMAIN tickets', tickets'[k].claimedBy # NoAgent
                   PROVE  granted'[k] # NoTime /\ tickets'[k].claimedAt = rfc3339(granted'[k])
      BY DEF HoldsLastGrant
    <3>2. CASE k \in DOMAIN tickets
      <4>1. granted'[k] = IF GrantsClaim(k) THEN now ELSE granted[k]
        BY <2>1, <3>2 DEF Remember, HistoryInv, HistoryTypeOK
      <4>2. CASE GrantsClaim(k)
        <5>1. tickets'[k].claimedAt = rfc3339(now)
          BY <2>1, <3>2, <4>2, ClaimColumnSteps
        <5>2. now # NoTime
          BY <2>1, StampNow DEF NoTime
        <5>3. QED
          BY <4>1, <4>2, <5>1, <5>2
      <4>3. CASE ~GrantsClaim(k)
        <5>1. /\ tickets'[k].claimedBy = tickets[k].claimedBy
              /\ tickets'[k].claimedAt = tickets[k].claimedAt
          BY <2>1, <3>1, <3>2, <4>3, ClaimColumnSteps
        <5>2. QED
          BY <3>1, <3>2, <4>1, <4>3, <5>1 DEF HistoryInv, HoldsLastGrant
      <4>4. QED
        BY <4>2, <4>3
    <3>3. CASE k \notin DOMAIN tickets
      BY <2>1, <3>1, <3>3, NewTicketStep
    <3>4. QED
      BY <3>2, <3>3
  <2>6. QED
    BY <2>1, <2>3, <2>4, <2>5 DEF HistoryInv
<1>3. QED
  BY <1>1, <1>2

-------------------------------------------------------------------------------
\* The history's invariant, for every value of the constants.
THEOREM HistoryInvariance == HistorySpec => []HistoryInv
<1>1. HistoryInit => HistoryInv
  <2> SUFFICES ASSUME HistoryInit PROVE HistoryInv
    OBVIOUS
  <2>1. IInv /\ DOMAIN tickets = {} /\ worked = {}
    BY InitEstablishes DEF HistoryInit, Init
  <2>2. HistoryTypeOK
    BY <2>1 DEF HistoryTypeOK, IInv, HistoryInit
  <2>3. QED
    BY <2>1, <2>2 DEF HistoryInv, WorkedBeforeDone, HoldsLastGrant
<1>2. HistoryInv /\ [HistoryNext]_historyVars => HistoryInv'
  BY HistoryStepPreserves
<1>3. QED
  BY <1>1, <1>2, PTL DEF HistorySpec

\* The history is about tickets that exist, and every grant it remembers happened at
\* a time the clock has shown.
THEOREM HistoryWellTyped == HistorySpec => []HistoryTypeOK
<1>1. HistoryInv => HistoryTypeOK
  BY DEF HistoryInv
<1>2. QED
  BY <1>1, HistoryInvariance, PTL

\* No ticket is in review or done that was never in progress.
THEOREM DoneMeansWorked == HistorySpec => []WorkedBeforeDone
<1>1. HistoryInv => WorkedBeforeDone
  BY DEF HistoryInv
<1>2. QED
  BY <1>1, HistoryInvariance, PTL

\* The claim on record is the last one that was granted.
THEOREM LastGrantHolds == HistorySpec => []HoldsLastGrant
<1>1. HistoryInv => HoldsLastGrant
  BY DEF HistoryInv
<1>2. QED
  BY <1>1, HistoryInvariance, PTL

\* A lease is cut short by less than a second, whatever the TTL and the clock.
THEOREM LeaseIsKept == HistorySpec => LeaseWithinASecond
<1>1. ASSUME HistoryInv, HistoryNext, NEW k \in DOMAIN tickets, TakenOver(k)
      PROVE  now - granted[k] > ClaimTTL - Second
  <2>1. IInv /\ Next
    BY <1>1 DEF HistoryInv, HistoryNext
  <2>2. PICK force \in BOOLEAN : /\ reply'.op = "claim" /\ reply'.force = force
                                 /\ ~HeldAgainst(k, tickets'[k].claimedBy, force)
    BY <1>1, <2>1, ColumnSteps DEF TakenOver
  <2>3. ~ClaimActiveAt(tickets[k], now)
    BY <1>1, <2>2 DEF HeldAgainst, TakenOver
  <2>4. /\ tickets[k].claimedAt = rfc3339(granted[k]) /\ granted[k] \in 0..MaxTime
        /\ tickets[k].claimedAt # NoTime
    BY <1>1, <2>1, RowFacts DEF HistoryInv, HoldsLastGrant, HistoryTypeOK, TakenOver
  <2>5. ~(now - tickets[k].claimedAt < ClaimTTL)
    BY <1>1, <2>3, <2>4 DEF ClaimActiveAt, TakenOver
  <2>6. /\ granted[k] \in Nat /\ rfc3339(granted[k]) \in 0..granted[k]
        /\ granted[k] - rfc3339(granted[k]) < Second
    <3>1. granted[k] \in Nat
      BY <2>4, Bounds
    <3>2. QED
      BY <3>1, Timestamps
  <2>7. now \in Int
    BY <2>1, StampNow, Bounds
  <2>8. QED
    BY <2>4, <2>5, <2>6, <2>7, ClockUnits
<1>2. ASSUME HistoryInv, [HistoryNext]_historyVars
      PROVE  [\A k \in DOMAIN tickets :
                TakenOver(k) => now - granted[k] > ClaimTTL - Second]_historyVars
  BY <1>1, <1>2
<1>3. QED
  BY <1>2, HistoryInvariance, PTL DEF HistorySpec, LeaseWithinASecond

===============================================================================
