----------------------------- MODULE TicketHistory -----------------------------
(***************************************************************************)
(* TicketStore with a memory that the database does not have: the tickets  *)
(* that were ever worked on, and the exact instant of the last claim that  *)
(* was granted, before it is cut to whole seconds for storage.             *)
(***************************************************************************)
EXTENDS TicketStore

VARIABLES
  worked,    \* keys of tickets that have been in_progress
  granted    \* key -> instant ClaimTicket last said yes, NoTime if never

historyVars == <<vars, worked, granted>>

HistoryInit ==
  /\ Init
  /\ worked = {}
  /\ granted = [k \in DOMAIN tickets |-> NoTime]

\* ClaimTicket said yes for key in this step; a Tick is no answer.
GrantsClaim(key) ==
  now' = now /\ reply'.op = "claim" /\ reply'.out = "ok" /\ reply'.key = key

Remember ==
  /\ worked' = worked \cup {k \in DOMAIN tickets' : tickets'[k].status = InProgress}
  /\ granted' = [k \in DOMAIN tickets' |->
                   IF GrantsClaim(k) THEN now
                   ELSE IF k \in DOMAIN granted THEN granted[k] ELSE NoTime]

HistoryNext == Next /\ Remember

HistorySpec == HistoryInit /\ [][HistoryNext]_historyVars

-------------------------------------------------------------------------------
HistoryTypeOK ==
  /\ TypeOK
  /\ worked \subseteq DOMAIN tickets
  /\ granted \in [DOMAIN tickets -> {NoTime} \cup 0..MaxTime]

\* What is done was worked on: no chain of moves, through reviews, blocks and
\* retreats to todo, reaches done around in_progress.
WorkedBeforeDone ==
  \A k \in DOMAIN tickets :
    tickets[k].status \in {InProgress, InReview, Done} => k \in worked

\* The claim a ticket shows is the last one that was granted on it, renewals
\* included, as of the second of the grant: a renewal really extends a lease.
HoldsLastGrant ==
  \A k \in DOMAIN tickets :
    tickets[k].claimedBy # NoAgent =>
      granted[k] # NoTime /\ tickets[k].claimedAt = rfc3339(granted[k])

\* What every step of the history preserves.
HistoryInv ==
  /\ IInv
  /\ HistoryTypeOK
  /\ WorkedBeforeDone
  /\ HoldsLastGrant

\* The claim of key goes from one agent to another who did not force it.
TakenOver(key) ==
  /\ tickets[key].claimedBy # NoAgent
  /\ tickets'[key].claimedBy \notin {NoAgent, tickets[key].claimedBy}
  /\ ~reply'.force

\* Whoever was told it holds a ticket holds it for the TTL but for less than one
\* second, the fraction that storing claimed_at drops: nobody takes it sooner
\* without force, through any mix of renewals, takeovers and retries.
LeaseWithinASecond ==
  [][ \A k \in DOMAIN tickets :
        TakenOver(k) => now - granted[k] > ClaimTTL - Second ]_historyVars

===============================================================================
