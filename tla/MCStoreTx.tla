------------------------------- MODULE MCStoreTx -------------------------------
(***************************************************************************)
(* StoreTx for TLC: the calls of the run, which between them stop at every *)
(* statement an operation is made of.                                      *)
(***************************************************************************)
EXTENDS StoreTx

NoChange == [status |-> Keep, title |-> Keep, other |-> FALSE, blocks |-> NoKey, relates |-> NoKey]

\* An edit with two links of which the second is refused for the first ticket and
\* the first for the second ticket, a pair of links without an edit, the end of
\* the work, which drops the claim, a move that is refused and a blank title.
Interrupted ==
  {[NoChange EXCEPT !.other = TRUE, !.blocks = 2, !.relates = 1],
   [NoChange EXCEPT !.blocks = 2, !.relates = 2],
   [NoChange EXCEPT !.status = WontDo],
   [NoChange EXCEPT !.status = Done, !.title = Blank],
   [NoChange EXCEPT !.title = Blank]}

\* Tickets with and without a parent; claims and releases of the first ticket by
\* two agents, one of whom insists; and calls about a ticket that never exists.
SomeCalls ==
  {[op |-> "create", project |-> p, title |-> t, parent |-> k] :
     p \in Projects, t \in Titles, k \in {NoKey, 1}}
  \cup {[op |-> "update", key |-> k, change |-> c] : k \in Keys, c \in Interrupted}
  \cup {[op |-> "comment", key |-> k, blankBody |-> b] : k \in {1, 3}, b \in BOOLEAN}
  \cup {[op |-> o, key |-> 1, agent |-> a, force |-> FALSE] :
          o \in {"claim", "release"}, a \in Agents}
  \cup {[op |-> o, key |-> 1, agent |-> NoAgent, force |-> TRUE] : o \in {"claim", "release"}}
  \cup {[op |-> o, key |-> 3, agent |-> NoAgent, force |-> FALSE] : o \in {"claim", "release"}}

===============================================================================
