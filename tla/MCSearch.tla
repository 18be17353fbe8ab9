-------------------------------- MODULE MCSearch --------------------------------
(***************************************************************************)
(* Search for TLC: the statuses callers filter by and what happens to the  *)
(* tickets while they search.                                              *)
(***************************************************************************)
EXTENDS Search

NoChange == [status |-> Keep, title |-> Keep, other |-> FALSE, blocks |-> NoKey, relates |-> NoKey]

\* A ticket is started, or its title is changed to one that does not match.
StartingAndRenaming ==
  {[NoChange EXCEPT !.status = InProgress]}
  \cup {[NoChange EXCEPT !.title = t] : t \in Titles \ MatchingTitles}

\* No filter, or the tickets still to be started.
TodoOrAny == {AnyStatus, Todo}

\* States that differ in the last answer of the store alone are one state: no step
\* and no property of Search looks at it.
AllButReply == <<tables, readerVars, memory>>

===============================================================================
