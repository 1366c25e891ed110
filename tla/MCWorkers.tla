----------------------------- MODULE MCWorkers -----------------------------
(***************************************************************************)
(* Small instances of Workers: each task alone, messages of both types,    *)
(* and thumbnails of several edits, with two workers.                      *)
(***************************************************************************)
EXTENDS Workers

MCMessage == <<"freehand-significantly-changed", "other">>

Scenario(first, left, messages, edited, pauses, exits, delays) ==
    [jobs |-> first, left |-> left, unread |-> messages, version |-> edited,
     budget |-> [pauses |-> pauses, exits |-> exits, delays |-> delays]]

Alone == {"snapshot", "panesSnapshot", "lastViewed", "mention", "updateEmail", "session"}

\* Each task with a process that leaves it behind and a delay; two messages, a pause
\* and two ends; two edits with a delay; and two with a thumbnail job left behind.
MCScenarios ==
    {Scenario({<<task, "api", 1>>}, {}, << >>, Edits, 0, 1, 1) : task \in Alone}
    \cup {Scenario({}, {}, <<1, 2>>, Edits, 1, 2, 1),
          Scenario({}, {}, << >>, 0, 0, 0, 1),
          Scenario({}, {LeftJob}, << >>, 0, 0, 0, 0)}
=============================================================================
