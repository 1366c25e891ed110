------------------------- MODULE MCSubmitOperation -------------------------
(***************************************************************************)
(* Small instances of SubmitOperation.  A configuration picks one of the   *)
(* scenarios below: the operations clients author, which request carries   *)
(* which operation, and which server process handles it.                   *)
(***************************************************************************)
EXTENDS SubmitOperation

MCUser == {"alice", "bob", "carol"}
MCSubmission == {"s1", "s2", "s3", "s4"}

Op(submission, user, log, document, traits) ==
    [submission |-> submission, user |-> user, log |-> log,
     document |-> document, traits |-> traits]

AliceEdit == Op("s1", "alice", "d1", "d1", {})
BobEdit == Op("s2", "bob", "d1", "d1", {})

\* Two clients edit one document; the first sends its operation twice, through
\* two server processes.
RetryOperation == {AliceEdit, BobEdit}
RetryCarries == <<AliceEdit, AliceEdit, BobEdit>>
RetryServerOf == <<"A", "B", "A">>

\* The same with a pane, beside an operation for a pane that does not exist.
AlicePaneEdit == Op("s3", "alice", "p1", "d1", {})
BobPaneEdit == Op("s4", "bob", "p1", "d1", {})
LostPaneEdit == Op("s2", "bob", "p2", "d1", {"noPane"})
FaultOperation == {AlicePaneEdit, BobPaneEdit, LostPaneEdit}
FaultCarries == <<AlicePaneEdit, AlicePaneEdit, BobPaneEdit, LostPaneEdit>>
FaultServerOf == <<"A", "B", "A", "B">>

\* Two clients number their operations anyhow; the second may only comment, which
\* it does.  The submission id of the first also arrives for another document, and
\* from a user of another team.
StrayEdit == Op("s1", "alice", "d1", "d1", {"stray"})
StrayComment == Op("s2", "bob", "d1", "d1", {"stray", "denied", "commentOnly"})
ReusedElsewhere == Op("s1", "alice", "d2", "d2", {})
ForeignEdit == Op("s1", "carol", "d1", "d1", {"foreign"})
StrayOperation == {StrayEdit, StrayComment}
StrayCarries == <<StrayEdit, StrayComment>>
ReuseOperation == {StrayEdit, StrayComment, ReusedElsewhere, ForeignEdit}
ReuseCarries == <<StrayEdit, StrayComment, ReusedElsewhere, ForeignEdit>>

\* One server process for every request, whatever the scenario.
OneServerOf == [r \in Request |-> "A"]

\* Lock keys may be equal: sha256 is cut to 64 bits.
DistinctKey == [l \in Log |-> l]
CollidingKey == [l \in Log |-> "key"]
EverySecond == [l \in Log |-> 2]
=============================================================================
