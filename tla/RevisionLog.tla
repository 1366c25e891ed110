---------------------------- MODULE RevisionLog ----------------------------
(***************************************************************************)
(* What the operation service promises about a document or a pane: its     *)
(* revisions form an append-only log.  Revision n is the n-th entry.  An   *)
(* entry is appended once for a submission, and the operation it stores    *)
(* has been rebased over an unbroken run of revisions that ends with its   *)
(* immediate predecessor, so it applies exactly to the log before it.      *)
(***************************************************************************)
EXTENDS Naturals, Sequences

CONSTANTS Log,        \* the documents and the panes
          Submission  \* what makes a submission unique (table, submissionId)

VARIABLE log          \* log[l][n] is revision n of l (revision 0 is implicit)

Entry == [submission : Submission, over : SUBSET Nat]

TypeOK == log \in [Log -> Seq(Entry)]

Init == log = [l \in Log |-> << >>]

Recorded(s) == \E l \in Log : \E n \in DOMAIN log[l] : log[l][n].submission = s

\* The next revision of l stores submission s, authored against the log before
\* revision base and rebased over base, ..., Len(log[l]).
Record(l, s) ==
    /\ ~ Recorded(s)
    /\ \E base \in 1 .. Len(log[l]) + 1 :
          log' = [log EXCEPT ![l] =
                    Append(@, [submission |-> s, over |-> base .. Len(@)])]

Next == \E l \in Log, s \in Submission : Record(l, s)

Spec == Init /\ [][Next]_log
=============================================================================
