-------------------------------- MODULE Pages --------------------------------
(***************************************************************************)
(* What people get to see of the changes of a document: the mails about    *)
(* them, and its history.  The two read the same log and do not interact:  *)
(* a behaviour is about a mail or about the history.                       *)
(***************************************************************************)
EXTENDS Mails, RevisionSessions

vars == <<mailVars, historyVars>>

AboutHistory == job.kind = "none"

Init == MailInit /\ HistoryInit

Next ==
    \/ MailNext /\ UNCHANGED historyVars
    \/ AboutHistory /\ HistoryNext /\ UNCHANGED mailVars

Spec == Init /\ [][Next]_vars
=============================================================================
