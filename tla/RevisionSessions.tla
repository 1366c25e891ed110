-------------------------- MODULE RevisionSessions --------------------------
(***************************************************************************)
(* The history of a document (GetDocumentRevisions): its revisions grouped *)
(* into sessions.  How long a session may pause depends on how old a       *)
(* revision is when somebody asks, and on a feature flag of LaunchDarkly,  *)
(* so the groups change while time passes and with who asks.               *)
(***************************************************************************)
EXTENDS Integers, Sequences, FiniteSetsExt

CONSTANTS
    Author,
    Day, Week,          \* ages at which the pause that is allowed changes
    LastMonth,          \* of each time: subtract(1, 'months'), by the calendar
    Flags,              \* what the flag may hold: a pause for some of the ages
    Skew,               \* bound: how far apart the clocks of two processes are
    MaxTime, MaxHistory \* bounds of the time and of the revisions

VARIABLES
    history,  \* the revisions: [createdAt, user, revert]
    now,
    sessions, \* the last answer: [revision, users, createdAt, revert], in order
    asked,    \* when it was given
    metrics   \* and the pauses it was grouped by

historyVars == <<history, now, sessions, asked, metrics>>

Ages == {"pastDay", "pastWeek", "pastMonth", "greater"}

\* The helper's answer while LaunchDarkly is not ready: false, without any pause.
NotReady == << >>

\* A month ago is at least a week ago.  It need not be later at a later time: the
\* days of a month that the one before lacks become its last day.
AgesAssumption ==
    /\ {Day, Week, Skew, MaxTime} \subseteq Nat /\ Day <= Week
    /\ \A t \in 0..MaxTime : LastMonth[t] \in Int /\ LastMonth[t] <= t - Week
FlagsAssumption ==
    \A flag \in Flags :
        DOMAIN flag \subseteq Ages /\ \A age \in DOMAIN flag : flag[age] \in Nat

ASSUME AgesAssumption
ASSUME FlagsAssumption

-----------------------------------------------------------------------------
Between(t, after, until) == after < t /\ t <= until

\* Mutant: two of the ages are mixed up.
AgeSwapped(t) ==
    CASE Between(t, now - Day, now) -> "pastDay"
      [] Between(t, now - Week, now - Day) -> "pastMonth"
      [] Between(t, LastMonth[now], now - Week) -> "pastWeek"
      [] OTHER -> "greater"

\* What is older than a month, or seems to be still to come, is the rest.
Age(t) ==
    CASE Between(t, now - Day, now) -> "pastDay"
      [] Between(t, now - Week, now - Day) -> "pastWeek"
      [] Between(t, LastMonth[now], now - Week) -> "pastMonth"
      [] OTHER -> "greater"

Session(n) ==
    [revision |-> n, users |-> {history[n].user}, createdAt |-> history[n].createdAt,
     revert |-> history[n].revert]

\* Mutant: a revert does not end a session.
JoinsRevert(session, n, flag) ==
    LET t == history[n].createdAt
    IN  /\ ~history[n].revert /\ Age(t) \in DOMAIN flag
        /\ session.createdAt <= t /\ t <= session.createdAt + flag[Age(t)]

\* Whether a revision belongs to the session before it.
Joins(session, n, flag) ==
    LET t == history[n].createdAt
    IN  /\ ~session.revert /\ ~history[n].revert
        /\ session.createdAt <= t /\ t <= session.createdAt + flag[Age(t)]

\* The reduce of GetDocumentRevisions: a session takes the place of the last one
\* when it extends it.
Grouped(flag) ==
    LET upTo[n \in 0..Len(history)] ==
            IF n = 0 THEN << >>
            ELSE LET before == upTo[n - 1]
                     k == Len(before)
                 IN  IF n > 1 /\ Joins(before[k], n, flag)
                     THEN [before EXCEPT ![k] =
                              [Session(n) EXCEPT !.users = @ \cup before[k].users]]
                     ELSE Append(before, Session(n))
    IN  upTo[Len(history)]

\* The reduce comes upon a revision for whose age the flag has no pause.
Throws(flag) ==
    \E n \in 2..Len(history) :
        /\ ~history[n - 1].revert /\ ~history[n].revert
        /\ Age(history[n].createdAt) \notin DOMAIN flag

-----------------------------------------------------------------------------
\* A process commits a revision, with the time of its own clock.
Revise ==
    /\ Len(history) < MaxHistory
    /\ \E user \in Author, revert \in BOOLEAN, t \in now..(now + Skew) :
          history' = Append(history, [createdAt |-> t, user |-> user, revert |-> revert])
    /\ UNCHANGED <<now, sessions, asked, metrics>>

Tick ==
    /\ now < MaxTime
    /\ now' = now + 1
    /\ UNCHANGED <<history, sessions, asked, metrics>>

\* Every request looks the flag up, for its user and team.
GetDocumentRevisions ==
    \E flag \in Flags \cup {NotReady} :
        \/ /\ ~Throws(flag)
           /\ sessions' = Grouped(flag)
           /\ asked' = now
           /\ metrics' = flag
           /\ UNCHANGED <<history, now>>
        \/ /\ Throws(flag)  \* the request ends with an error and has changed nothing
           /\ UNCHANGED historyVars

HistoryInit ==
    /\ history = << >> /\ now = 0
    /\ sessions = << >> /\ asked = 0 /\ metrics = NotReady

HistoryNext == Revise \/ Tick \/ GetDocumentRevisions

-----------------------------------------------------------------------------
\* The revisions of the k-th session.
Members(k) ==
    (IF k = 1 THEN 1 ELSE sessions[k - 1].revision + 1)..sessions[k].revision

\* The sessions that were answered tell the history: no revision is missing or told
\* twice, the users of a session are the authors of its revisions, and a revert is
\* a session of its own.
SessionsCover ==
    \A k \in DOMAIN sessions :
        /\ Members(k) # {}
        /\ sessions[k].users = {history[n].user : n \in Members(k)}
        /\ \A n \in Members(k) : history[n].revert => Members(k) = {n}

\* The pauses get longer with age, as those of DEFAULT_REVISION_METRICS do.
InOrder(flag) ==
    /\ DOMAIN flag = Ages
    /\ flag["pastDay"] <= flag["pastWeek"]
    /\ flag["pastWeek"] <= flag["pastMonth"]
    /\ flag["pastMonth"] <= flag["greater"]

\* While the flag stays and its pauses are in order, time only merges sessions: no
\* later answer splits one, except before a revision that seemed to be still to come
\* when it was joined, and one that was older than a month then and is not now, by
\* the calendar.
SessionsOnlyMerge ==
    [][\A k \in DOMAIN sessions, n \in DOMAIN history :
          (/\ {n, n + 1} \subseteq Members(k)
           /\ metrics' = metrics /\ InOrder(metrics)
           /\ history[n + 1].createdAt <= asked
           /\ ~Between(history[n + 1].createdAt, LastMonth[asked'], LastMonth[asked])) =>
              \A j \in DOMAIN sessions' : sessions'[j].revision # n]_historyVars
=============================================================================
