----------------------------- MODULE Snapshots -----------------------------
(***************************************************************************)
(* Document.contents, Pane.contents and saveSnapshot: reading a log at a   *)
(* revision.  The contents are composed from the revisions of the log,     *)
(* starting at a stored snapshot when there is one.  A read makes three    *)
(* queries, and revisions are committed and snapshots are stored between   *)
(* them.                                                                   *)
(*                                                                         *)
(* Contents are represented by the operations they are composed of, in     *)
(* order: <<0, 1, ..., k>> are the contents at revision k.                 *)
(***************************************************************************)
EXTENDS Integers, Sequences, FiniteSetsExt

CONSTANTS
    Reader,      \* calls of contents() by requests, mails, thumbnails
    Saver,       \* calls of saveSnapshot() by the queue worker
    MaxRevision  \* bound: the log stops growing there

ASSUME ReaderAssumption == Reader \cap Saver = {}

VARIABLES
    isPane,    \* whether the log is that of a pane
    origin,    \* what revision 0 stands for: its operation 0, or Copy
    last,      \* the last committed revision
    snapshots, \* snapshots[n]: the snapshot stored with revision n, if any
    pc,        \* the query at which a call stands
    at,        \* the revision it was asked for, or Latest
    since,     \* ghost: the last revision when the call began
    base,      \* the snapshot it found: its revision, or None
    start,     \* ... and the contents stored there
    upto,      \* the last revision it found
    result     \* the contents it returns

vars == <<isPane, origin, last, snapshots, pc, at, since, base, start, upto, result>>

Call == Reader \cup Saver

Latest == -1  \* atRevision is undefined
None == -1    \* no snapshot was found
Copy == -1    \* the contents a duplicated pane starts with

-----------------------------------------------------------------------------
\* The operations m .. n, composed.
Operations(m, n) == [i \in 1 .. n - m + 1 |-> m + i - 1]

\* What the contents at revision n should be.
Composition(n) == [i \in 1 .. n + 1 |-> IF i = 1 THEN origin ELSE i - 1]

\* Document asks "atRevision || atRevision === 0", Pane only "atRevision".
IsLatest(c) == at[c] = Latest \/ (isPane /\ at[c] = 0)

Upto(c, numbers) == IF IsLatest(c) THEN numbers ELSE {n \in numbers : n <= at[c]}

-----------------------------------------------------------------------------
\* SubmitOperation commits the next revision.
CommitRevision ==
    /\ last < MaxRevision
    /\ last' = last + 1
    /\ UNCHANGED <<isPane, origin, snapshots, pc, at, since, base, start, upto, result>>

\* A revision of a document is asked for by number in a URL, so it may not exist
\* yet; one of a pane only by the update email, for a revision that was stored.
Askable(c) ==
    {Latest} \cup {n \in 0 .. last + 1 : c \in Reader /\ (isPane => n \in 1 .. last)}

Start(c) ==
    /\ pc[c] = "idle"
    /\ pc' = [pc EXCEPT ![c] = "snapshot"]
    /\ \E n \in Askable(c) : at' = [at EXCEPT ![c] = n]
    /\ since' = [since EXCEPT ![c] = last]
    /\ UNCHANGED <<isPane, origin, last, snapshots, base, start, upto, result>>

\* The latest revision that has a snapshot.
FindSnapshot(c) ==
    /\ pc[c] = "snapshot"
    /\ pc' = [pc EXCEPT ![c] = "last"]
    /\ LET found == Upto(c, DOMAIN snapshots)
       IN  \/ /\ found = {}
              /\ base' = [base EXCEPT ![c] = None]
              /\ start' = [start EXCEPT ![c] = << >>]
           \/ /\ found # {}
              /\ base' = [base EXCEPT ![c] = Max(found)]
              /\ start' = [start EXCEPT ![c] = snapshots[Max(found)]]
    /\ UNCHANGED <<isPane, origin, last, snapshots, at, since, upto, result>>

\* Mutant: any snapshot will do.
FindLastUnlessSnapshot(c) ==
    /\ pc[c] = "last"
    /\ pc' = [pc EXCEPT ![c] = IF base[c] # None THEN "read" ELSE "revisions"]
    /\ upto' = [upto EXCEPT ![c] = IF base[c] # None THEN base[c] ELSE last]
    /\ result' = [result EXCEPT ![c] = start[c]]
    /\ UNCHANGED <<isPane, origin, last, snapshots, at, since, base, start>>

\* The latest revision; if it is the one with the snapshot, that is the result.
FindLast(c) ==
    /\ pc[c] = "last"
    /\ LET found == Max(Upto(c, 0 .. last))
       IN  /\ upto' = [upto EXCEPT ![c] = found]
           /\ \/ /\ base[c] = found
                 /\ pc' = [pc EXCEPT ![c] = "read"]
                 /\ result' = [result EXCEPT ![c] = start[c]]
              \/ /\ base[c] # found
                 /\ pc' = [pc EXCEPT ![c] = "revisions"]
                 /\ UNCHANGED result
    /\ UNCHANGED <<isPane, origin, last, snapshots, at, since, base, start>>

\* Mutant: the revision of the snapshot is composed once more.
FindRevisionsInclusive(c) ==
    /\ pc[c] = "revisions"
    /\ pc' = [pc EXCEPT ![c] = "read"]
    /\ result' = [result EXCEPT ![c] =
                    start[c] \o Operations(Max({base[c], 0}), upto[c])]
    /\ UNCHANGED <<isPane, origin, last, snapshots, at, since, base, start, upto>>

\* The revisions after the snapshot.  If there were none, revisions[-1] would be
\* dereferenced.
FindRevisions(c) ==
    /\ pc[c] = "revisions"
    /\ pc' = [pc EXCEPT ![c] = IF base[c] < upto[c] THEN "read" ELSE "failed"]
    /\ result' = [result EXCEPT ![c] = start[c] \o Operations(base[c] + 1, upto[c])]
    /\ UNCHANGED <<isPane, origin, last, snapshots, at, since, base, start, upto>>

\* Mutant: the snapshot goes to the revision that is the last one by now.
SaveSnapshotToLast(c) ==
    /\ c \in Saver
    /\ pc[c] = "read"
    /\ pc' = [pc EXCEPT ![c] = "idle"]
    /\ snapshots' = [n \in DOMAIN snapshots \cup {last} |->
                        IF n = last THEN result[c] ELSE snapshots[n]]
    /\ UNCHANGED <<isPane, origin, last, at, since, base, start, upto, result>>

\* The row of the revision that was read is looked up and saved.  Only its
\* column "snapshot" is written.  The locals of the call are gone with it.
SaveSnapshot(c) ==
    /\ c \in Saver
    /\ pc[c] = "read"
    /\ pc' = [pc EXCEPT ![c] = "idle"]
    /\ snapshots' = [n \in DOMAIN snapshots \cup {upto[c]} |->
                        IF n = upto[c] THEN result[c] ELSE snapshots[n]]
    /\ base' = [base EXCEPT ![c] = None]
    /\ start' = [start EXCEPT ![c] = << >>]
    /\ upto' = [upto EXCEPT ![c] = 0]
    /\ result' = [result EXCEPT ![c] = << >>]
    /\ UNCHANGED <<isPane, origin, last, at, since>>

-----------------------------------------------------------------------------
\* A log begins with revision 0.  Pane.duplicate stores the contents of the
\* source as the snapshot of revision 0 of the copy, in one transaction.
Init ==
    /\ isPane \in BOOLEAN
    /\ \/ origin = 0 /\ snapshots = << >>
       \/ isPane /\ origin = Copy /\ snapshots = [n \in {0} |-> <<Copy>>]
    /\ last = 0
    /\ pc = [c \in Call |-> "idle"]
    /\ at = [c \in Call |-> Latest]
    /\ since = [c \in Call |-> 0]
    /\ base = [c \in Call |-> None]
    /\ start = [c \in Call |-> << >>]
    /\ upto = [c \in Call |-> 0]
    /\ result = [c \in Call |-> << >>]

Next ==
    \/ CommitRevision
    \/ \E c \in Call : \/ Start(c) \/ FindSnapshot(c) \/ FindLast(c)
                       \/ FindRevisions(c) \/ SaveSnapshot(c)

Spec == Init /\ [][Next]_vars

-----------------------------------------------------------------------------
TypeOK ==
    /\ isPane \in BOOLEAN
    /\ origin \in {0, Copy}
    /\ last \in Nat
    /\ DOMAIN snapshots \subseteq 0 .. last
    /\ \A n \in DOMAIN snapshots : snapshots[n] \in Seq(Int)
    /\ pc \in [Call -> {"idle", "snapshot", "last", "revisions", "read", "failed"}]
    /\ at \in [Call -> Nat \cup {Latest}]
    /\ since \in [Call -> Nat]
    /\ base \in [Call -> Nat \cup {None}]
    /\ start \in [Call -> Seq(Int)]
    /\ upto \in [Call -> Nat]
    /\ result \in [Call -> Seq(Int)]

\* A read returns the composition of the revision it reports, although its three
\* queries see different states of the log; also in a copy of a pane, whose
\* revision 0 has another operation than its contents.
ReadsCompose == \A c \in Call : pc[c] = "read" => result[c] = Composition(upto[c])

\* Revision n is neither older than what was committed when the call began nor
\* newer than what it asked for.
IsFresh(c, n) ==
    IF IsLatest(c) THEN n >= since[c]
    ELSE n <= at[c] /\ (n >= since[c] \/ n = at[c])

\* A read returns at least what was committed when it began, but nothing after
\* the revision it was asked for.
ReadsFresh == \A c \in Call : pc[c] = "read" => IsFresh(c, upto[c])

\* The list of revisions that a read composes is never empty.
NeverEmpty == \A c \in Call : pc[c] # "failed"

\* A snapshot holds exactly what the revisions up to its own compose to, whoever
\* stores it and whatever is committed or stored in the meantime.
SnapshotsCompose == \A n \in DOMAIN snapshots : snapshots[n] = Composition(n)

-----------------------------------------------------------------------------
(***************************************************************************)
(* Why they hold: what a call knows after each of its queries.             *)
(***************************************************************************)
\* A snapshot was found that is not beyond the limit; or there was none, and then
\* the log is not a copy.
BaseFits(c) ==
    \/ base[c] = None /\ start[c] = << >> /\ origin = 0
    \/ /\ base[c] \in 0 .. last
       /\ start[c] = Composition(base[c])
       /\ ~ IsLatest(c) => base[c] <= at[c]

CallFits(c) ==
    /\ pc[c] # "idle" =>
          /\ since[c] <= last
          /\ c \in Saver => at[c] = Latest
    /\ pc[c] \in {"last", "revisions"} => BaseFits(c)
    /\ pc[c] \in {"revisions", "read"} => upto[c] <= last /\ IsFresh(c, upto[c])
    /\ pc[c] = "revisions" => base[c] < upto[c]
    /\ pc[c] = "read" => result[c] = Composition(upto[c])
    /\ pc[c] # "failed"

SnapshotInv ==
    /\ TypeOK
    /\ SnapshotsCompose
    /\ origin = Copy => 0 \in DOMAIN snapshots
    /\ \A c \in Call : CallFits(c)
=============================================================================
