--------------------------- MODULE ConnectionPool ---------------------------
(***************************************************************************)
(* The connections of a server process, which its submissions share.       *)
(*                                                                         *)
(* sequelize.transaction() takes a connection for as long as the           *)
(* transaction lasts.  The queries that SubmitOperation makes without      *)
(* handing the transaction over take a second one, inside.  Each process   *)
(* has at most PoolMax; who finds none free waits until one is given back  *)
(* or the wait times out.  The steps are those of SubmitOperation, each    *)
(* with the connections it needs; clients wait in a queue, whose order     *)
(* matters to none of the properties and is left open.                     *)
(***************************************************************************)
EXTENDS SubmitOperation

CONSTANTS
    PoolMax,    \* Config.pg.poolSize, of each process
    Visitor,    \* requests of other endpoints, which take no locks
    VisitorAt,  \* VisitorAt[v]: the server process that handles v
    Nesting     \* those that query inside a transaction without it: DuplicatePane

ASSUME PoolAssumption ==
    /\ PoolMax \in Nat \ {0}
    /\ Request \cap Visitor = {}
    /\ VisitorAt \in [Visitor -> Server]
    /\ Nesting \subseteq Visitor

VARIABLES
    has,        \* has[c]: what c has a connection for, of Kind
    visiting    \* the visitors under way

pvars == <<vars, has, visiting>>

Client == Request \cup Visitor
Host(c) == IF c \in Request THEN ServerOf[c] ELSE VisitorAt[c]
Kind == {"transaction", "query"}

TransactionsAt(s) == {c \in Client : Host(c) = s /\ "transaction" \in has[c]}
QueriesAt(s) == {c \in Client : Host(c) = s /\ "query" \in has[c]}
Full(s) == Cardinality(TransactionsAt(s)) + Cardinality(QueriesAt(s)) >= PoolMax

-----------------------------------------------------------------------------
(***************************************************************************)
(* Who needs a connection.                                                 *)
(***************************************************************************)
\* From the call of sequelize.transaction() to the end of COMMIT or ROLLBACK.
InTransaction(phase) == phase \in {"arrived", "locking"} \cup LockedPhase

\* The queries made beside the transaction: findById, checkForSubmittedRevision,
\* hasDocumentMembership (of canSubmitOperation), findPane, getDocumentIdsForPane.
Outside(r) ==
    \/ pc[r] \in {"arrived", "locked"}
    \/ IsPane(r) /\ pc[r] \in {"opened", "allowed", "created"}
    \/ ~ IsPane(r) /\ pc[r] = "validated" /\ ~ Has(r, "commentOnly")

\* _handleOperationError looks the submission up, after the rollback.
LooksUp(r) == pc[r] = "handling" /\ err[r] \in {"validation", "permissions", "database"}

Needs(c) ==
    IF c \in Request
    THEN (IF InTransaction(pc[c]) THEN {"transaction"} ELSE {})
           \cup (IF Outside(c) \/ LooksUp(c) THEN {"query"} ELSE {})
    ELSE (IF c \in visiting \cap Nesting THEN {"transaction"} ELSE {})
           \cup (IF c \in visiting THEN {"query"} ELSE {})

\* The callback of a transaction runs once it has its connection.
WaitsFor(c, kind) ==
    /\ kind \in Needs(c) \ has[c]
    /\ kind = "query" => "transaction" \notin Needs(c) \ has[c]

Waits(c) == \E kind \in Kind : WaitsFor(c, kind)

-----------------------------------------------------------------------------
(***************************************************************************)
(* The pool.                                                               *)
(***************************************************************************)
Serve(c) ==
    /\ ~ Full(Host(c))
    /\ \E kind \in Kind : WaitsFor(c, kind) /\ has' = [has EXCEPT ![c] = @ \cup {kind}]
    /\ UNCHANGED <<vars, visiting>>

GiveBack(c) == has' = [has EXCEPT ![c] = {}]

\* A wait ends in an error like that of a lost connection, where Fault has such.
TimesOut(c) == Waits(c) /\ Full(Host(c)) /\ "connection" \in Fault

\* Mutant: a lookup that got no connection counts as one that found nothing.
GiveUpAsNotFound(r) ==
    /\ TimesOut(r)
    /\ \/ /\ WaitsFor(r, "query") /\ pc[r] = "arrived"
          /\ Goto(r, "done") /\ Reply(r, "notFound")
          /\ UNCHANGED <<rows, archived, draft, last, over, err, made, rowHeld,
                         emitted, jobs, mailed>>
       \/ InTransaction(pc[r]) /\ pc[r] # "arrived" /\ Abort(r, "connection")
    /\ GiveBack(r)
    /\ UNCHANGED visiting

\* Mutant: nobody answers when the lookup of the error handler fails.
GiveUpSilently(r) ==
    /\ TimesOut(r)
    /\ \/ InTransaction(pc[r]) /\ Abort(r, "connection")
       \/ LooksUp(r) /\ Pass(r, "done")
    /\ GiveBack(r)
    /\ UNCHANGED visiting

\* The wait times out.  Inside the transaction that rolls it back; the error is
\* none of those _handleOperationError knows, nor is it one in its own lookup,
\* which it throws on to HandleErrors.
GiveUp(r) ==
    /\ TimesOut(r)
    /\ \/ InTransaction(pc[r]) /\ Abort(r, "connection")
       \/ /\ LooksUp(r)
          /\ HandleOperationError(r)
          /\ reply[r] = "none" => reply'[r] = "error"
    /\ GiveBack(r)
    /\ UNCHANGED visiting

\* Mutant: a callback that returns early keeps its transaction open.
KeptOpen(r) == IF InTransaction(pc'[r]) \/ reply'[r] \in {"empty", "notFound"}
               THEN {"transaction"} ELSE {}

\* A query gives its connection back when it is answered, a transaction when it
\* has ended.
Kept(r) == IF InTransaction(pc'[r]) THEN {"transaction"} ELSE {}

Release(r) == has' = [has EXCEPT ![r] = Kept(r)] /\ UNCHANGED visiting

Step(r) == ~ Waits(r) /\ Handle(r) /\ Release(r)

Fail(r) == ~ Waits(r) /\ (QueryFails(r) \/ CommitFails(r)) /\ Release(r)

-----------------------------------------------------------------------------
(***************************************************************************)
(* Everybody else.                                                         *)
(***************************************************************************)
Submit(r) == Send(r) /\ UNCHANGED <<has, visiting>>

Visit(v) ==
    /\ v \notin visiting
    /\ visiting' = visiting \cup {v}
    /\ UNCHANGED <<vars, has>>

\* A visitor is done, or has waited too long for what it needs next.
Leave(v) ==
    /\ v \in visiting
    /\ Waits(v) => TimesOut(v)
    /\ visiting' = visiting \ {v}
    /\ GiveBack(v)
    /\ UNCHANGED vars

Archival(d) == (ArchiveDocument(d) \/ UnarchiveDocument(d)) /\ UNCHANGED <<has, visiting>>

Exit(s) ==
    /\ Crash(s)
    /\ has' = [c \in Client |-> IF Host(c) = s THEN {} ELSE has[c]]
    /\ visiting' = {v \in visiting : Host(v) # s}

PoolInit ==
    /\ Init
    /\ has = [c \in Client |-> {}]
    /\ visiting = {}

PoolNext ==
    \/ \E r \in Request : Submit(r) \/ Step(r) \/ Fail(r) \/ GiveUp(r)
    \/ \E v \in Visitor : Visit(v) \/ Leave(v)
    \/ \E c \in Client : Serve(c)
    \/ \E d \in Document : Archival(d)
    \/ \E s \in Server : Exit(s)

PoolSpec == PoolInit /\ [][PoolNext]_pvars

\* The event loop runs every continuation, PostgreSQL answers every query, and the
\* wait for a connection ends one way or the other.  Lock waits are served in order,
\* and a request takes a lock once, so weak fairness is enough.  Clients, archival,
\* failures and visitors are not fair.
PoolFairSpec ==
    PoolSpec /\ \A r \in Request : WF_pvars(Step(r) \/ Serve(r) \/ GiveUp(r))

-----------------------------------------------------------------------------
(***************************************************************************)
(* Properties.                                                             *)
(***************************************************************************)
\* No connection is lost: nobody keeps one that is not needed for the step at
\* hand, every transaction past its first query has one, and queries come second.
ConnectionsKept ==
    /\ has \in [Client -> SUBSET Kind]
    /\ visiting \subseteq Visitor
    /\ \A c \in Client : has[c] \subseteq Needs(c)
    /\ \A c \in Client : "query" \in has[c] => has[c] = Needs(c)
    /\ \A r \in Request :
          InTransaction(pc[r]) /\ pc[r] # "arrived" => "transaction" \in has[r]
    /\ \A s \in Server :
          Cardinality(TransactionsAt(s)) + Cardinality(QueriesAt(s)) <= PoolMax

UnderWay(c) == IF c \in Request THEN pc[c] \in Running ELSE c \in visiting

\* c has, or is about to get, what its next step needs.
GoesOn(c) ==
    /\ UnderWay(c)
    /\ Waits(c) => ~ Full(Host(c))
    /\ c \in Request => NotWaiting(c)

\* Submissions and other requests come to a standstill, which only the time limit
\* of a wait ends, in one way: all connections of some process are taken by
\* transactions, one of which waits for a second connection there.
StandstillIsFullPool ==
    \/ \A c \in Client : ~ UnderWay(c)
    \/ \E c \in Client : GoesOn(c)
    \/ \E s \in Server :
          /\ Cardinality(TransactionsAt(s)) = PoolMax
          /\ QueriesAt(s) = {}
          /\ \E c \in TransactionsAt(s) : WaitsFor(c, "query")

\* To submissions the pool is a cause of failures they know already: whatever
\* holds of them with failing connections holds of them with a pool.
PoolOnlyDelays == Spec
=============================================================================
