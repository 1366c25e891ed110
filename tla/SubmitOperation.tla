-------------------------- MODULE SubmitOperation --------------------------
(***************************************************************************)
(* OperationController.SubmitOperation: clients post operations against    *)
(* documents (deltas) and panes (json1), several server processes handle   *)
(* them, and PostgreSQL stores them as revisions.                          *)
(*                                                                         *)
(* A request runs inside one transaction.  It is cut here at every await,  *)
(* because any other request, an archival of the document, a failing       *)
(* statement or a crash of the process may come in between.  Queries made  *)
(* without the transaction run on another connection; under READ COMMITTED *)
(* both kinds see what is committed when they run, and the transaction     *)
(* also sees its own row.                                                  *)
(***************************************************************************)
EXTENDS Naturals, Sequences, FiniteSets, FiniteSetsExt

CONSTANTS
    Document, Pane,     \* what operations are submitted to
    User, Submission,   \* users, client-made submission ids
    Operation,          \* the operations clients author (records, see below)
    Request,            \* HTTP requests; a retry carries the same operation
    Carries,            \* Carries[r]: the operation in the body of request r
    Server, ServerOf,   \* ServerOf[r]: the server process that handles r
    LockKey,            \* LockKey[l]: the advisory-lock key hashed from l
    SnapshotCoefficient,\* SnapshotCoefficient[l]: a snapshot every so many
    StrayRevision,      \* revision numbers a misbehaving client may send
    Fault               \* the kinds of failure the environment may produce

Log == Document \cup Pane

\* stray: numbered wrongly by its client.  foreign: the user is of another team.
\* denied: canSubmitOperation rejects the user.  noPane: the pane is unknown.
\* commentOnly: changes nothing but comments.
Trait == {"stray", "foreign", "denied", "noPane", "commentOnly"}
FaultKind == {"database", "connection", "commit", "crash"}

\* document is the documentId of the body: for a delta, the log itself; for a
\* json1 operation, the document the pane is edited in.
OperationRecord ==
    [submission : Submission, user : User, log : Log, document : Document,
     traits : SUBSET Trait]

ASSUME LogAssumption ==
    /\ Document \cap Pane = {}
    /\ SnapshotCoefficient \in [Log -> Nat \ {0}]

ASSUME OperationAssumption ==
    /\ Operation \subseteq OperationRecord
    /\ \A o \in Operation : o.log \in Document => o.document = o.log

ASSUME RequestAssumption ==
    /\ Carries \in [Request -> Operation]
    /\ ServerOf \in [Request -> Server]
    /\ StrayRevision \subseteq Nat
    /\ Fault \subseteq FaultKind

VARIABLES
    rows,     \* the committed rows of documentRevisions and paneRevisions
    archived, \* the documents whose isArchived is set
    pc,       \* pc[r]: the await at which request r stands
    draft,    \* draft[o]: the revision number in o's body, and what its author saw
    last,     \* last[r]: the lastRevision request r read
    over,     \* over[r]: the numbers of the concurrent revisions r rebased over
    err,      \* err[r]: why r's transaction was rolled back
    made,     \* the requests whose local variable "revision" is assigned
    rowHeld,  \* the requests whose transaction updated the documents row
    reply,    \* reply[r]: the HTTP answer of r
    emitted,  \* emitted[l]: the operations of l sent to the sockets, in order
    jobs,     \* the queue jobs and event-bus messages pushed
    mailed    \* the requests whose after-submit hooks have run

vars == <<rows, archived, pc, draft, last, over, err, made, rowHeld, reply,
          emitted, jobs, mailed>>

-----------------------------------------------------------------------------
OpOf(r) == Carries[r]
LogOf(r) == OpOf(r).log
DocumentOf(r) == OpOf(r).document
IsPane(r) == LogOf(r) \in Pane
Has(r, trait) == trait \in OpOf(r).traits

\* submissionId is unique per table, and there is a table for each kind of log.
KeyOf(r) == <<IsPane(r), OpOf(r).submission>>

\* The transaction's row, inserted and visible to others only once committed.
RowOf(r) == [by |-> r, revision |-> last[r] + 1, over |-> over[r]]

RowsOf(l) == {row \in rows : LogOf(row.by) = l}
RevisionsOf(l) == {0} \cup {row.revision : row \in RowsOf(l)}
LastRevision(l) == Max(RevisionsOf(l))

InsertedPhase ==
    {"inserted", "titled", "stamping", "stamped", "created", "committing"}

\* pg_advisory_xact_lock is held until the transaction ends.
LockedPhase ==
    {"locked", "checked", "opened", "allowed", "found", "validated", "ready",
     "rebased"} \cup InsertedPhase

Phase == {"unsent", "arrived", "locking", "committed", "handling", "done",
          "crashed"} \cup LockedPhase

Running == Phase \ {"unsent", "done", "crashed"}

Answer == {"none", "operation", "empty", "rollback", "error", "notFound"}
ErrorKind == {"none", "database", "connection", "validation", "permissions",
              "unique", "archive", "other"}
JobKind == {"snapshot", "documentRenamed", "documentUpdated"}

-----------------------------------------------------------------------------
Goto(r, phase) == pc' = [pc EXCEPT ![r] = phase]

Reply(r, answer) == reply' = [reply EXCEPT ![r] = answer]

\* The callback rejects: Sequelize rolls the transaction back, which drops its
\* row and its locks, and then calls _handleOperationError.
Abort(r, error) ==
    /\ Goto(r, "handling")
    /\ err' = [err EXCEPT ![r] = error]
    /\ rowHeld' = rowHeld \ {r}
    /\ UNCHANGED <<rows, archived, draft, last, over, made, reply, emitted,
                   jobs, mailed>>

\* A step that only moves the request on.
Pass(r, phase) ==
    /\ Goto(r, phase)
    /\ UNCHANGED <<rows, archived, draft, last, over, err, made, rowHeld, reply,
                   emitted, jobs, mailed>>

-----------------------------------------------------------------------------
(***************************************************************************)
(* The client.                                                             *)
(***************************************************************************)
\* What a client may hold as revision n of l: it fetched a committed row, or it
\* received a broadcast.
Known(l, n) ==
    {OpOf(row.by) : row \in {x \in RowsOf(l) : x.revision = n}}
      \cup {OpOf(emitted[l][i].by) :
              i \in {j \in DOMAIN emitted[l] : emitted[l][j].revision = n}}

\* A client that has seen revisions 1..k numbers its operation k + 1.
Drafts(o) ==
    IF "stray" \in o.traits
    THEN {[revision |-> n, seen |-> << >>] : n \in StrayRevision}
    ELSE LET numbers == RevisionsOf(o.log)
                          \cup {emitted[o.log][i].revision : i \in DOMAIN emitted[o.log]}
         IN  UNION {{[revision |-> k + 1, seen |-> s] :
                       s \in {f \in [1 .. k -> Operation] :
                                \A n \in 1 .. k : f[n] \in Known(o.log, n)}} :
                    k \in numbers}

Sent(o) == \E q \in Request : Carries[q] = o /\ pc[q] # "unsent"

\* The first request for an operation fixes its revision number; a client that
\* got no answer sends the same body again.
Send(r) ==
    /\ pc[r] = "unsent"
    /\ Goto(r, "arrived")
    /\ \/ /\ Sent(OpOf(r))
          /\ UNCHANGED draft
       \/ /\ ~ Sent(OpOf(r))
          /\ \E d \in Drafts(OpOf(r)) : draft' = [draft EXCEPT ![OpOf(r)] = d]
    /\ UNCHANGED <<rows, archived, last, over, err, made, rowHeld, reply,
                   emitted, jobs, mailed>>

-----------------------------------------------------------------------------
(***************************************************************************)
(* SubmitOperation, up to the call of Make...Revision.                     *)
(***************************************************************************)
\* Document.findById without the transaction, under the scope isArchived = false.
FindDocument(r) ==
    /\ pc[r] = "arrived"
    /\ \/ /\ DocumentOf(r) \notin archived
          /\ Pass(r, "locking")
       \/ /\ DocumentOf(r) \in archived
          /\ Goto(r, "done")
          /\ Reply(r, "notFound")
          /\ UNCHANGED <<rows, archived, draft, last, over, err, made, rowHeld,
                         emitted, jobs, mailed>>

\* Mutant: the advisory lock excludes nobody.
AcquireLockAtOnce(r) ==
    /\ pc[r] = "locking"
    /\ Pass(r, "locked")

AcquireLock(r) ==
    /\ pc[r] = "locking"
    /\ \A q \in Request \ {r} :
          pc[q] \in LockedPhase => LockKey[LogOf(q)] # LockKey[LogOf(r)]
    /\ Pass(r, "locked")

\* The rows checkForSubmittedRevision looks for: same submission, log and user.
Submitted(r) ==
    \E row \in RowsOf(LogOf(r)) :
        /\ OpOf(row.by).submission = OpOf(r).submission
        /\ OpOf(row.by).user = OpOf(r).user

CheckForSubmitted(r) ==
    /\ pc[r] = "locked"
    /\ \/ /\ ~ Submitted(r)
          /\ Pass(r, "checked")
       \/ /\ Submitted(r)
          /\ Goto(r, "done")
          /\ Reply(r, "empty")
          /\ UNCHANGED <<rows, archived, draft, last, over, err, made, rowHeld,
                         emitted, jobs, mailed>>

-----------------------------------------------------------------------------
(***************************************************************************)
(* MakeDocumentRevision and MakePaneRevision.                              *)
(***************************************************************************)
GetDocumentForRevisions(r) ==
    /\ pc[r] = "checked"
    /\ \/ /\ ~ Has(r, "foreign")
          /\ DocumentOf(r) \notin archived
          /\ Pass(r, "opened")
       \/ /\ Has(r, "foreign")
          /\ Abort(r, "other")
       \/ /\ ~ Has(r, "foreign")
          /\ DocumentOf(r) \in archived
          /\ Abort(r, "archive")

\* Panes ask before they read anything; documents after reading the contents,
\* and only for an operation that changes more than comments.
CheckPermission(r) ==
    /\ pc[r] = IF IsPane(r) THEN "opened" ELSE "validated"
    /\ LET refused == Has(r, "denied") /\ (IsPane(r) \/ ~ Has(r, "commentOnly"))
       IN  \/ /\ ~ refused
              /\ Pass(r, IF IsPane(r) THEN "allowed" ELSE "ready")
           \/ /\ refused
              /\ Abort(r, "permissions")

GetPane(r) ==
    /\ IsPane(r)
    /\ pc[r] = "allowed"
    /\ \/ /\ ~ Has(r, "noPane")
          /\ Pass(r, "found")
       \/ /\ Has(r, "noPane")
          /\ Abort(r, "other")

\* 0 is rejected because it is falsy; and a previous revision 0 is falsy too, so
\* the second test is made only once the log has a revision of its own.
IsValidOperation(incoming, previous) ==
    /\ incoming # 0
    /\ previous # 0 => incoming <= previous + 1

ReadLastRevision(r) ==
    /\ pc[r] = IF IsPane(r) THEN "found" ELSE "opened"
    /\ LET previous == LastRevision(LogOf(r))
       IN  \/ /\ IsValidOperation(draft[OpOf(r)].revision, previous)
              /\ Goto(r, "validated")
              /\ last' = [last EXCEPT ![r] = previous]
              /\ UNCHANGED <<rows, archived, draft, over, err, made, rowHeld,
                             reply, emitted, jobs, mailed>>
           \/ /\ ~ IsValidOperation(draft[OpOf(r)].revision, previous)
              /\ Abort(r, "validation")

\* Panes apply the operation as the client sent it to the current contents; when
\* there are concurrent revisions it was not authored for them and may not apply.
ApplyToContents(r) ==
    /\ IsPane(r)
    /\ pc[r] = "validated"
    /\ \/ Pass(r, "ready")
       \/ /\ draft[OpOf(r)].revision # LastRevision(LogOf(r)) + 1
          /\ Abort(r, "other")

\* Mutant: the flag "inclusive" of getRevisionsAfterRevision is lost.
RebaseAfter(r) ==
    /\ pc[r] = "ready"
    /\ Goto(r, "rebased")
    /\ over' = [over EXCEPT ![r] =
                  {n \in RevisionsOf(LogOf(r)) : n > draft[OpOf(r)].revision}]
    /\ UNCHANGED <<rows, archived, draft, last, err, made, rowHeld, reply,
                   emitted, jobs, mailed>>

\* getRevisionsAfterRevision(data.revision, true) and the transformation.
Rebase(r) ==
    /\ pc[r] = "ready"
    /\ Goto(r, "rebased")
    /\ over' = [over EXCEPT ![r] =
                  {n \in RevisionsOf(LogOf(r)) : n >= draft[OpOf(r)].revision}]
    /\ UNCHANGED <<rows, archived, draft, last, err, made, rowHeld, reply,
                   emitted, jobs, mailed>>

\* Mutants: no unique index; an insertion that waits for the transactions of its
\* user; and an operation announced with the insertion, ahead of the hooks.
InsertRevisionUnindexed(r) ==
    /\ pc[r] = "rebased"
    /\ Goto(r, IF IsPane(r) THEN "created" ELSE "inserted")
    /\ made' = IF IsPane(r) THEN made \cup {r} ELSE made
    /\ UNCHANGED <<rows, archived, draft, last, over, err, rowHeld, reply,
                   emitted, jobs, mailed>>

InsertRevisionPerUser(r) ==
    /\ \A q \in Request \ {r} :
          pc[q] \in LockedPhase /\ IsPane(q) = IsPane(r) => OpOf(q).user # OpOf(r).user
    /\ InsertRevisionUnindexed(r)

InsertRevisionAnnounced(r) ==
    /\ pc[r] = "rebased"
    /\ \A row \in rows : KeyOf(row.by) # KeyOf(r)
    /\ Goto(r, "inserted")
    /\ emitted' = [emitted EXCEPT ![LogOf(r)] =
                     Append(@, [by |-> r, revision |-> last[r] + 1])]
    /\ UNCHANGED <<rows, archived, draft, last, over, err, made, rowHeld, reply,
                   jobs, mailed>>

\* The addSnapshot hook: every so many revisions.
SnapshotDue(r) == (last[r] + 1) % SnapshotCoefficient[LogOf(r)] = 0

\* The INSERT waits for another transaction that has inserted the same key, and
\* fails if that key is committed.  The addSnapshot hook runs right after it.
\* A pane has no other hook, so its $create resolves here.
InsertRevision(r) ==
    /\ pc[r] = "rebased"
    /\ \A q \in Request \ {r} : pc[q] \in InsertedPhase => KeyOf(q) # KeyOf(r)
    /\ \/ /\ \A row \in rows : KeyOf(row.by) # KeyOf(r)
          /\ Goto(r, IF IsPane(r) THEN "created" ELSE "inserted")
          /\ made' = IF IsPane(r) THEN made \cup {r} ELSE made
          /\ jobs' = IF SnapshotDue(r) THEN jobs \cup {<<"snapshot", LogOf(r)>>} ELSE jobs
          /\ UNCHANGED <<rows, archived, draft, last, over, err, rowHeld, reply,
                         emitted, mailed>>
       \/ /\ \E row \in rows : KeyOf(row.by) = KeyOf(r)
          /\ Abort(r, "unique")

-----------------------------------------------------------------------------
(***************************************************************************)
(* The remaining AfterCreate hooks of DocumentRevision.  Each one reads    *)
(* the document again through the association, hence under the scope       *)
(* isArchived = false, and dereferences the result.                        *)
(***************************************************************************)
RowFree(r) == \A q \in rowHeld \ {r} : DocumentOf(q) # DocumentOf(r)

\* save() writes (and locks) the row only if the title changed; the rename event
\* goes out whenever the first line differs from the stored title, which an empty
\* first line of an 'Untitled' document always does.
UpdateTitle(r) ==
    /\ pc[r] = "inserted"
    /\ \/ /\ DocumentOf(r) \in archived
          /\ Abort(r, "other")
       \/ /\ DocumentOf(r) \notin archived
          /\ Goto(r, "titled")
          /\ \/ UNCHANGED <<jobs, rowHeld>>
             \/ /\ jobs' = jobs \cup {<<"documentRenamed", LogOf(r)>>}
                /\ \/ UNCHANGED rowHeld
                   \/ RowFree(r) /\ rowHeld' = rowHeld \cup {r}
          /\ UNCHANGED <<rows, archived, draft, last, over, err, made, reply,
                         emitted, mailed>>

ReadForTimestamp(r) ==
    /\ pc[r] = "titled"
    /\ \/ /\ DocumentOf(r) \notin archived
          /\ Pass(r, "stamping")
       \/ /\ DocumentOf(r) \in archived
          /\ Abort(r, "other")

\* This UPDATE is always executed: from here on the row is locked.
UpdateDocumentTimestamp(r) ==
    /\ pc[r] = "stamping"
    /\ RowFree(r)
    /\ Goto(r, "stamped")
    /\ rowHeld' = rowHeld \cup {r}
    /\ UNCHANGED <<rows, archived, draft, last, over, err, made, reply, emitted,
                   jobs, mailed>>

\* Mutant: the last hook does not look at the document again.
EmitDocumentUpdatedUnchecked(r) ==
    /\ pc[r] = "stamped"
    /\ Goto(r, "created")
    /\ made' = made \cup {r}
    /\ UNCHANGED <<rows, archived, draft, last, over, err, rowHeld, reply,
                   emitted, jobs, mailed>>

EmitDocumentUpdated(r) ==
    /\ pc[r] = "stamped"
    /\ \/ /\ DocumentOf(r) \notin archived
          /\ Goto(r, "created")
          /\ made' = made \cup {r}
          /\ jobs' = jobs \cup {<<"documentUpdated", LogOf(r)>>}
          /\ UNCHANGED <<rows, archived, draft, last, over, err, rowHeld, reply,
                         emitted, mailed>>
       \/ /\ DocumentOf(r) \in archived
          /\ Abort(r, "other")

-----------------------------------------------------------------------------
(***************************************************************************)
(* SubmitOperation, after Make...Revision: the sockets and the client are  *)
(* told before the transaction commits.                                    *)
(***************************************************************************)
\* Mutant: the operation goes out under the number its client gave it.
BroadcastAsSent(r) ==
    /\ pc[r] = "created"
    /\ Goto(r, "committing")
    /\ emitted' = [emitted EXCEPT ![LogOf(r)] =
                     Append(@, [by |-> r, revision |-> draft[OpOf(r)].revision])]
    /\ Reply(r, "operation")
    /\ UNCHANGED <<rows, archived, draft, last, over, err, made, rowHeld, jobs,
                   mailed>>

Broadcast(r) ==
    /\ pc[r] = "created"
    /\ Goto(r, "committing")
    /\ emitted' = [emitted EXCEPT ![LogOf(r)] =
                     Append(@, [by |-> r, revision |-> last[r] + 1])]
    /\ Reply(r, "operation")
    /\ UNCHANGED <<rows, archived, draft, last, over, err, made, rowHeld, jobs,
                   mailed>>

Commit(r) ==
    /\ pc[r] = "committing"
    /\ Goto(r, "committed")
    /\ rows' = rows \cup {RowOf(r)}
    /\ rowHeld' = rowHeld \ {r}
    /\ UNCHANGED <<archived, draft, last, over, err, made, reply, emitted, jobs,
                   mailed>>

\* Mutant: the hooks run for every request.
RunHooksAlways(r) == mailed' = mailed \cup {r}

\* finally: the hooks run whenever the local variable "revision" is assigned.
RunHooks(r) == mailed' = IF r \in made THEN mailed \cup {r} ELSE mailed

Finish(r) ==
    /\ pc[r] = "committed"
    /\ Goto(r, "done")
    /\ RunHooks(r)
    /\ UNCHANGED <<rows, archived, draft, last, over, err, made, rowHeld, reply,
                   emitted, jobs>>

\* Mutant: a rejected operation is answered like one that is stored.
ErrorAnswerLenient(r) ==
    IF err[r] \in {"unique", "validation", "permissions"} THEN {"empty"} ELSE {"error"}

\* _handleOperationError, then HandleErrors for what it throws on; a response
\* that was already sent stays.
ErrorAnswer(r) ==
    CASE err[r] = "unique" -> {"empty"}
      [] err[r] = "archive" -> {"notFound"}
      [] err[r] \in {"validation", "permissions", "database"} ->
            {IF Submitted(r) THEN "error" ELSE "rollback"}
              \cup (IF Fault \cap {"database", "connection"} # {} THEN {"error"} ELSE {})
      [] OTHER -> {"error"}

\* Mutant: an error always gives the answer, after an earlier one too.
HandleOperationErrorAnew(r) ==
    /\ pc[r] = "handling"
    /\ Goto(r, "done")
    /\ \E answer \in ErrorAnswer(r) : Reply(r, answer)
    /\ RunHooks(r)
    /\ UNCHANGED <<rows, archived, draft, last, over, err, made, rowHeld,
                   emitted, jobs>>

HandleOperationError(r) ==
    /\ pc[r] = "handling"
    /\ Goto(r, "done")
    /\ \/ reply[r] # "none" /\ UNCHANGED reply
       \/ reply[r] = "none" /\ \E answer \in ErrorAnswer(r) : Reply(r, answer)
    /\ RunHooks(r)
    /\ UNCHANGED <<rows, archived, draft, last, over, err, made, rowHeld,
                   emitted, jobs>>

-----------------------------------------------------------------------------
(***************************************************************************)
(* The environment: archival, and the failures named by Fault.             *)
(***************************************************************************)
\* document.save() outside any transaction: it waits for the row lock.
ArchiveDocument(d) ==
    /\ d \notin archived
    /\ \A q \in rowHeld : DocumentOf(q) # d
    /\ archived' = archived \cup {d}
    /\ UNCHANGED <<rows, pc, draft, last, over, err, made, rowHeld, reply,
                   emitted, jobs, mailed>>

UnarchiveDocument(d) ==
    /\ d \in archived
    /\ \A q \in rowHeld : DocumentOf(q) # d
    /\ archived' = archived \ {d}
    /\ UNCHANGED <<rows, pc, draft, last, over, err, made, rowHeld, reply,
                   emitted, jobs, mailed>>

\* The awaits at which a query is under way.  Broadcast makes one for a pane.
Querying(r) ==
    \/ pc[r] \in {"arrived", "locking"}
    \/ pc[r] \in LockedPhase \ {"created", "committing"}
    \/ pc[r] = "created" /\ IsPane(r)

\* A statement runs into statement_timeout (DatabaseError), or no connection
\* can be had or kept.
QueryFails(r) ==
    /\ Querying(r)
    /\ \E error \in Fault \cap {"database", "connection"} : Abort(r, error)

\* COMMIT is reported as failed; the database may have executed it.
CommitFails(r) ==
    /\ "commit" \in Fault
    /\ pc[r] = "committing"
    /\ Goto(r, "handling")
    /\ err' = [err EXCEPT ![r] = "connection"]
    /\ \/ UNCHANGED rows
       \/ rows' = rows \cup {RowOf(r)}
    /\ rowHeld' = rowHeld \ {r}
    /\ UNCHANGED <<archived, draft, last, over, made, reply, emitted, jobs,
                   mailed>>

\* A server process dies; the database rolls its transactions back.
Crash(s) ==
    /\ "crash" \in Fault
    /\ \E r \in Request : ServerOf[r] = s /\ pc[r] \in Running
    /\ LET hit == {r \in Request : ServerOf[r] = s /\ pc[r] \in Running}
       IN  /\ pc' = [r \in Request |-> IF r \in hit THEN "crashed" ELSE pc[r]]
           /\ rowHeld' = rowHeld \ hit
    /\ UNCHANGED <<rows, archived, draft, last, over, err, made, reply, emitted,
                   jobs, mailed>>

-----------------------------------------------------------------------------
Init ==
    /\ rows = {}
    /\ archived = {}
    /\ pc = [r \in Request |-> "unsent"]
    /\ draft = [o \in Operation |-> [revision |-> 0, seen |-> << >>]]
    /\ last = [r \in Request |-> 0]
    /\ over = [r \in Request |-> {}]
    /\ err = [r \in Request |-> "none"]
    /\ made = {}
    /\ rowHeld = {}
    /\ reply = [r \in Request |-> "none"]
    /\ emitted = [l \in Log |-> << >>]
    /\ jobs = {}
    /\ mailed = {}

\* The steps of the process that handles r.
Handle(r) ==
    \/ FindDocument(r) \/ AcquireLock(r) \/ CheckForSubmitted(r)
    \/ GetDocumentForRevisions(r) \/ CheckPermission(r) \/ GetPane(r)
    \/ ReadLastRevision(r) \/ ApplyToContents(r) \/ Rebase(r)
    \/ InsertRevision(r) \/ UpdateTitle(r) \/ ReadForTimestamp(r)
    \/ UpdateDocumentTimestamp(r) \/ EmitDocumentUpdated(r)
    \/ Broadcast(r) \/ Commit(r) \/ Finish(r) \/ HandleOperationError(r)

Next ==
    \/ \E r \in Request : Send(r) \/ Handle(r) \/ QueryFails(r) \/ CommitFails(r)
    \/ \E d \in Document : ArchiveDocument(d) \/ UnarchiveDocument(d)
    \/ \E s \in Server : Crash(s)

Spec == Init /\ [][Next]_vars

-----------------------------------------------------------------------------
(***************************************************************************)
(* Properties.                                                             *)
(***************************************************************************)
Row == [by : Request, revision : Nat \ {0}, over : SUBSET Nat]

TypeOK ==
    /\ rows \subseteq Row
    /\ archived \subseteq Document
    /\ pc \in [Request -> Phase]
    /\ draft \in [Operation -> [revision : Nat, seen : Seq(Operation)]]
    /\ last \in [Request -> Nat]
    /\ over \in [Request -> SUBSET Nat]
    /\ err \in [Request -> ErrorKind]
    /\ made \subseteq Request
    /\ rowHeld \subseteq Request
    /\ reply \in [Request -> Answer]
    /\ emitted \in [Log -> Seq([by : Request, revision : Nat \ {0}])]
    /\ jobs \subseteq JobKind \X Log
    /\ mailed \subseteq Request

\* The revisions of a log are numbered 1, 2, 3, ... without a gap and without a
\* number used twice, although no database constraint says so and several
\* processes number them from what they read.
RevisionsContiguous ==
    \A l \in Log :
        /\ LastRevision(l) \in Nat
        /\ RevisionsOf(l) = 0 .. LastRevision(l)
        /\ \A x, y \in RowsOf(l) : x.revision = y.revision => x = y

\* However often a submission is sent, and wherever, it is stored once.
SubmittedOnce == \A x, y \in rows : KeyOf(x.by) = KeyOf(y.by) => x = y

\* A stored operation was rebased over all the revisions from the one it was
\* authored for up to its immediate predecessor, so it applies to that one.
RebasedOnPredecessors ==
    \A row \in rows :
        row.over = draft[OpOf(row.by)].revision .. (row.revision - 1)

\* Except for the first revision of a log, the number a client sends is at most
\* the number its operation is stored under.
NeverFromTheFuture ==
    \A row \in rows : row.revision > 1 => draft[OpOf(row.by)].revision <= row.revision

\* The comment of isValidOperation: the incoming revision is never further ahead
\* of the previous revision than by exactly 1.
IncomingAtMostOneAhead ==
    \A row \in rows : draft[OpOf(row.by)].revision <= row.revision

\* No revision of a document becomes visible while the document is archived.
NoRevisionOnArchived ==
    [][\A row \in rows' \ rows : LogOf(row.by) \in Document => LogOf(row.by) \notin archived]_vars

\* The last operation announced under the number of a committed revision is that
\* revision: a client that keeps the latest one per number has the stored log.
LatestBroadcastIsStored ==
    \A row \in rows :
        LET l == LogOf(row.by)
            same == {i \in DOMAIN emitted[l] : emitted[l][i].revision = row.revision}
        IN  same # {} /\ emitted[l][Max(same)].by = row.by

\* An empty 200 (nothing to do) is sent only for a submission that is stored.
EmptyMeansStored ==
    \A r \in Request : reply[r] = "empty" => \E row \in rows : KeyOf(row.by) = KeyOf(r)

\* A request answered 428, 404 or 500 has stored nothing.
RefusedStoresNothing ==
    \A r \in Request :
        reply[r] \in {"rollback", "error", "notFound"} => \A row \in rows : row.by # r

\* Without failures: an operation reaches the log on top of exactly the revisions
\* its author had seen, although authors see broadcasts that are not committed.
AuthoredOnLog ==
    \A row \in rows :
        LET o == OpOf(row.by)
            seen == draft[o].seen
        IN  "stray" \notin o.traits =>
              \A n \in DOMAIN seen :
                  \E x \in RowsOf(o.log) : x.revision = n /\ OpOf(x.by) = seen[n]

\* Without failures: who was answered with the operation, or announced to the
\* mail and thumbnail queues, is stored or about to be.
AcknowledgedIsStored ==
    \A r \in Request :
        reply[r] = "operation" \/ r \in mailed =>
            pc[r] = "committing" \/ \E row \in rows : row.by = r

\* Every request is answered unless its server process dies.
EveryRequestAnswered ==
    \A r \in Request : pc[r] = "arrived" ~> (reply[r] # "none" \/ pc[r] = "crashed")

\* Nobody else has what r waits for: the advisory lock of its key, the key it
\* inserts, or the row of its document.
NotWaiting(r) ==
    /\ pc[r] = "locking" =>
          \A q \in Request \ {r} :
              pc[q] \in LockedPhase => LockKey[LogOf(q)] # LockKey[LogOf(r)]
    /\ pc[r] = "rebased" =>
          \A q \in Request \ {r} : pc[q] \in InsertedPhase => KeyOf(q) # KeyOf(r)
    /\ pc[r] \in {"inserted", "stamping"} => RowFree(r)

\* Requests wait for advisory locks, for inserted keys, also of other documents,
\* and for rows; but they never all wait for one another.
NoStandstill ==
    (\E r \in Request : pc[r] \in Running) => \E r \in Request : ENABLED Handle(r)

-----------------------------------------------------------------------------
(***************************************************************************)
(* Why the properties hold: what is true of the requests under way.        *)
(***************************************************************************)
AfterRead == {"validated", "ready", "rebased"} \cup InsertedPhase
AfterRebase == {"rebased"} \cup InsertedPhase

\* At most one transaction holds the advisory lock of a key.
LockExclusive ==
    \A q, r \in Request :
        /\ pc[q] \in LockedPhase
        /\ pc[r] \in LockedPhase
        /\ LockKey[LogOf(q)] = LockKey[LogOf(r)]
        => q = r

\* What a request read under the lock is still so when it uses it.
ReadsAreCurrent ==
    \A r \in Request :
        /\ pc[r] \in AfterRead =>
              /\ last[r] = LastRevision(LogOf(r))
              /\ IsValidOperation(draft[OpOf(r)].revision, last[r])
        /\ pc[r] \in AfterRebase => over[r] = draft[OpOf(r)].revision .. last[r]

\* An inserted key is neither committed nor inserted a second time.
KeysClaimed ==
    \A r \in Request :
        pc[r] \in InsertedPhase =>
            /\ \A row \in rows : KeyOf(row.by) # KeyOf(r)
            /\ \A q \in Request \ {r} : pc[q] \in InsertedPhase => KeyOf(q) # KeyOf(r)

\* The operations of rows and of requests under way have their revision number.
RowsAreSent == \A row \in rows : pc[row.by] # "unsent"

LogInv ==
    /\ LockExclusive
    /\ ReadsAreCurrent
    /\ KeysClaimed
    /\ RowsAreSent
    /\ RevisionsContiguous
    /\ SubmittedOnce
    /\ RebasedOnPredecessors
    /\ NeverFromTheFuture

\* Once the timestamp hook holds the row of the document, the document stays as
\* the last hook finds it.
RowLockInv ==
    \A r \in Request :
        LogOf(r) \in Document =>
            /\ pc[r] \in {"stamped", "created", "committing"} => r \in rowHeld
            /\ pc[r] \in {"created", "committing"} => DocumentOf(r) \notin archived

-----------------------------------------------------------------------------
(***************************************************************************)
(* The committed rows, read in the order of their numbers, are a log.      *)
(***************************************************************************)
LogView ==
    [l \in Log |->
        [n \in 1 .. LastRevision(l) |->
            LET row == CHOOSE x \in RowsOf(l) : x.revision = n
            IN  [submission |-> KeyOf(row.by), over |-> row.over]]]

Abstract == INSTANCE RevisionLog
                WITH log <- LogView, Submission <- BOOLEAN \X Submission

ImplementsRevisionLog == Abstract!Spec
=============================================================================
