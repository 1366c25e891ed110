----------------------- MODULE SubmitOperationProofs -----------------------
(***************************************************************************)
(* Theorems about SubmitOperation, for every set of documents, panes,      *)
(* operations, requests and servers, every assignment of lock keys and     *)
(* every choice of failures.                                               *)
(***************************************************************************)
EXTENDS ConnectionPool, SequenceTheorems, FiniteSetTheorems, TLAPS

\* Every request carries an operation of the declared shape.
LEMMA OperationFacts ==
    ASSUME NEW r \in Request
    PROVE  /\ OpOf(r) \in Operation
           /\ LogOf(r) \in Log
           /\ DocumentOf(r) \in Document
           /\ KeyOf(r) \in BOOLEAN \X Submission
           /\ LogOf(r) \in Document => DocumentOf(r) = LogOf(r)
           /\ LogOf(r) \in Document <=> ~ IsPane(r)
<1>1. /\ OpOf(r) \in Operation
      /\ OpOf(r) \in OperationRecord
  BY RequestAssumption, OperationAssumption DEF OpOf
<1>2. /\ OpOf(r).log \in Log
      /\ OpOf(r).document \in Document
      /\ OpOf(r).submission \in Submission
  BY <1>1 DEF OperationRecord
<1>3. OpOf(r).log \in Document => OpOf(r).document = OpOf(r).log
  BY <1>1, OperationAssumption
<1>4. LogOf(r) \in Document <=> LogOf(r) \notin Pane
  BY <1>2, LogAssumption DEF LogOf, Log
<1>5. LogOf(r) \in Log /\ DocumentOf(r) \in Document
  BY <1>2 DEF LogOf, DocumentOf
<1>6. LogOf(r) \in Document => DocumentOf(r) = LogOf(r)
  BY <1>3 DEF LogOf, DocumentOf
<1>7. IsPane(r) \in BOOLEAN
  BY SMT DEF IsPane
<1>8. KeyOf(r) \in BOOLEAN \X Submission
  BY <1>2, <1>7 DEF KeyOf
<1>9. LogOf(r) \in Document <=> ~ IsPane(r)
  BY <1>4, Zenon DEF IsPane
<1> QED
  BY <1>1, <1>5, <1>6, <1>8, <1>9

\* An entry of a sequence over S is in S.
LEMMA EntryType ==
    ASSUME NEW S, NEW s \in Seq(S), NEW i \in DOMAIN s
    PROVE  s[i] \in S
OBVIOUS

\* A function on 1 .. n is a sequence.
LEMMA SeqOfFunction ==
    ASSUME NEW S, NEW n \in Nat, NEW f \in [1 .. n -> S]
    PROVE  f \in Seq(S)
OBVIOUS

-----------------------------------------------------------------------------
(***************************************************************************)
(* Type correctness.                                                       *)
(***************************************************************************)
\* What a client can author is a well-formed draft.
LEMMA DraftsType ==
    ASSUME TypeOK, NEW o \in Operation, NEW d \in Drafts(o), o.log \in Log
    PROVE  d \in [revision : Nat, seen : Seq(Operation)]
<1>1. CASE "stray" \in o.traits
  <2>1. PICK n \in StrayRevision : d = [revision |-> n, seen |-> << >>]
    BY <1>1, Zenon DEF Drafts
  <2>2. n \in Nat
    BY RequestAssumption
  <2> QED BY <2>1, <2>2
<1>2. CASE "stray" \notin o.traits
  <2> DEFINE numbers == RevisionsOf(o.log)
                \cup {emitted[o.log][i].revision : i \in DOMAIN emitted[o.log]}
  <2>1. PICK k \in numbers :
           d \in {[revision |-> k + 1, seen |-> s] :
                       s \in {f \in [1 .. k -> Operation] :
                                \A n \in 1 .. k : f[n] \in Known(o.log, n)}}
    BY <1>2, Zenon DEF Drafts
  <2>2. k \in Nat
    <3>1. RevisionsOf(o.log) \subseteq Nat
      BY DEF TypeOK, Row, RevisionsOf, RowsOf
    <3>2. emitted[o.log] \in Seq([by : Request, revision : Nat \ {0}])
      BY DEF TypeOK
    <3>3. \A i \in DOMAIN emitted[o.log] :
             emitted[o.log][i] \in [by : Request, revision : Nat \ {0}]
      BY <3>2, EntryType
    <3> QED BY <3>1, <3>3
  <2>3. PICK s \in [1 .. k -> Operation] : d = [revision |-> k + 1, seen |-> s]
    BY <2>1
  <2>4. s \in Seq(Operation)
    BY <2>2, <2>3
  <2> QED BY <2>2, <2>3, <2>4
<1> QED BY <1>1, <1>2

\* ORDER BY revision DESC LIMIT 1, when the numbers are contiguous.
LEMMA MaxOfRange ==
    ASSUME NEW n \in Nat
    PROVE  Max(0 .. n) = n
<1>1. n \in 0 .. n /\ \A x \in 0 .. n : n >= x
  OBVIOUS
<1>2. \A m \in 0 .. n : (\A x \in 0 .. n : m >= x) => m = n
  OBVIOUS
<1> QED BY <1>1, <1>2 DEF Max

LEMMA PassType ==
    ASSUME TypeOK, NEW r \in Request, NEW phase \in Phase, Pass(r, phase)
    PROVE  TypeOK'
BY DEF TypeOK, Pass, Goto

LEMMA AbortType ==
    ASSUME TypeOK, NEW r \in Request, NEW error \in ErrorKind, Abort(r, error)
    PROVE  TypeOK'
BY DEF TypeOK, Abort, Goto, Phase, LockedPhase, InsertedPhase

\* The first steps, which store nothing but the answer.
LEMMA TypeBeforeMake ==
    ASSUME TypeOK, NEW r \in Request,
           FindDocument(r) \/ AcquireLock(r) \/ CheckForSubmitted(r)
    PROVE  TypeOK'
<1> USE DEF Phase, LockedPhase, InsertedPhase
<1>1. CASE FindDocument(r)
  <2>1. CASE Pass(r, "locking")
    BY <2>1, PassType
  <2>2. CASE ~ Pass(r, "locking")
    BY <1>1, <2>2 DEF FindDocument, TypeOK, Goto, Reply, Answer
  <2> QED BY <2>1, <2>2
<1>2. CASE AcquireLock(r)
  BY <1>2, PassType DEF AcquireLock
<1>3. CASE CheckForSubmitted(r)
  <2>1. CASE Pass(r, "checked")
    BY <2>1, PassType
  <2>2. CASE ~ Pass(r, "checked")
    BY <1>3, <2>2 DEF CheckForSubmitted, TypeOK, Goto, Reply, Answer
  <2> QED BY <2>1, <2>2
<1> QED BY <1>1, <1>2, <1>3

\* The steps of Make...Revision up to the insertion.
LEMMA TypeMake ==
    ASSUME TypeOK, RevisionsContiguous, NEW r \in Request,
           \/ GetDocumentForRevisions(r) \/ CheckPermission(r) \/ GetPane(r)
           \/ ReadLastRevision(r) \/ ApplyToContents(r) \/ Rebase(r)
           \/ InsertRevision(r)
    PROVE  TypeOK'
<1> USE DEF Phase, LockedPhase, InsertedPhase, ErrorKind
<1>1. CASE GetDocumentForRevisions(r)
  BY <1>1, PassType, AbortType DEF GetDocumentForRevisions
<1>2. CASE CheckPermission(r)
  BY <1>2, PassType, AbortType DEF CheckPermission
<1>3. CASE GetPane(r)
  BY <1>3, PassType, AbortType DEF GetPane
<1>4. CASE ReadLastRevision(r)
  <2>1. LastRevision(LogOf(r)) \in Nat
    BY OperationFacts DEF RevisionsContiguous
  <2>2. CASE Abort(r, "validation")
    BY <2>2, AbortType
  <2>3. CASE ~ Abort(r, "validation")
    BY ZenonT(30), <1>4, <2>1, <2>3 DEF ReadLastRevision, TypeOK, Goto
  <2> QED BY <2>2, <2>3
<1>5. CASE ApplyToContents(r)
  BY <1>5, PassType, AbortType DEF ApplyToContents
<1>6. CASE Rebase(r)
  <2>1. RevisionsOf(LogOf(r)) \subseteq Nat
    BY DEF TypeOK, Row, RevisionsOf, RowsOf
  <2>2. {n \in RevisionsOf(LogOf(r)) : n >= draft[OpOf(r)].revision} \in SUBSET Nat
    BY <2>1
  <2> QED BY <1>6, <2>2 DEF Rebase, TypeOK, Goto
<1>7. CASE InsertRevision(r)
  <2>1. CASE Abort(r, "unique")
    BY <2>1, AbortType
  <2>2. CASE ~ Abort(r, "unique")
    <3>1. <<"snapshot", LogOf(r)>> \in JobKind \X Log
      BY OperationFacts DEF JobKind
    <3> QED BY <1>7, <2>2, <3>1 DEF InsertRevision, TypeOK, Goto
  <2> QED BY <2>1, <2>2
<1> QED BY <1>1, <1>2, <1>3, <1>4, <1>5, <1>6, <1>7

\* The hooks, and what follows them up to the answer.
LEMMA TypeAfterInsert ==
    ASSUME TypeOK, NEW r \in Request,
           \/ UpdateTitle(r) \/ ReadForTimestamp(r) \/ UpdateDocumentTimestamp(r)
           \/ EmitDocumentUpdated(r) \/ Broadcast(r)
    PROVE  TypeOK'
<1> USE DEF Phase, LockedPhase, InsertedPhase, ErrorKind
<1>1. \A kind \in JobKind : <<kind, LogOf(r)>> \in JobKind \X Log
  BY OperationFacts
<1>2. CASE UpdateTitle(r)
  <2>1. CASE Abort(r, "other")
    BY <2>1, AbortType
  <2>2. CASE ~ Abort(r, "other")
    BY <1>1, <1>2, <2>2 DEF UpdateTitle, TypeOK, Goto, JobKind
  <2> QED BY <2>1, <2>2
<1>3. CASE ReadForTimestamp(r)
  BY <1>3, PassType, AbortType DEF ReadForTimestamp
<1>4. CASE UpdateDocumentTimestamp(r)
  BY <1>4 DEF UpdateDocumentTimestamp, TypeOK, Goto
<1>5. CASE EmitDocumentUpdated(r)
  <2>1. CASE Abort(r, "other")
    BY <2>1, AbortType
  <2>2. CASE ~ Abort(r, "other")
    BY <1>1, <1>5, <2>2 DEF EmitDocumentUpdated, TypeOK, Goto, JobKind
  <2> QED BY <2>1, <2>2
<1>6. CASE Broadcast(r)
  <2>1. LogOf(r) \in Log
    BY OperationFacts
  <2>2. [by |-> r, revision |-> last[r] + 1] \in [by : Request, revision : Nat \ {0}]
    BY DEF TypeOK
  <2>3. emitted' \in [Log -> Seq([by : Request, revision : Nat \ {0}])]
    <3>1. emitted[LogOf(r)] \in Seq([by : Request, revision : Nat \ {0}])
      BY <2>1 DEF TypeOK
    <3>2. Append(emitted[LogOf(r)], [by |-> r, revision |-> last[r] + 1])
            \in Seq([by : Request, revision : Nat \ {0}])
      BY <2>2, <3>1, AppendProperties
    <3> QED BY <1>6, <2>1, <3>2 DEF Broadcast, TypeOK
  <2> QED BY <1>6, <2>3 DEF Broadcast, TypeOK, Goto, Reply, Answer
<1> QED BY <1>2, <1>3, <1>4, <1>5, <1>6

\* The row of a request whose reads are typed is a row.
LEMMA RowType ==
    ASSUME TypeOK, NEW r \in Request
    PROVE  RowOf(r) \in Row
BY DEF TypeOK, RowOf, Row

LEMMA TypeEnd ==
    ASSUME TypeOK, NEW r \in Request,
           Commit(r) \/ Finish(r) \/ HandleOperationError(r) \/ CommitFails(r)
    PROVE  TypeOK'
<1> USE RowType DEF Phase, ErrorKind
<1>1. CASE Commit(r)
  BY <1>1 DEF Commit, TypeOK, Goto
<1>2. CASE Finish(r)
  BY <1>2 DEF Finish, RunHooks, TypeOK, Goto
<1>3. CASE HandleOperationError(r)
  <2>1. ErrorAnswer(r) \subseteq Answer
    BY DEF ErrorAnswer, Answer
  <2>2. reply' \in [Request -> Answer]
    BY <1>3, <2>1 DEF HandleOperationError, Reply, TypeOK
  <2> QED BY <1>3, <2>2 DEF HandleOperationError, RunHooks, TypeOK, Goto
<1>4. CASE CommitFails(r)
  BY <1>4 DEF CommitFails, TypeOK, Goto
<1> QED BY <1>1, <1>2, <1>3, <1>4

LEMMA TypeStep ==
    ASSUME TypeOK, RevisionsContiguous, [Next]_vars
    PROVE  TypeOK'
<1>1. ASSUME NEW r \in Request, Handle(r)
      PROVE  TypeOK'
  BY <1>1, TypeBeforeMake, TypeMake, TypeAfterInsert, TypeEnd DEF Handle
<1>2. ASSUME NEW r \in Request, Send(r)
      PROVE  TypeOK'
  <2>1. ASSUME NEW d \in Drafts(OpOf(r))
        PROVE  d \in [revision : Nat, seen : Seq(Operation)]
    BY DraftsType, OperationFacts DEF LogOf
  <2>2. draft' \in [Operation -> [revision : Nat, seen : Seq(Operation)]]
    BY <1>2, <2>1, OperationFacts DEF Send, TypeOK
  <2> QED BY <1>2, <2>2 DEF Send, TypeOK, Goto, Phase
<1>3. ASSUME NEW r \in Request, QueryFails(r)
      PROVE  TypeOK'
  BY <1>3, AbortType DEF QueryFails, ErrorKind
<1>4. ASSUME NEW r \in Request, CommitFails(r)
      PROVE  TypeOK'
  BY <1>4, TypeEnd
<1>5. ASSUME NEW d \in Document, ArchiveDocument(d) \/ UnarchiveDocument(d)
      PROVE  TypeOK'
  BY <1>5 DEF ArchiveDocument, UnarchiveDocument, TypeOK
<1>6. ASSUME NEW s \in Server, Crash(s)
      PROVE  TypeOK'
  BY <1>6 DEF Crash, TypeOK, Phase
<1>7. CASE UNCHANGED vars
  BY <1>7 DEF vars, TypeOK
<1> QED BY <1>1, <1>2, <1>3, <1>4, <1>5, <1>6, <1>7 DEF Next

-----------------------------------------------------------------------------
(***************************************************************************)
(* The log.  Only a few kinds of step matter to LogInv: acquiring the      *)
(* lock, the two reads under it, the insertion, and the two ways to        *)
(* commit.  All others are quiet: they leave the committed rows alone and  *)
(* bring no request further than LogInv can see.  The four parts are kept  *)
(* apart because each of the steps that matter breaks only one of them.    *)
(***************************************************************************)
QuietRows ==
    /\ rows' = rows
    /\ \A o \in Operation : Sent(o) => draft'[o] = draft[o]
    /\ \A q \in Request : pc[q] # "unsent" => pc'[q] # "unsent"

QuietLock ==
    \A q \in Request : pc'[q] \in LockedPhase => pc[q] \in LockedPhase

QuietReads ==
    \A q \in Request :
        /\ pc'[q] \in AfterRead => pc[q] \in AfterRead /\ last'[q] = last[q]
        /\ pc'[q] \in AfterRebase => pc[q] \in AfterRebase /\ over'[q] = over[q]

QuietKeys ==
    \A q \in Request : pc'[q] \in InsertedPhase => pc[q] \in InsertedPhase

\* The log is a function of the committed rows.
LEMMA SameRows ==
    ASSUME rows' = rows, NEW l
    PROVE  /\ RowsOf(l)' = RowsOf(l)
           /\ RevisionsOf(l)' = RevisionsOf(l)
           /\ LastRevision(l)' = LastRevision(l)
BY DEF RowsOf, RevisionsOf, LastRevision

\* The revision number of an operation stays once it has been sent.
LEMMA SentDraft ==
    ASSUME NEW r \in Request, pc[r] # "unsent",
           \A o \in Operation : Sent(o) => draft'[o] = draft[o]
    PROVE  draft'[OpOf(r)] = draft[OpOf(r)]
<1>1. Sent(OpOf(r))
  BY DEF Sent, OpOf
<1> QED BY <1>1, OperationFacts

LEMMA RowsStep ==
    ASSUME TypeOK, LogInv, QuietRows
    PROVE  /\ RowsAreSent'
           /\ RevisionsContiguous'
           /\ SubmittedOnce'
           /\ RebasedOnPredecessors'
           /\ NeverFromTheFuture'
<1> USE DEF QuietRows
<1>1. \A row \in rows : row.by \in Request /\ pc[row.by] # "unsent"
  BY DEF LogInv, RowsAreSent, TypeOK, Row
<1>2. \A row \in rows : draft'[OpOf(row.by)] = draft[OpOf(row.by)]
  BY <1>1, SentDraft
<1>3. RowsAreSent'
  BY <1>1 DEF RowsAreSent
<1>4. RevisionsContiguous'
  BY SameRows DEF LogInv, RevisionsContiguous
<1>5. SubmittedOnce'
  BY DEF LogInv, SubmittedOnce
<1>6. RebasedOnPredecessors' /\ NeverFromTheFuture'
  BY <1>2 DEF LogInv, RebasedOnPredecessors, NeverFromTheFuture
<1> QED
  BY <1>3, <1>4, <1>5, <1>6

LEMMA LockStep ==
    ASSUME LogInv, QuietLock
    PROVE  LockExclusive'
BY DEF LogInv, LockExclusive, QuietLock

\* The claim of ReadsAreCurrent about one request.
ReadIsCurrent(r) ==
    /\ pc[r] \in AfterRead =>
          /\ last[r] = LastRevision(LogOf(r))
          /\ IsValidOperation(draft[OpOf(r)].revision, last[r])
    /\ pc[r] \in AfterRebase => over[r] = draft[OpOf(r)].revision .. last[r]

LEMMA ReadStep ==
    ASSUME LogInv, QuietRows, NEW r \in Request,
           /\ pc'[r] \in AfterRead => pc[r] \in AfterRead /\ last'[r] = last[r]
           /\ pc'[r] \in AfterRebase => pc[r] \in AfterRebase /\ over'[r] = over[r]
    PROVE  ReadIsCurrent(r)'
<1>1. pc[r] \in AfterRead => draft'[OpOf(r)] = draft[OpOf(r)]
  BY SentDraft DEF AfterRead, InsertedPhase, QuietRows
<1>2. LastRevision(LogOf(r))' = LastRevision(LogOf(r))
  BY SameRows DEF QuietRows
<1>3. /\ pc[r] \in AfterRebase => pc[r] \in AfterRead
      /\ pc'[r] \in AfterRebase => pc'[r] \in AfterRead
  BY DEF AfterRead, AfterRebase
<1> QED BY <1>1, <1>2, <1>3 DEF LogInv, ReadsAreCurrent, ReadIsCurrent

LEMMA ReadsStep ==
    ASSUME LogInv, QuietRows, QuietReads
    PROVE  ReadsAreCurrent'
<1>1. \A r \in Request : ReadIsCurrent(r)'
  BY ReadStep DEF QuietReads
<1> QED BY <1>1 DEF ReadIsCurrent, ReadsAreCurrent

LEMMA KeysStep ==
    ASSUME LogInv, rows' = rows, QuietKeys
    PROVE  KeysClaimed'
BY DEF LogInv, KeysClaimed, QuietKeys

\* A step that moves one request and changes nothing LogInv speaks of is quiet.
LEMMA MoveIsQuiet ==
    ASSUME TypeOK, LogInv, NEW r \in Request, NEW phase \in Phase \ {"unsent"},
           pc' = [pc EXCEPT ![r] = phase],
           UNCHANGED <<rows, draft, last, over>>,
           phase \in LockedPhase => pc[r] \in LockedPhase,
           phase \in AfterRead => pc[r] \in AfterRead,
           phase \in AfterRebase => pc[r] \in AfterRebase,
           phase \in InsertedPhase => pc[r] \in InsertedPhase
    PROVE  LogInv'
<1>1. \A q \in Request : pc'[q] = IF q = r THEN phase ELSE pc[q]
  BY DEF TypeOK
<1>2. QuietRows
  BY <1>1 DEF QuietRows
<1>3. QuietLock
  BY <1>1 DEF QuietLock
<1>4. QuietReads
  BY <1>1 DEF QuietReads
<1>5. QuietKeys
  BY <1>1 DEF QuietKeys
<1> QED
  BY <1>2, <1>3, <1>4, <1>5, RowsStep, LockStep, ReadsStep, KeysStep DEF LogInv

\* The phases of which LogInv speaks, spelled out.
LEMMA PhaseFacts ==
    /\ "unsent" \notin LockedPhase
    /\ AfterRebase \subseteq AfterRead
    /\ AfterRead \subseteq LockedPhase
    /\ InsertedPhase \subseteq AfterRebase
    /\ LockedPhase \subseteq Phase
BY DEF AfterRead, AfterRebase, InsertedPhase, LockedPhase, Phase

LEMMA AbortInv ==
    ASSUME TypeOK, LogInv, NEW r \in Request, NEW error, Abort(r, error)
    PROVE  LogInv'
<1>1. /\ "handling" \in Phase \ {"unsent"}
      /\ "handling" \notin LockedPhase
  BY DEF Phase, LockedPhase, InsertedPhase
<1> QED BY <1>1, PhaseFacts, MoveIsQuiet DEF Abort, Goto

LEMMA PassInv ==
    ASSUME TypeOK, LogInv, NEW r \in Request, NEW phase \in Phase \ {"unsent"},
           Pass(r, phase),
           phase \in LockedPhase => pc[r] \in LockedPhase,
           phase \in AfterRead => pc[r] \in AfterRead,
           phase \in AfterRebase => pc[r] \in AfterRebase,
           phase \in InsertedPhase => pc[r] \in InsertedPhase
    PROVE  LogInv'
BY MoveIsQuiet DEF Pass, Goto

\* Steps before the revision number is read.
LEMMA InvBeforeRead ==
    ASSUME TypeOK, LogInv, NEW r \in Request,
           \/ FindDocument(r) \/ CheckForSubmitted(r) \/ GetDocumentForRevisions(r)
           \/ CheckPermission(r) \/ GetPane(r) \/ ApplyToContents(r)
    PROVE  LogInv'
<1> USE DEF Phase, LockedPhase, InsertedPhase, AfterRead, AfterRebase
<1>1. CASE FindDocument(r)
  BY <1>1, MoveIsQuiet DEF FindDocument, Pass, Goto
<1>2. CASE CheckForSubmitted(r)
  BY <1>2, MoveIsQuiet DEF CheckForSubmitted, Pass, Goto
<1>3. CASE GetDocumentForRevisions(r)
  BY <1>3, PassInv, AbortInv DEF GetDocumentForRevisions
<1>4. CASE CheckPermission(r)
  BY <1>4, PassInv, AbortInv DEF CheckPermission
<1>5. CASE GetPane(r)
  BY <1>5, PassInv, AbortInv DEF GetPane
<1>6. CASE ApplyToContents(r)
  BY <1>6, PassInv, AbortInv DEF ApplyToContents
<1> QED BY <1>1, <1>2, <1>3, <1>4, <1>5, <1>6

\* Steps after the insertion, but for the commit.
LEMMA InvAfterInsert ==
    ASSUME TypeOK, LogInv, NEW r \in Request,
           \/ UpdateTitle(r) \/ ReadForTimestamp(r) \/ UpdateDocumentTimestamp(r)
           \/ EmitDocumentUpdated(r) \/ Broadcast(r) \/ Finish(r)
           \/ HandleOperationError(r)
    PROVE  LogInv'
<1> USE DEF Phase, LockedPhase, InsertedPhase, AfterRead, AfterRebase
<1>1. CASE UpdateTitle(r)
  BY <1>1, MoveIsQuiet, AbortInv DEF UpdateTitle, Goto
<1>2. CASE ReadForTimestamp(r)
  BY <1>2, PassInv, AbortInv DEF ReadForTimestamp
<1>3. CASE UpdateDocumentTimestamp(r)
  BY <1>3, MoveIsQuiet DEF UpdateDocumentTimestamp, Goto
<1>4. CASE EmitDocumentUpdated(r)
  BY <1>4, MoveIsQuiet, AbortInv DEF EmitDocumentUpdated, Goto
<1>5. CASE Broadcast(r)
  BY <1>5, MoveIsQuiet DEF Broadcast, Goto
<1>6. CASE Finish(r)
  BY <1>6, MoveIsQuiet DEF Finish, Goto
<1>7. CASE HandleOperationError(r)
  BY <1>7, MoveIsQuiet DEF HandleOperationError, Goto
<1> QED BY <1>1, <1>2, <1>3, <1>4, <1>5, <1>6, <1>7

\* Sending fixes the number of an operation that had not been sent.
LEMMA InvSend ==
    ASSUME TypeOK, LogInv, NEW r \in Request, Send(r)
    PROVE  LogInv'
<1>1. \A q \in Request : pc'[q] = IF q = r THEN "arrived" ELSE pc[q]
  BY DEF Send, Goto, TypeOK
<1>2. "arrived" \notin LockedPhase /\ "arrived" # "unsent"
  BY DEF LockedPhase, InsertedPhase
<1>3. \A o \in Operation : Sent(o) => draft'[o] = draft[o]
  BY DEF Send, TypeOK
<1>4. QuietRows
  BY <1>1, <1>2, <1>3 DEF QuietRows, Send
<1>5. QuietLock /\ QuietReads /\ QuietKeys
  BY <1>1, <1>2, PhaseFacts DEF QuietLock, QuietReads, QuietKeys, Send
<1> QED
  BY <1>4, <1>5, RowsStep, LockStep, ReadsStep, KeysStep DEF LogInv, QuietRows

\* Archival, and a crash, which takes requests out of their transactions.
LEMMA InvEnvironment ==
    ASSUME TypeOK, LogInv,
           \/ \E d \in Document : ArchiveDocument(d) \/ UnarchiveDocument(d)
           \/ \E s \in Server : Crash(s)
           \/ UNCHANGED vars
    PROVE  LogInv'
<1>1. /\ UNCHANGED <<rows, draft, last, over>>
      /\ \A q \in Request : pc'[q] = pc[q] \/ pc'[q] = "crashed"
  BY DEF ArchiveDocument, UnarchiveDocument, Crash, vars, TypeOK
<1>2. "crashed" \notin LockedPhase /\ "crashed" # "unsent"
  BY DEF LockedPhase, InsertedPhase
<1>3. QuietRows /\ QuietLock /\ QuietReads /\ QuietKeys
  BY <1>1, <1>2, PhaseFacts DEF QuietRows, QuietLock, QuietReads, QuietKeys
<1> QED
  BY <1>3, RowsStep, LockStep, ReadsStep, KeysStep DEF LogInv, QuietRows

-----------------------------------------------------------------------------
(***************************************************************************)
(* The steps that matter.                                                  *)
(***************************************************************************)
LEMMA InvAcquireLock ==
    ASSUME TypeOK, LogInv, NEW r \in Request, AcquireLock(r)
    PROVE  LogInv'
<1>1. \A q \in Request : pc'[q] = IF q = r THEN "locked" ELSE pc[q]
  BY DEF AcquireLock, Pass, Goto, TypeOK
<1>2. UNCHANGED <<rows, draft, last, over>>
  BY DEF AcquireLock, Pass
<1>3. "locked" \notin AfterRead \cup {"unsent"}
  BY DEF AfterRead, InsertedPhase
<1>4. QuietRows /\ QuietReads /\ QuietKeys
  BY <1>1, <1>2, <1>3, PhaseFacts DEF QuietRows, QuietReads, QuietKeys
<1>5. LockExclusive'
  <2> SUFFICES ASSUME NEW p \in Request, NEW q \in Request,
                      pc'[p] \in LockedPhase, pc'[q] \in LockedPhase,
                      LockKey[LogOf(p)] = LockKey[LogOf(q)]
               PROVE  p = q
    BY DEF LockExclusive
  <2>1. CASE p # r /\ q # r
    BY <1>1, <2>1 DEF LogInv, LockExclusive
  <2>2. CASE p = r \/ q = r
    BY <1>1, <2>2 DEF AcquireLock
  <2> QED BY <2>1, <2>2
<1> QED
  BY <1>2, <1>4, <1>5, RowsStep, ReadsStep, KeysStep DEF LogInv

LEMMA InvReadLastRevision ==
    ASSUME TypeOK, LogInv, NEW r \in Request, ReadLastRevision(r)
    PROVE  LogInv'
<1>1. CASE Abort(r, "validation")
  BY <1>1, AbortInv
<1>2. CASE ~ Abort(r, "validation")
  <2>1. /\ \A q \in Request : pc'[q] = IF q = r THEN "validated" ELSE pc[q]
        /\ \A q \in Request : q # r => last'[q] = last[q]
        /\ last'[r] = LastRevision(LogOf(r))
        /\ IsValidOperation(draft[OpOf(r)].revision, last'[r])
        /\ pc[r] \in LockedPhase
        /\ UNCHANGED <<rows, draft, over>>
    BY <1>2 DEF ReadLastRevision, Goto, TypeOK, LockedPhase
  <2>2. /\ "validated" \notin AfterRebase \cup {"unsent"}
        /\ "validated" \notin InsertedPhase
    BY DEF AfterRebase, InsertedPhase
  <2>3. QuietRows /\ QuietLock /\ QuietKeys
    BY <2>1, <2>2 DEF QuietRows, QuietLock, QuietKeys
  <2>4. \A q \in Request \ {r} : ReadIsCurrent(q)'
    BY <2>1, <2>3, ReadStep
  <2>5. ReadIsCurrent(r)'
    BY <2>1, <2>2, SameRows DEF ReadIsCurrent
  <2>6. ReadsAreCurrent'
    BY <2>4, <2>5 DEF ReadIsCurrent, ReadsAreCurrent
  <2> QED
    BY <2>1, <2>3, <2>6, RowsStep, LockStep, KeysStep DEF LogInv
<1> QED BY <1>1, <1>2

LEMMA InvRebase ==
    ASSUME TypeOK, LogInv, NEW r \in Request, Rebase(r)
    PROVE  LogInv'
<1> DEFINE base == draft[OpOf(r)].revision
<1>1. /\ \A q \in Request : pc'[q] = IF q = r THEN "rebased" ELSE pc[q]
      /\ \A q \in Request : q # r => over'[q] = over[q]
      /\ over'[r] = {n \in RevisionsOf(LogOf(r)) : n >= base}
      /\ pc[r] = "ready"
      /\ UNCHANGED <<rows, draft, last>>
  BY DEF Rebase, Goto, TypeOK
<1>2. /\ {"ready", "rebased"} \subseteq AfterRead
      /\ "rebased" \notin InsertedPhase \cup {"unsent"}
  BY DEF AfterRead, InsertedPhase
<1>3. QuietRows /\ QuietLock /\ QuietKeys
  BY <1>1, <1>2, PhaseFacts DEF QuietRows, QuietLock, QuietKeys
<1>4. \A q \in Request \ {r} : ReadIsCurrent(q)'
  BY <1>1, <1>3, ReadStep
<1>5. over'[r] = base .. last[r]
  <2>1. last[r] = LastRevision(LogOf(r)) /\ base # 0
    BY <1>1, <1>2 DEF LogInv, ReadsAreCurrent, IsValidOperation
  <2>2. RevisionsOf(LogOf(r)) = 0 .. last[r]
    BY <2>1, OperationFacts DEF LogInv, RevisionsContiguous
  <2>3. base \in Nat /\ last[r] \in Nat
    BY OperationFacts DEF TypeOK
  <2> QED BY <1>1, <2>1, <2>2, <2>3
<1>6. ReadIsCurrent(r)'
  BY <1>1, <1>2, <1>5, SameRows DEF LogInv, ReadsAreCurrent, ReadIsCurrent
<1>7. ReadsAreCurrent'
  BY <1>4, <1>6 DEF ReadIsCurrent, ReadsAreCurrent
<1> QED
  BY <1>1, <1>3, <1>7, RowsStep, LockStep, KeysStep DEF LogInv

LEMMA InvInsertRevision ==
    ASSUME TypeOK, LogInv, NEW r \in Request, InsertRevision(r)
    PROVE  LogInv'
<1>1. CASE Abort(r, "unique")
  BY <1>1, AbortInv
<1>2. CASE ~ Abort(r, "unique")
  <2>1. PICK phase \in {"created", "inserted"} :
           \A q \in Request : pc'[q] = IF q = r THEN phase ELSE pc[q]
    BY <1>2 DEF InsertRevision, Goto, TypeOK
  <2>2. UNCHANGED <<rows, draft, last, over>> /\ pc[r] = "rebased"
    BY <1>2 DEF InsertRevision
  <2>3. /\ "rebased" \in AfterRebase
        /\ phase # "unsent"
    BY <2>1 DEF AfterRebase
  <2>4. QuietRows /\ QuietLock /\ QuietReads
    BY <2>1, <2>2, <2>3, PhaseFacts DEF QuietRows, QuietLock, QuietReads
  <2>5. /\ \A row \in rows : KeyOf(row.by) # KeyOf(r)
        /\ \A q \in Request \ {r} : pc[q] \in InsertedPhase => KeyOf(q) # KeyOf(r)
    BY <1>2 DEF InsertRevision
  <2>6. KeysClaimed'
    BY <2>1, <2>2, <2>5 DEF LogInv, KeysClaimed
  <2> QED
    BY <2>2, <2>4, <2>6, RowsStep, LockStep, ReadsStep DEF LogInv
<1> QED BY <1>1, <1>2

\* What one committed row does to the log of its request, and to the others.
LEMMA StoredLog ==
    ASSUME TypeOK, LogInv, NEW r \in Request, pc[r] = "committing",
           rows' = rows \cup {RowOf(r)}
    PROVE  /\ last[r] \in Nat
           /\ last[r] = LastRevision(LogOf(r))
           /\ RevisionsOf(LogOf(r)) = 0 .. last[r]
           /\ RowsOf(LogOf(r))' = RowsOf(LogOf(r)) \cup {RowOf(r)}
           /\ RevisionsOf(LogOf(r))' = 0 .. last[r] + 1
           /\ LastRevision(LogOf(r))' = last[r] + 1
           /\ \A l \in Log \ {LogOf(r)} :
                 /\ RowsOf(l)' = RowsOf(l)
                 /\ RevisionsOf(l)' = RevisionsOf(l)
                 /\ LastRevision(l)' = LastRevision(l)
<1>1. last[r] \in Nat /\ last[r] = LastRevision(LogOf(r))
  BY DEF LogInv, ReadsAreCurrent, AfterRead, InsertedPhase, TypeOK
<1>2. RevisionsOf(LogOf(r)) = 0 .. last[r]
  BY <1>1, OperationFacts DEF LogInv, RevisionsContiguous
<1>3. RowOf(r).by = r /\ RowOf(r).revision = last[r] + 1
  BY DEF RowOf
<1>4. RowsOf(LogOf(r))' = RowsOf(LogOf(r)) \cup {RowOf(r)}
  BY <1>3 DEF RowsOf
<1>5. RevisionsOf(LogOf(r))' = RevisionsOf(LogOf(r)) \cup {last[r] + 1}
  BY <1>3, <1>4 DEF RevisionsOf
<1>6. RevisionsOf(LogOf(r))' = 0 .. last[r] + 1
  BY <1>1, <1>2, <1>5
<1>7. LastRevision(LogOf(r))' = last[r] + 1
  <2>1. Max(RevisionsOf(LogOf(r))') = last[r] + 1
    BY <1>1, <1>6, MaxOfRange
  <2> QED BY <2>1 DEF LastRevision
<1>8. ASSUME NEW l \in Log \ {LogOf(r)}
      PROVE  /\ RowsOf(l)' = RowsOf(l)
             /\ RevisionsOf(l)' = RevisionsOf(l)
             /\ LastRevision(l)' = LastRevision(l)
  <2>1. RowsOf(l)' = RowsOf(l)
    BY <1>3 DEF RowsOf
  <2> QED BY <2>1 DEF RevisionsOf, LastRevision
<1> QED BY <1>1, <1>2, <1>4, <1>6, <1>7, <1>8

\* The two ways in which the row of a transaction becomes visible.
Stores(r, phase) ==
    /\ pc[r] = "committing"
    /\ pc' = [pc EXCEPT ![r] = phase]
    /\ rows' = rows \cup {RowOf(r)}
    /\ UNCHANGED <<draft, last, over>>

LEMMA StoresRows ==
    ASSUME TypeOK, LogInv, NEW r \in Request,
           NEW phase \in {"committed", "handling"}, Stores(r, phase)
    PROVE  /\ RowsAreSent'
           /\ RevisionsContiguous'
           /\ SubmittedOnce'
           /\ RebasedOnPredecessors'
           /\ NeverFromTheFuture'
<1> USE DEF Stores
<1>1. /\ RowOf(r).by = r
      /\ RowOf(r).revision = last[r] + 1
      /\ RowOf(r).over = over[r]
  BY DEF RowOf
<1>2. \A row \in rows' : row \in rows \/ row = RowOf(r)
  OBVIOUS
<1>3. \A row \in rows : row \in Row /\ pc[row.by] # "unsent"
  BY DEF LogInv, RowsAreSent, TypeOK
<1>4. /\ IsValidOperation(draft[OpOf(r)].revision, last[r])
      /\ over[r] = draft[OpOf(r)].revision .. last[r]
      /\ last[r] \in Nat
  BY PhaseFacts DEF LogInv, ReadsAreCurrent, InsertedPhase, TypeOK
<1>5. RowsAreSent'
  <2>1. \A q \in Request : pc'[q] = IF q = r THEN phase ELSE pc[q]
    BY DEF TypeOK
  <2> QED BY <1>1, <1>2, <1>3, <2>1 DEF RowsAreSent, Row
<1>6. RevisionsContiguous'
  <2>1. ASSUME NEW l \in Log \ {LogOf(r)}
        PROVE  /\ LastRevision(l)' \in Nat
               /\ RevisionsOf(l)' = 0 .. LastRevision(l)'
               /\ \A x, y \in RowsOf(l)' : x.revision = y.revision => x = y
    BY <2>1, StoredLog DEF LogInv, RevisionsContiguous
  <2>2. /\ LastRevision(LogOf(r))' \in Nat
        /\ RevisionsOf(LogOf(r))' = 0 .. LastRevision(LogOf(r))'
    BY StoredLog
  <2>3. \A x \in RowsOf(LogOf(r)) : x.revision # last[r] + 1
    <3>1. \A x \in RowsOf(LogOf(r)) : x.revision \in 0 .. last[r]
      BY StoredLog DEF RevisionsOf
    <3> QED BY <1>4, <3>1
  <2>4. \A x, y \in RowsOf(LogOf(r))' : x.revision = y.revision => x = y
    BY <1>1, <2>3, StoredLog, OperationFacts DEF LogInv, RevisionsContiguous
  <2> QED BY <2>1, <2>2, <2>4 DEF RevisionsContiguous
<1>7. SubmittedOnce'
  <2>1. \A row \in rows : KeyOf(row.by) # KeyOf(r)
    BY DEF LogInv, KeysClaimed, InsertedPhase
  <2> QED BY <1>1, <1>2, <2>1 DEF LogInv, SubmittedOnce
<1>8. RebasedOnPredecessors'
  BY <1>1, <1>2, <1>4 DEF LogInv, RebasedOnPredecessors
<1>9. NeverFromTheFuture'
  <2>1. last[r] + 1 > 1 => draft[OpOf(r)].revision <= last[r] + 1
    BY <1>4 DEF IsValidOperation
  <2> QED BY <1>1, <1>2, <2>1 DEF LogInv, NeverFromTheFuture
<1> QED BY <1>5, <1>6, <1>7, <1>8, <1>9

LEMMA StoresInv ==
    ASSUME TypeOK, LogInv, NEW r \in Request,
           NEW phase \in {"committed", "handling"}, Stores(r, phase)
    PROVE  LogInv'
<1>1. \A q \in Request : pc'[q] = IF q = r THEN phase ELSE pc[q]
  BY DEF TypeOK, Stores
<1>2. phase \notin LockedPhase
  BY DEF LockedPhase, InsertedPhase
<1>3. QuietLock
  BY <1>1, <1>2 DEF QuietLock
<1>4. ReadsAreCurrent'
  <2>1. ASSUME NEW q \in Request, pc'[q] \in AfterRead
        PROVE  /\ q # r
               /\ LastRevision(LogOf(q))' = LastRevision(LogOf(q))
    <3>1. q # r /\ pc[q] \in LockedPhase
      BY <1>1, <1>2, <2>1, PhaseFacts
    <3>2. pc[r] \in LockedPhase
      BY DEF Stores, LockedPhase, InsertedPhase
    <3>3. LogOf(q) # LogOf(r)
      BY <3>1, <3>2 DEF LogInv, LockExclusive
    <3> QED BY <3>1, <3>3, StoredLog, OperationFacts DEF Stores
  <2> QED
    BY <1>1, <2>1, PhaseFacts DEF LogInv, ReadsAreCurrent, Stores
<1>5. KeysClaimed'
  <2> SUFFICES ASSUME NEW q \in Request, pc'[q] \in InsertedPhase
               PROVE  /\ \A row \in rows' : KeyOf(row.by) # KeyOf(q)
                      /\ \A p \in Request \ {q} :
                            pc'[p] \in InsertedPhase => KeyOf(p) # KeyOf(q)
    BY DEF KeysClaimed
  <2>1. q # r /\ pc[q] \in InsertedPhase
    BY <1>1, <1>2, PhaseFacts
  <2>2. KeyOf(r) # KeyOf(q)
    BY <2>1 DEF LogInv, KeysClaimed, Stores, InsertedPhase
  <2>3. \A row \in rows' : KeyOf(row.by) # KeyOf(q)
    BY <2>1, <2>2 DEF LogInv, KeysClaimed, Stores, RowOf
  <2>4. \A p \in Request \ {q} : pc'[p] \in InsertedPhase => KeyOf(p) # KeyOf(q)
    BY <1>1, <1>2, <2>1, PhaseFacts DEF LogInv, KeysClaimed
  <2> QED BY <2>3, <2>4
<1> QED
  BY <1>3, <1>4, <1>5, StoresRows, LockStep DEF LogInv

LEMMA InvEnd ==
    ASSUME TypeOK, LogInv, NEW r \in Request,
           Commit(r) \/ CommitFails(r) \/ QueryFails(r)
    PROVE  LogInv'
<1>1. CASE Commit(r)
  BY <1>1, StoresInv DEF Commit, Goto, Stores
<1>2. CASE CommitFails(r)
  <2>1. CASE rows' = rows
    <3>1. "handling" \in Phase \ {"unsent"} /\ "handling" \notin LockedPhase
      BY DEF Phase, LockedPhase, InsertedPhase
    <3> QED BY <1>2, <2>1, <3>1, PhaseFacts, MoveIsQuiet DEF CommitFails, Goto
  <2>2. CASE rows' = rows \cup {RowOf(r)}
    BY <1>2, <2>2, StoresInv DEF CommitFails, Goto, Stores
  <2> QED BY <1>2, <2>1, <2>2 DEF CommitFails
<1>3. CASE QueryFails(r)
  BY <1>3, AbortInv DEF QueryFails
<1> QED BY <1>1, <1>2, <1>3

LEMMA LogInvStep ==
    ASSUME TypeOK, LogInv, [Next]_vars
    PROVE  LogInv'
<1>1. ASSUME NEW r \in Request, Handle(r)
      PROVE  LogInv'
  BY <1>1, InvBeforeRead, InvAcquireLock, InvReadLastRevision, InvRebase,
     InvInsertRevision, InvAfterInsert, InvEnd DEF Handle
<1>2. ASSUME NEW r \in Request, Send(r) \/ QueryFails(r) \/ CommitFails(r)
      PROVE  LogInv'
  BY <1>2, InvSend, InvEnd
<1> QED BY <1>1, <1>2, InvEnvironment DEF Next

-----------------------------------------------------------------------------
(***************************************************************************)
(* The theorems.                                                           *)
(***************************************************************************)
LEMMA Initially ==
    ASSUME Init
    PROVE  TypeOK /\ LogInv /\ RowLockInv
<1> USE DEF Init
<1>1. \A l \in Log : RevisionsOf(l) = 0 .. 0 /\ LastRevision(l) = 0
  <2>1. \A l \in Log : RevisionsOf(l) = 0 .. 0
    BY DEF RevisionsOf, RowsOf
  <2> QED BY <2>1, MaxOfRange DEF LastRevision
<1>2. TypeOK
  BY DEF TypeOK, Phase, ErrorKind, Answer
<1>3. RevisionsContiguous
  <2>1. \A l \in Log : RowsOf(l) = {}
    BY DEF RowsOf
  <2>2. \A l \in Log : LastRevision(l) \in Nat
    BY <1>1
  <2>3. \A l \in Log : RevisionsOf(l) = 0 .. LastRevision(l)
    BY <1>1, Zenon
  <2> QED BY <2>1, <2>2, <2>3 DEF RevisionsContiguous
<1>4. \A r \in Request : pc[r] = "unsent"
  OBVIOUS
<1>5. LockExclusive /\ ReadsAreCurrent /\ KeysClaimed
  BY <1>4, PhaseFacts DEF LockExclusive, ReadsAreCurrent, KeysClaimed
<1>6. RowsAreSent /\ SubmittedOnce /\ RebasedOnPredecessors /\ NeverFromTheFuture
  BY DEF RowsAreSent, SubmittedOnce, RebasedOnPredecessors, NeverFromTheFuture
<1>7. RowLockInv
  BY DEF RowLockInv
<1> QED BY <1>2, <1>3, <1>5, <1>6, <1>7 DEF LogInv

\* The variables keep their types, and what is true of the requests under way,
\* of their lock, their reads and their keys, stays true of every one of them.
THEOREM LogInvariant == Spec => [](TypeOK /\ LogInv)
<1>1. Init => TypeOK /\ LogInv
  BY Initially
<1>2. TypeOK /\ LogInv /\ [Next]_vars => (TypeOK /\ LogInv)'
  BY TypeStep, LogInvStep DEF LogInv
<1> QED BY <1>1, <1>2, PTL DEF Spec

\* Type correctness of the whole state.
THEOREM TypeCorrect == Spec => []TypeOK
BY LogInvariant, PTL

\* The revisions of a document or a pane are numbered without gap or duplicate,
\* whichever processes number them and whatever fails.
THEOREM Contiguous == Spec => []RevisionsContiguous
<1>1. LogInv => RevisionsContiguous
  BY DEF LogInv
<1> QED BY <1>1, LogInvariant, PTL

\* A submission is stored at most once, however often and wherever it is sent.
THEOREM StoredOnce == Spec => []SubmittedOnce
<1>1. LogInv => SubmittedOnce
  BY DEF LogInv
<1> QED BY <1>1, LogInvariant, PTL

\* A stored operation has been rebased over every revision from the one it was
\* authored for to its immediate predecessor.
THEOREM Rebased == Spec => []RebasedOnPredecessors
<1>1. LogInv => RebasedOnPredecessors
  BY DEF LogInv
<1> QED BY <1>1, LogInvariant, PTL

-----------------------------------------------------------------------------
(***************************************************************************)
(* Archival.  The isArchived check of the last hook stays true until the   *)
(* commit because the timestamp hook has locked the row of the document.   *)
(***************************************************************************)
\* The claim of RowLockInv about one request.
RowIsHeld(r) ==
    LogOf(r) \in Document =>
        /\ pc[r] \in {"stamped", "created", "committing"} => r \in rowHeld
        /\ pc[r] \in {"created", "committing"} => DocumentOf(r) \notin archived

\* A step that leaves the request where it is keeps its row for it.
LEMMA HeldElsewhere ==
    ASSUME NEW r \in Request, RowIsHeld(r), pc'[r] = pc[r],
           r \in rowHeld => r \in rowHeld', archived' = archived
    PROVE  RowIsHeld(r)'
BY DEF RowIsHeld

\* A step that leads to a phase RowLockInv does not speak of.
LEMMA HeldNoMore ==
    ASSUME NEW r \in Request, pc'[r] \notin {"stamped", "created", "committing"}
    PROVE  RowIsHeld(r)'
BY DEF RowIsHeld

LEMMA HeldByHandler ==
    ASSUME TypeOK, NEW r \in Request, RowIsHeld(r), Handle(r)
    PROVE  RowIsHeld(r)'
<1> USE DEF Goto, Pass, Abort, TypeOK
<1>1. CASE InsertRevision(r)
  BY <1>1, OperationFacts DEF InsertRevision, RowIsHeld
<1>2. CASE UpdateDocumentTimestamp(r)
  BY <1>2 DEF UpdateDocumentTimestamp, RowIsHeld
<1>3. CASE EmitDocumentUpdated(r)
  BY <1>3 DEF EmitDocumentUpdated, RowIsHeld
<1>4. CASE Broadcast(r)
  BY <1>4 DEF Broadcast, RowIsHeld
<1>5. CASE \/ FindDocument(r) \/ AcquireLock(r) \/ CheckForSubmitted(r)
           \/ GetDocumentForRevisions(r) \/ CheckPermission(r) \/ GetPane(r)
           \/ ReadLastRevision(r) \/ ApplyToContents(r) \/ Rebase(r)
  BY <1>5, HeldNoMore DEF FindDocument, AcquireLock, CheckForSubmitted,
     GetDocumentForRevisions, CheckPermission, GetPane, ReadLastRevision,
     ApplyToContents, Rebase
<1>6. CASE \/ UpdateTitle(r) \/ ReadForTimestamp(r) \/ Commit(r) \/ Finish(r)
           \/ HandleOperationError(r)
  BY <1>6, HeldNoMore DEF UpdateTitle, ReadForTimestamp, Commit, Finish,
     HandleOperationError
<1> QED BY <1>1, <1>2, <1>3, <1>4, <1>5, <1>6 DEF Handle

\* A step of one request leaves the others where they are and what they hold.
LEMMA OneMoves ==
    ASSUME TypeOK, NEW r \in Request,
           Handle(r) \/ Send(r) \/ QueryFails(r) \/ CommitFails(r)
    PROVE  /\ \A q \in Request \ {r} : pc'[q] = pc[q] /\ (q \in rowHeld => q \in rowHeld')
           /\ archived' = archived
<1> USE DEF Goto, Pass, Abort, TypeOK
<1>1. CASE \/ FindDocument(r) \/ AcquireLock(r) \/ CheckForSubmitted(r)
           \/ GetDocumentForRevisions(r) \/ CheckPermission(r) \/ GetPane(r)
           \/ ReadLastRevision(r) \/ ApplyToContents(r) \/ Rebase(r)
  BY <1>1 DEF FindDocument, AcquireLock, CheckForSubmitted,
     GetDocumentForRevisions, CheckPermission, GetPane, ReadLastRevision,
     ApplyToContents, Rebase
<1>2. CASE \/ InsertRevision(r) \/ UpdateTitle(r) \/ ReadForTimestamp(r)
           \/ UpdateDocumentTimestamp(r) \/ EmitDocumentUpdated(r)
  BY <1>2 DEF InsertRevision, UpdateTitle, ReadForTimestamp,
     UpdateDocumentTimestamp, EmitDocumentUpdated
<1>3. CASE \/ Broadcast(r) \/ Commit(r) \/ Finish(r) \/ HandleOperationError(r)
  BY <1>3 DEF Broadcast, Commit, Finish, HandleOperationError
<1>4. CASE Send(r) \/ QueryFails(r) \/ CommitFails(r)
  BY <1>4 DEF Send, QueryFails, CommitFails
<1> QED BY <1>1, <1>2, <1>3, <1>4 DEF Handle

LEMMA RowLockStep ==
    ASSUME TypeOK, RowLockInv, [Next]_vars
    PROVE  RowLockInv'
<1>1. \A r \in Request : RowIsHeld(r)
  BY DEF RowLockInv, RowIsHeld
<1> SUFFICES ASSUME NEW r \in Request
             PROVE  RowIsHeld(r)'
  BY DEF RowLockInv, RowIsHeld
<1>2. ASSUME NEW q \in Request \ {r},
             Handle(q) \/ Send(q) \/ QueryFails(q) \/ CommitFails(q)
      PROVE  RowIsHeld(r)'
  BY <1>1, <1>2, OneMoves, HeldElsewhere
<1>3. CASE Handle(r)
  BY <1>1, <1>3, HeldByHandler
<1>4. CASE Send(r) \/ QueryFails(r) \/ CommitFails(r)
  BY <1>4, HeldNoMore DEF Send, QueryFails, CommitFails, Abort, Goto, TypeOK
<1>5. ASSUME NEW d \in Document, ArchiveDocument(d) \/ UnarchiveDocument(d)
      PROVE  RowIsHeld(r)'
  BY <1>1, <1>5 DEF ArchiveDocument, UnarchiveDocument, RowIsHeld
<1>6. ASSUME NEW s \in Server, Crash(s)
      PROVE  RowIsHeld(r)'
  BY <1>1, <1>6 DEF Crash, RowIsHeld, TypeOK
<1>7. CASE UNCHANGED vars
  BY <1>1, <1>7 DEF vars, RowIsHeld
<1> QED BY <1>2, <1>3, <1>4, <1>5, <1>6, <1>7 DEF Next

\* Only the two ways to commit add a row.
LEMMA OnlyCommitsStore ==
    ASSUME TypeOK, [Next]_vars, rows' # rows
    PROVE  \E r \in Request : pc[r] = "committing" /\ rows' = rows \cup {RowOf(r)}
BY ZenonT(30) DEF Next, vars, Handle, Send, FindDocument, AcquireLock, CheckForSubmitted,
       GetDocumentForRevisions, CheckPermission, GetPane, ReadLastRevision,
       ApplyToContents, Rebase, InsertRevision, UpdateTitle, ReadForTimestamp,
       UpdateDocumentTimestamp, EmitDocumentUpdated, Broadcast, Commit, Finish,
       HandleOperationError, QueryFails, CommitFails, ArchiveDocument,
       UnarchiveDocument, Crash, Pass, Abort

\* No revision of a document becomes visible while the document is archived.
THEOREM ArchivedIsClosed == Spec => NoRevisionOnArchived
<1>1. Init => TypeOK /\ LogInv /\ RowLockInv
  BY Initially
<1>2. TypeOK /\ LogInv /\ RowLockInv /\ [Next]_vars => (TypeOK /\ LogInv /\ RowLockInv)'
  BY TypeStep, LogInvStep, RowLockStep DEF LogInv
<1>3. TypeOK /\ RowLockInv /\ [Next]_vars
        => [\A row \in rows' \ rows :
              LogOf(row.by) \in Document => LogOf(row.by) \notin archived]_vars
  <2> SUFFICES ASSUME TypeOK, RowLockInv, [Next]_vars,
                      NEW row \in rows' \ rows, LogOf(row.by) \in Document
               PROVE  LogOf(row.by) \notin archived
    OBVIOUS
  <2>1. PICK r \in Request : pc[r] = "committing" /\ rows' = rows \cup {RowOf(r)}
    BY OnlyCommitsStore
  <2>2. row.by = r
    BY <2>1 DEF RowOf
  <2> QED BY <2>1, <2>2, OperationFacts DEF RowLockInv
<1> QED BY <1>1, <1>2, <1>3, PTL DEF Spec, NoRevisionOnArchived

-----------------------------------------------------------------------------
(***************************************************************************)
(* Who waits for whom.                                                     *)
(***************************************************************************)
SomebodyGoesOn ==
    (\E r \in Request : pc[r] \in Running) =>
        \E r \in Request : pc[r] \in Running /\ NotWaiting(r)

\* The row of a document has one holder, which has nothing left to wait for.
HeldPhase == {"titled", "stamping", "stamped", "created", "committing"}
RowsHeld ==
    /\ rowHeld \subseteq Request
    /\ \A q \in rowHeld : pc[q] \in HeldPhase
    /\ \A q, r \in rowHeld : DocumentOf(q) = DocumentOf(r) => q = r

\* Only r moves, and takes the row only when nobody has it.
Holds(r) ==
    /\ \A q \in Request \ {r} : pc'[q] = pc[q]
    /\ rowHeld' \subseteq rowHeld \cup {r}
    /\ r \in rowHeld' => pc'[r] \in HeldPhase
    /\ r \in rowHeld' /\ r \notin rowHeld => RowFree(r)

LEMMA HoldsKeepRows ==
    ASSUME RowsHeld, NEW r \in Request, Holds(r)
    PROVE  RowsHeld'
<1>1. /\ rowHeld' \subseteq Request
      /\ \A q \in rowHeld' : pc'[q] \in HeldPhase
  BY DEF RowsHeld, Holds
<1>2. ASSUME NEW p \in rowHeld', NEW q \in rowHeld', DocumentOf(p) = DocumentOf(q)
      PROVE  p = q
  <2>1. p \in rowHeld \cup {r} /\ q \in rowHeld \cup {r}
    BY DEF Holds
  <2>2. CASE p \in rowHeld /\ q \in rowHeld
    BY <1>2, <2>2 DEF RowsHeld
  <2>3. CASE ~ (p \in rowHeld /\ q \in rowHeld)
    BY <1>2, <2>1, <2>3 DEF Holds, RowFree
  <2> QED BY <2>2, <2>3
<1>3. \A p, q \in rowHeld' : (DocumentOf(p) = DocumentOf(q))' => p = q
  BY <1>2 DEF DocumentOf, OpOf
<1> QED BY <1>1, <1>3 DEF RowsHeld

LEMMA HandlersHold ==
    ASSUME TypeOK, RowsHeld, NEW r \in Request,
           Handle(r) \/ Send(r) \/ QueryFails(r) \/ CommitFails(r)
    PROVE  Holds(r)
<1>0. r \in rowHeld => pc[r] \in HeldPhase
  BY DEF RowsHeld
<1> USE DEF Goto, Pass, Abort, TypeOK, HeldPhase
<1>1. CASE FindDocument(r) \/ AcquireLock(r) \/ CheckForSubmitted(r) \/ Send(r)
  BY <1>0, <1>1 DEF FindDocument, AcquireLock, CheckForSubmitted, Send, Holds
<1>2. CASE \/ GetDocumentForRevisions(r) \/ CheckPermission(r) \/ GetPane(r)
           \/ ReadLastRevision(r) \/ ApplyToContents(r) \/ Rebase(r)
  BY <1>0, <1>2 DEF GetDocumentForRevisions, CheckPermission, GetPane, ReadLastRevision,
     ApplyToContents, Rebase, Holds
<1>3. CASE InsertRevision(r)
  BY <1>0, <1>3 DEF InsertRevision, Holds
<1>4. CASE UpdateTitle(r)
  BY <1>0, <1>4 DEF UpdateTitle, Holds
<1>5. CASE ReadForTimestamp(r) \/ UpdateDocumentTimestamp(r)
  BY <1>0, <1>5 DEF ReadForTimestamp, UpdateDocumentTimestamp, Holds
<1>6. CASE EmitDocumentUpdated(r) \/ Broadcast(r)
  BY <1>0, <1>6 DEF EmitDocumentUpdated, Broadcast, Holds
<1>7. CASE Commit(r) \/ Finish(r) \/ HandleOperationError(r)
  BY <1>0, <1>7 DEF Commit, Finish, HandleOperationError, Holds
<1>8. CASE QueryFails(r) \/ CommitFails(r)
  BY <1>8 DEF QueryFails, CommitFails, Holds
<1> QED BY <1>1, <1>2, <1>3, <1>4, <1>5, <1>6, <1>7, <1>8 DEF Handle

LEMMA RowsHeldStep ==
    ASSUME TypeOK, RowsHeld, [Next]_vars
    PROVE  RowsHeld'
<1>1. ASSUME NEW r \in Request, Send(r) \/ Handle(r) \/ QueryFails(r) \/ CommitFails(r)
      PROVE  RowsHeld'
  BY <1>1, HandlersHold, HoldsKeepRows
<1>2. CASE \E d \in Document : ArchiveDocument(d) \/ UnarchiveDocument(d)
  BY <1>2 DEF ArchiveDocument, UnarchiveDocument, RowsHeld, DocumentOf, OpOf
<1>3. ASSUME NEW s \in Server, Crash(s)
      PROVE  RowsHeld'
  BY <1>3 DEF Crash, RowsHeld, DocumentOf, OpOf, TypeOK, HeldPhase, Running, Phase, LockedPhase,
     InsertedPhase
<1>4. CASE UNCHANGED vars
  BY <1>4 DEF vars, RowsHeld, DocumentOf, OpOf
<1> QED BY <1>1, <1>2, <1>3, <1>4 DEF Next

\* A request waits for a lock, then for a key, then for a row, and never for one it
\* has passed: among those that want or hold any, the one that is farthest does not
\* wait.
LockingPhase == {"locking"} \cup LockedPhase

LEMMA FarthestGoesOn ==
    ASSUME RowsHeld, NEW r \in Request, pc[r] \in LockingPhase
    PROVE  \E q \in Request : pc[q] \in LockingPhase /\ NotWaiting(q)
<1> USE DEF LockingPhase, LockedPhase, InsertedPhase
<1>1. CASE \E q \in rowHeld : TRUE
  <2>1. PICK q \in rowHeld : TRUE
    BY <1>1
  <2>2. q \in Request /\ pc[q] \in HeldPhase /\ RowFree(q)
    BY DEF RowsHeld, RowFree
  <2> QED BY <2>2 DEF NotWaiting, HeldPhase
<1>2. CASE rowHeld = {}
  <2>1. CASE \E q \in Request : pc[q] \in InsertedPhase
    <3>1. PICK q \in Request : pc[q] \in InsertedPhase
      BY <2>1
    <3>2. RowFree(q)
      BY <1>2 DEF RowFree
    <3> QED BY <3>1, <3>2 DEF NotWaiting
  <2>2. CASE \A q \in Request : pc[q] \notin InsertedPhase
    <3>1. CASE \E q \in Request : pc[q] \in LockedPhase
      <4>1. PICK q \in Request : pc[q] \in LockedPhase
        BY <3>1
      <4> QED BY <2>2, <4>1 DEF NotWaiting
    <3>2. CASE \A q \in Request : pc[q] \notin LockedPhase
      BY <3>2 DEF NotWaiting
    <3> QED BY <3>1, <3>2
  <2> QED BY <2>1, <2>2
<1> QED BY <1>1, <1>2

LEMMA NoCircle ==
    ASSUME RowsHeld
    PROVE  SomebodyGoesOn
<1> SUFFICES ASSUME NEW r \in Request, pc[r] \in Running
             PROVE  \E q \in Request : pc[q] \in Running /\ NotWaiting(q)
  BY DEF SomebodyGoesOn
<1>1. CASE pc[r] \in LockingPhase
  BY <1>1, FarthestGoesOn DEF LockingPhase, Running, Phase, LockedPhase, InsertedPhase
<1>2. CASE pc[r] \notin LockingPhase
  BY <1>2 DEF NotWaiting, LockingPhase, LockedPhase, InsertedPhase
<1> QED BY <1>1, <1>2

\* Whatever submissions run, on whatever documents, panes and servers, with whatever
\* collisions of lock keys, one of them at least does not wait for another: the
\* advisory lock, the unique keys and the rows are taken in one order.
THEOREM NobodyWaitsInACircle == Spec => []SomebodyGoesOn
<1>1. Init => TypeOK /\ LogInv /\ RowsHeld
  <2>1. Init => RowsHeld
    BY DEF Init, RowsHeld
  <2> QED BY <2>1, Initially
<1>2. TypeOK /\ LogInv /\ RowsHeld /\ [Next]_vars => (TypeOK /\ LogInv /\ RowsHeld)'
  BY TypeStep, LogInvStep, RowsHeldStep DEF LogInv
<1>3. RowsHeld => SomebodyGoesOn
  BY NoCircle
<1> QED BY <1>1, <1>2, <1>3, PTL DEF Spec

-----------------------------------------------------------------------------
(***************************************************************************)
(* The refinement: committing is recording, all other steps stutter.       *)
(***************************************************************************)
EntryOf(row) == [submission |-> KeyOf(row.by), over |-> row.over]

\* LogView[l] holds the rows of l at the places of their numbers, and no more.
ViewFits ==
    \A l \in Log :
        /\ LastRevision(l) \in Nat
        /\ DOMAIN LogView[l] = 1 .. LastRevision(l)
        /\ LogView[l] \in Seq([submission : BOOLEAN \X Submission, over : SUBSET Nat])
        /\ \A row \in RowsOf(l) :
              /\ row.revision \in 1 .. LastRevision(l)
              /\ LogView[l][row.revision] = EntryOf(row)
        /\ \A n \in 1 .. LastRevision(l) : \E row \in RowsOf(l) : row.revision = n

LEMMA ViewOfRows == TypeOK /\ LogInv => ViewFits
<1> SUFFICES ASSUME TypeOK, LogInv, NEW l \in Log
             PROVE  /\ LastRevision(l) \in Nat
                    /\ DOMAIN LogView[l] = 1 .. LastRevision(l)
                    /\ LogView[l] \in Seq([submission : BOOLEAN \X Submission,
                                           over : SUBSET Nat])
                    /\ \A row \in RowsOf(l) :
                          /\ row.revision \in 1 .. LastRevision(l)
                          /\ LogView[l][row.revision] = EntryOf(row)
                    /\ \A n \in 1 .. LastRevision(l) :
                          \E row \in RowsOf(l) : row.revision = n
  BY DEF ViewFits
<1> DEFINE At(n) == CHOOSE x \in RowsOf(l) : x.revision = n
<1>1. /\ LastRevision(l) \in Nat
      /\ RevisionsOf(l) = 0 .. LastRevision(l)
      /\ \A x, y \in RowsOf(l) : x.revision = y.revision => x = y
  BY DEF LogInv, RevisionsContiguous
<1>2. \A row \in RowsOf(l) : row \in Row
  BY DEF RowsOf, TypeOK
<1>3. \A row \in RowsOf(l) : row.revision \in 1 .. LastRevision(l)
  <2>1. \A row \in RowsOf(l) : row.revision \in RevisionsOf(l)
    BY DEF RevisionsOf
  <2> QED BY <1>1, <1>2, <2>1 DEF Row
<1>4. \A n \in 1 .. LastRevision(l) : \E row \in RowsOf(l) : row.revision = n
  <2>1. ASSUME NEW n \in 1 .. LastRevision(l)
        PROVE  \E row \in RowsOf(l) : row.revision = n
    <3>1. n \in RevisionsOf(l) /\ n # 0
      BY <1>1
    <3> QED BY <3>1 DEF RevisionsOf
  <2> QED BY <2>1
<1>5. LogView[l] = [n \in 1 .. LastRevision(l) |-> EntryOf(At(n))]
  BY DEF LogView, EntryOf
<1> HIDE DEF At
<1>6. \A row \in RowsOf(l) : At(row.revision) = row
  <2>1. ASSUME NEW row \in RowsOf(l)
        PROVE  At(row.revision) = row
    <3>1. At(row.revision) \in RowsOf(l) /\ At(row.revision).revision = row.revision
      BY Zenon DEF At
    <3> QED BY <1>1, <3>1
  <2> QED BY <2>1
<1>7. \A n \in 1 .. LastRevision(l) : At(n) \in RowsOf(l)
  BY <1>4, <1>6
<1>8. \A row \in RowsOf(l) :
         EntryOf(row) \in [submission : BOOLEAN \X Submission, over : SUBSET Nat]
  BY <1>2, OperationFacts DEF EntryOf, Row
<1>9. LogView[l] \in Seq([submission : BOOLEAN \X Submission, over : SUBSET Nat])
  <2>1. LogView[l] \in [1 .. LastRevision(l)
                          -> [submission : BOOLEAN \X Submission, over : SUBSET Nat]]
    BY <1>5, <1>7, <1>8
  <2> QED BY <1>1, <2>1, SeqOfFunction
<1> QED BY <1>1, <1>3, <1>4, <1>5, <1>6, <1>9

\* The log of the request grows by its entry; the logs of others stay.
LEMMA ViewGrows ==
    ASSUME TypeOK, LogInv, ViewFits, ViewFits', NEW r \in Request,
           pc[r] = "committing", rows' = rows \cup {RowOf(r)}
    PROVE  LogView' = [LogView EXCEPT ![LogOf(r)] = Append(@, EntryOf(RowOf(r)))]
<1> DEFINE k == LogOf(r)
           S == [submission : BOOLEAN \X Submission, over : SUBSET Nat]
<1>1. /\ k \in Log
      /\ last[r] \in Nat
      /\ LastRevision(k) = last[r]
      /\ RowsOf(k)' = RowsOf(k) \cup {RowOf(r)}
      /\ LastRevision(k)' = last[r] + 1
      /\ RowOf(r).revision = last[r] + 1
  BY StoredLog, OperationFacts DEF RowOf
<1>2. LogView'[k] = Append(LogView[k], EntryOf(RowOf(r)))
  <2> DEFINE a == LogView[k]
             b == LogView'[k]
             e == EntryOf(RowOf(r))
  <2>1. a \in Seq(S) /\ DOMAIN a = 1 .. last[r] /\ Len(a) = last[r]
    <3>1. a \in Seq(S) /\ DOMAIN a = 1 .. last[r]
      BY <1>1 DEF ViewFits
    <3> QED BY <1>1, <3>1, LenProperties
  <2>2. b \in Seq(S) /\ DOMAIN b = 1 .. last[r] + 1 /\ Len(b) = last[r] + 1
    <3>1. b \in Seq(S) /\ DOMAIN b = 1 .. last[r] + 1
      BY <1>1 DEF ViewFits
    <3> QED BY <1>1, <3>1, LenProperties
  <2>3. b[last[r] + 1] = e
    BY <1>1 DEF ViewFits, EntryOf
  <2>4. ASSUME NEW n \in 1 .. last[r]
        PROVE  b[n] = a[n]
    <3>1. PICK row \in RowsOf(k) : row.revision = n
      BY <1>1 DEF ViewFits
    <3>2. a[n] = EntryOf(row)
      BY <1>1, <3>1 DEF ViewFits
    <3>3. b[n] = EntryOf(row)
      BY <1>1, <3>1 DEF ViewFits, EntryOf
    <3> QED BY <3>2, <3>3
  <2>5. e \in S
    <3>1. last[r] + 1 \in DOMAIN b
      BY <1>1, <2>2
    <3> HIDE DEF S, b
    <3>2. b[last[r] + 1] \in S
      BY <2>2, <3>1, EntryType
    <3> QED BY <2>3, <3>2
  <2>6. /\ Append(a, e) \in Seq(S)
        /\ Len(Append(a, e)) = last[r] + 1
        /\ Append(a, e)[last[r] + 1] = e
        /\ \A n \in 1 .. last[r] : Append(a, e)[n] = a[n]
    BY <2>1, <2>5, AppendProperties
  <2> HIDE DEF a, b, e, S
  <2>7. \A n \in 1 .. Len(b) : b[n] = Append(a, e)[n]
    BY <1>1, <2>2, <2>3, <2>4, <2>6
  <2>8. b = Append(a, e)
    BY <2>2, <2>6, <2>7, SeqEqual
  <2> QED BY <2>8 DEF a, b, e
<1>3. ASSUME NEW l \in Log \ {k}
      PROVE  LogView'[l] = LogView[l]
  BY <1>3, StoredLog DEF LogView
<1>4. /\ DOMAIN LogView = Log
      /\ LogView = [l \in DOMAIN LogView |-> LogView[l]]
      /\ LogView' = [l \in Log |-> LogView'[l]]
  BY DEF LogView
<1> QED BY <1>1, <1>2, <1>3, <1>4

\* A step that stores no row leaves the log as it is.
LEMMA ViewStays ==
    ASSUME rows' = rows
    PROVE  LogView' = LogView
BY DEF LogView, LastRevision, RevisionsOf, RowsOf

\* A step that stores a row records its submission.
LEMMA CommitIsRecord ==
    ASSUME TypeOK, LogInv, ViewFits, ViewFits', NEW r \in Request,
           pc[r] = "committing", rows' = rows \cup {RowOf(r)}
    PROVE  Abstract!Record(LogOf(r), KeyOf(r))
<1> DEFINE k == LogOf(r)
           base == IF draft[OpOf(r)].revision <= last[r] + 1
                   THEN draft[OpOf(r)].revision ELSE last[r] + 1
<1>1. /\ k \in Log
      /\ last[r] \in Nat
      /\ LastRevision(k) = last[r]
  BY StoredLog, OperationFacts
<1>2. Len(LogView[k]) = last[r]
  BY <1>1, LenProperties DEF ViewFits
<1>3. /\ draft[OpOf(r)].revision \in Nat \ {0}
      /\ over[r] = draft[OpOf(r)].revision .. last[r]
  BY OperationFacts
  DEF LogInv, ReadsAreCurrent, AfterRead, AfterRebase, InsertedPhase,
      IsValidOperation, TypeOK
<1>4. base \in 1 .. Len(LogView[k]) + 1 /\ over[r] = base .. Len(LogView[k])
  BY <1>1, <1>2, <1>3
<1>5. LogView' = [LogView EXCEPT ![k] =
                    Append(@, [submission |-> KeyOf(r), over |-> base .. Len(@)])]
  <2>1. EntryOf(RowOf(r)) = [submission |-> KeyOf(r), over |-> base .. Len(LogView[k])]
    BY <1>4 DEF EntryOf, RowOf
  <2>2. LogView' = [LogView EXCEPT ![k] = Append(@, EntryOf(RowOf(r)))]
    BY ViewGrows
  <2> HIDE DEF base
  <2> QED BY <2>1, <2>2
<1>6. ~ Abstract!Recorded(KeyOf(r))
  <2> SUFFICES ASSUME NEW l \in Log, NEW n \in DOMAIN LogView[l]
               PROVE  LogView[l][n].submission # KeyOf(r)
    BY DEF Abstract!Recorded
  <2>1. PICK row \in RowsOf(l) : row.revision = n
    BY DEF ViewFits
  <2>2. LogView[l][n].submission = KeyOf(row.by)
    <3>1. LogView[l][row.revision] = EntryOf(row)
      BY DEF ViewFits
    <3> QED BY <2>1, <3>1 DEF EntryOf
  <2>3. row \in rows
    BY DEF RowsOf
  <2> QED BY <2>2, <2>3 DEF LogInv, KeysClaimed, InsertedPhase
<1> HIDE DEF base
<1> QED BY <1>4, <1>5, <1>6 DEF Abstract!Record

\* The rows the service commits form the append-only log of RevisionLog.
THEOREM Refinement == Spec => ImplementsRevisionLog
<1>1. Init => Abstract!Init
  <2> SUFFICES ASSUME Init
               PROVE  LogView = [l \in Log |-> << >>]
    BY DEF Abstract!Init
  <2>1. \A l \in Log : LastRevision(l) = 0
    <3>1. \A l \in Log : RevisionsOf(l) = 0 .. 0
      BY DEF Init, RevisionsOf, RowsOf
    <3> QED BY <3>1, MaxOfRange DEF LastRevision
  <2>2. \A l \in Log : LogView[l] = << >>
    BY <2>1 DEF LogView
  <2> QED BY <2>2 DEF LogView
<1>2. TypeOK /\ LogInv /\ ViewFits /\ ViewFits' /\ [Next]_vars => [Abstract!Next]_LogView
  <2> SUFFICES ASSUME TypeOK, LogInv, ViewFits, ViewFits', [Next]_vars
               PROVE  [Abstract!Next]_LogView
    OBVIOUS
  <2>1. CASE rows' = rows
    BY <2>1, ViewStays
  <2>2. CASE rows' # rows
    <3>1. PICK r \in Request : pc[r] = "committing" /\ rows' = rows \cup {RowOf(r)}
      BY <2>2, OnlyCommitsStore
    <3>2. Abstract!Record(LogOf(r), KeyOf(r))
      BY <3>1, CommitIsRecord
    <3> QED BY <3>2, OperationFacts DEF Abstract!Next
  <2> QED BY <2>1, <2>2
<1> QED
  BY <1>1, <1>2, LogInvariant, ViewOfRows, PTL DEF Spec, ImplementsRevisionLog, Abstract!Spec

-----------------------------------------------------------------------------
(***************************************************************************)
(* Theorems about what SubmitOperation tells clients and sockets, and when *)
(* it is true of the stored rows, for every value of the constants.  Some  *)
(* hold without failures only; their statements say so.                    *)
(***************************************************************************)
\* Except for the first revision of a log, an operation is not stored under a
\* smaller number than its client gave it.
THEOREM NotFromTheFuture == Spec => []NeverFromTheFuture
<1>1. LogInv => NeverFromTheFuture
  BY DEF LogInv
<1> QED BY <1>1, LogInvariant, PTL

-----------------------------------------------------------------------------
(***************************************************************************)
(* What the environment and other requests leave of a request.             *)
(***************************************************************************)
Stored(r) == \E row \in rows : row.by = r

\* Where r stands, what it is answered and what it has noted.  Others than r can
\* only stop it, by a crash.
Undisturbed(r) ==
    /\ pc'[r] = pc[r] \/ (pc'[r] = "crashed" /\ Fault # {})
    /\ reply'[r] = reply[r]
    /\ err'[r] = err[r]
    /\ r \in made' <=> r \in made
    /\ r \in mailed' <=> r \in mailed
    /\ last'[r] = last[r]
    /\ rows \subseteq rows'
    /\ \A row \in rows' \ rows : row.by # r

Acts(r) == Handle(r) \/ Send(r) \/ QueryFails(r) \/ CommitFails(r)

\* A step of q is no step of r.
LEMMA ActsElsewhere ==
    ASSUME TypeOK, NEW q \in Request, NEW r \in Request \ {q}, Acts(q)
    PROVE  Undisturbed(r)
<1> USE DEF Goto, Pass, Abort, Reply, Undisturbed, TypeOK
<1>1. CASE \/ FindDocument(q) \/ AcquireLock(q) \/ CheckForSubmitted(q)
           \/ GetDocumentForRevisions(q) \/ CheckPermission(q) \/ GetPane(q)
           \/ ReadLastRevision(q) \/ ApplyToContents(q) \/ Rebase(q)
  BY <1>1 DEF FindDocument, AcquireLock, CheckForSubmitted,
     GetDocumentForRevisions, CheckPermission, GetPane, ReadLastRevision,
     ApplyToContents, Rebase
<1>2. CASE \/ InsertRevision(q) \/ UpdateTitle(q) \/ ReadForTimestamp(q)
           \/ UpdateDocumentTimestamp(q) \/ EmitDocumentUpdated(q)
  BY <1>2 DEF InsertRevision, UpdateTitle, ReadForTimestamp,
     UpdateDocumentTimestamp, EmitDocumentUpdated
<1>3. CASE Broadcast(q) \/ Commit(q)
  BY <1>3 DEF Broadcast, Commit, RowOf
<1>4. CASE Finish(q) \/ HandleOperationError(q)
  BY <1>4 DEF Finish, HandleOperationError, RunHooks
<1>5. CASE Send(q) \/ QueryFails(q) \/ CommitFails(q)
  BY <1>5 DEF Send, QueryFails, CommitFails, RowOf
<1> QED BY <1>1, <1>2, <1>3, <1>4, <1>5 DEF Handle, Acts

\* A step is one of r itself, or leaves r undisturbed.
LEMMA StepOrUndisturbed ==
    ASSUME TypeOK, [Next]_vars, NEW r \in Request
    PROVE  Acts(r) \/ Undisturbed(r)
<1>1. ASSUME NEW q \in Request \ {r}, Acts(q)
      PROVE  Undisturbed(r)
  BY <1>1, ActsElsewhere
<1>2. ASSUME NEW d \in Document, ArchiveDocument(d) \/ UnarchiveDocument(d)
      PROVE  Undisturbed(r)
  BY <1>2 DEF ArchiveDocument, UnarchiveDocument, Undisturbed
<1>3. ASSUME NEW s \in Server, Crash(s)
      PROVE  Undisturbed(r)
  BY <1>3 DEF Crash, Undisturbed
<1>4. CASE UNCHANGED vars
  BY <1>4 DEF vars, Undisturbed
<1> QED BY <1>1, <1>2, <1>3, <1>4 DEF Next, Acts

-----------------------------------------------------------------------------
(***************************************************************************)
(* What an answer says about the rows, whatever fails.                     *)
(***************************************************************************)
Unanswered == {"unsent", "arrived", "locking"} \cup (LockedPhase \ {"committing"})

AnswerOf(r) ==
    /\ pc[r] \in Unanswered => reply[r] = "none"
    /\ pc[r] \in {"committing", "committed"} => reply[r] = "operation"
    /\ Stored(r) => reply[r] = "operation"
    /\ err[r] = "unique" \/ reply[r] = "empty" => \E row \in rows : KeyOf(row.by) = KeyOf(r)

AnswersInv == \A r \in Request : AnswerOf(r)

LEMMA AnswerUndisturbed ==
    ASSUME NEW r \in Request, AnswerOf(r), Undisturbed(r)
    PROVE  AnswerOf(r)'
<1>1. Stored(r)' <=> Stored(r)
  BY DEF Undisturbed, Stored
<1>2. "crashed" \notin Unanswered
  BY DEF Unanswered, LockedPhase, InsertedPhase
<1> QED BY <1>1, <1>2 DEF AnswerOf, Undisturbed

\* Steps that answer nothing, store nothing and note no conflict.
LEMMA AnswerStays ==
    ASSUME NEW r \in Request, AnswerOf(r), pc[r] \in Unanswered,
           pc'[r] \in Unanswered \cup {"handling"},
           reply'[r] = reply[r], rows' = rows,
           err'[r] = err[r] \/ err'[r] # "unique"
    PROVE  AnswerOf(r)'
<1>1. Unanswered \cap {"committing", "committed", "handling"} = {}
  BY DEF Unanswered, LockedPhase, InsertedPhase
<1> QED BY <1>1 DEF AnswerOf, Stored

\* A submission found by checkForSubmittedRevision has the key of the request.
LEMMA SubmittedKey ==
    ASSUME TypeOK, NEW r \in Request, Submitted(r)
    PROVE  \E row \in rows : KeyOf(row.by) = KeyOf(r)
BY DEF Submitted, RowsOf, KeyOf, IsPane

LEMMA AnswerByHandler ==
    ASSUME TypeOK, NEW r \in Request, AnswerOf(r), Handle(r)
    PROVE  AnswerOf(r)'
<1> USE DEF Goto, Pass, Abort, Reply, TypeOK
<1>a. /\ {"unsent", "arrived", "locking"} \subseteq Unanswered
      /\ LockedPhase \ {"committing"} \subseteq Unanswered
      /\ Unanswered \cap {"committing", "committed", "handling", "done", "crashed"} = {}
  BY DEF Unanswered, LockedPhase, InsertedPhase
<1>1. CASE FindDocument(r)
  BY <1>1, <1>a, AnswerStays DEF FindDocument, AnswerOf, Stored, LockedPhase
<1>2. CASE CheckForSubmitted(r)
  <2>1. CASE Pass(r, "checked")
    BY <1>2, <2>1, <1>a, AnswerStays DEF CheckForSubmitted, LockedPhase
  <2>2. CASE ~ Pass(r, "checked")
    <3>1. Submitted(r) /\ pc[r] = "locked" /\ UNCHANGED <<rows, err>>
          /\ reply'[r] = "empty" /\ pc'[r] = "done"
      BY <1>2, <2>2 DEF CheckForSubmitted
    <3>2. ~ Stored(r)
      BY <3>1, <1>a DEF AnswerOf, LockedPhase
    <3> QED BY <3>1, <3>2, <1>a, SubmittedKey DEF AnswerOf, Stored
  <2> QED BY <2>1, <2>2
<1>3. CASE \/ AcquireLock(r) \/ GetDocumentForRevisions(r) \/ CheckPermission(r)
           \/ GetPane(r) \/ ReadLastRevision(r) \/ ApplyToContents(r) \/ Rebase(r)
  <2>1. /\ pc[r] \in {"locking"} \cup (LockedPhase \ {"committing"})
        /\ pc'[r] \in (LockedPhase \ {"committing"}) \cup {"handling"}
        /\ reply' = reply /\ rows' = rows
        /\ err'[r] = err[r] \/ err'[r] # "unique"
    BY <1>3 DEF AcquireLock, GetDocumentForRevisions, CheckPermission, GetPane,
       ReadLastRevision, ApplyToContents, Rebase, LockedPhase
  <2> QED BY <2>1, <1>a, AnswerStays
<1>4. CASE InsertRevision(r)
  <2>1. CASE Abort(r, "unique")
    BY <1>4, <2>1, <1>a DEF InsertRevision, AnswerOf, Stored, LockedPhase
  <2>2. CASE ~ Abort(r, "unique")
    BY <1>4, <2>2, <1>a, AnswerStays DEF InsertRevision, LockedPhase, InsertedPhase
  <2> QED BY <2>1, <2>2
<1>5. CASE \/ UpdateTitle(r) \/ ReadForTimestamp(r) \/ UpdateDocumentTimestamp(r)
           \/ EmitDocumentUpdated(r)
  <2>1. /\ pc[r] \in LockedPhase \ {"committing"}
        /\ pc'[r] \in (LockedPhase \ {"committing"}) \cup {"handling"}
        /\ reply' = reply /\ rows' = rows
        /\ err'[r] = err[r] \/ err'[r] # "unique"
    BY <1>5 DEF UpdateTitle, ReadForTimestamp, UpdateDocumentTimestamp,
       EmitDocumentUpdated, LockedPhase, InsertedPhase
  <2> QED BY <2>1, <1>a, AnswerStays
<1>6. CASE Broadcast(r)
  BY <1>6, <1>a DEF Broadcast, AnswerOf, Stored, LockedPhase, InsertedPhase
<1>7. CASE Commit(r)
  <2>1. /\ reply'[r] = "operation" /\ err'[r] = err[r] /\ pc'[r] = "committed"
        /\ rows \subseteq rows'
    BY <1>7 DEF Commit, AnswerOf
  <2> QED BY <1>7, <2>1, <1>a DEF AnswerOf, Commit
<1>8. CASE Finish(r)
  BY <1>8, <1>a DEF Finish, AnswerOf, Stored
<1>9. CASE HandleOperationError(r)
  <2>1. pc[r] = "handling" /\ pc'[r] = "done" /\ UNCHANGED <<rows, err>>
    BY <1>9 DEF HandleOperationError
  <2>2. CASE reply' = reply
    BY <2>1, <2>2, <1>a DEF AnswerOf, Stored
  <2>3. CASE reply[r] = "none" /\ reply'[r] \in ErrorAnswer(r)
    <3>1. reply'[r] = "empty" => err[r] = "unique"
      BY <2>3 DEF ErrorAnswer
    <3> QED BY <2>1, <2>3, <3>1, <1>a DEF AnswerOf, Stored
  <2> QED BY <1>9, <2>2, <2>3 DEF HandleOperationError
<1> QED BY <1>1, <1>2, <1>3, <1>4, <1>5, <1>6, <1>7, <1>8, <1>9 DEF Handle

LEMMA AnswersStep ==
    ASSUME TypeOK, AnswersInv, [Next]_vars
    PROVE  AnswersInv'
<1> SUFFICES ASSUME NEW r \in Request
             PROVE  AnswerOf(r)'
  BY DEF AnswersInv
<1> USE DEF Goto, Abort, TypeOK
<1>a. /\ {"unsent", "arrived", "locking"} \subseteq Unanswered
      /\ LockedPhase \ {"committing"} \subseteq Unanswered
      /\ Unanswered \cap {"committing", "committed", "handling", "done", "crashed"} = {}
  BY DEF Unanswered, LockedPhase, InsertedPhase
<1>1. CASE Undisturbed(r)
  BY <1>1, AnswerUndisturbed DEF AnswersInv
<1>2. CASE Handle(r)
  BY <1>2, AnswerByHandler DEF AnswersInv
<1>3. CASE Send(r)
  BY <1>3, <1>a, AnswerStays DEF Send, AnswersInv
<1>4. CASE QueryFails(r)
  <2>1. pc[r] \in Unanswered
    BY <1>4, <1>a DEF QueryFails, Querying, LockedPhase, InsertedPhase
  <2>2. pc'[r] = "handling" /\ reply' = reply /\ rows' = rows /\ err'[r] # "unique"
    BY <1>4 DEF QueryFails
  <2> QED BY <2>1, <2>2, AnswerStays DEF AnswersInv
<1>5. CASE CommitFails(r)
  <2>1. /\ reply' = reply /\ err'[r] # "unique" /\ pc'[r] = "handling"
        /\ reply[r] = "operation" /\ rows \subseteq rows'
    BY <1>5 DEF CommitFails, AnswersInv, AnswerOf
  <2> QED BY <2>1, <1>a DEF AnswerOf
<1> QED BY <1>1, <1>2, <1>3, <1>4, <1>5, StepOrUndisturbed DEF Acts

LEMMA AnswersInitially ==
    ASSUME Init
    PROVE  AnswersInv
BY DEF Init, AnswersInv, AnswerOf, Stored

\* What the answer of a request says of the rows stays true of them.
THEOREM AnswersInvariant == Spec => []AnswersInv
<1>1. Init => AnswersInv
  BY AnswersInitially
<1>2. TypeOK /\ AnswersInv /\ [Next]_vars => AnswersInv'
  BY AnswersStep
<1> QED BY <1>1, <1>2, TypeCorrect, PTL DEF Spec

\* An empty 200 is sent only for a submission that is stored, whatever fails.
THEOREM EmptyIsStored == Spec => []EmptyMeansStored
<1>1. AnswersInv => EmptyMeansStored
  BY DEF AnswersInv, AnswerOf, EmptyMeansStored
<1> QED BY <1>1, AnswersInvariant, PTL

\* A request answered 428, 404 or 500 has stored nothing, whatever fails.
THEOREM RefusedIsNotStored == Spec => []RefusedStoresNothing
<1>1. AnswersInv => RefusedStoresNothing
  BY DEF AnswersInv, AnswerOf, Stored, RefusedStoresNothing
<1> QED BY <1>1, AnswersInvariant, PTL

-----------------------------------------------------------------------------
(***************************************************************************)
(* Without failures, a request that got as far as its answer is stored.    *)
(***************************************************************************)
MadeOf(r) ==
    /\ r \in made => pc[r] \in {"created", "committing"} \/ Stored(r)
    /\ pc[r] = "committed" => Stored(r)
    /\ reply[r] = "operation" => pc[r] = "committing" \/ Stored(r)
    /\ r \in mailed => Stored(r)

MadeInv == \A r \in Request : MadeOf(r)

\* Steps that do not lead past the insertion.
LEMMA MadeStays ==
    ASSUME NEW r \in Request, MadeOf(r), pc[r] \notin {"created", "committing"},
           pc'[r] # "committed", rows' = rows,
           reply'[r] = reply[r] \/ reply'[r] # "operation",
           r \in made' => r \in made,
           r \in mailed' => r \in mailed \/ r \in made
    PROVE  MadeOf(r)'
<1>1. Stored(r)' <=> Stored(r)
  BY DEF Stored
<1> QED BY <1>1 DEF MadeOf

LEMMA MadeByHandler ==
    ASSUME TypeOK, NEW r \in Request, MadeOf(r), Handle(r)
    PROVE  MadeOf(r)'
<1> USE DEF Goto, Pass, Abort, Reply, TypeOK
<1>1. CASE \/ FindDocument(r) \/ AcquireLock(r) \/ CheckForSubmitted(r)
           \/ GetDocumentForRevisions(r) \/ CheckPermission(r) \/ GetPane(r)
           \/ ReadLastRevision(r) \/ ApplyToContents(r) \/ Rebase(r)
  <2>1. /\ pc[r] \notin {"created", "committing"} /\ pc'[r] # "committed"
        /\ rows' = rows /\ made' = made /\ mailed' = mailed
        /\ reply'[r] = reply[r] \/ reply'[r] # "operation"
    BY <1>1 DEF FindDocument, AcquireLock, CheckForSubmitted,
       GetDocumentForRevisions, CheckPermission, GetPane, ReadLastRevision,
       ApplyToContents, Rebase
  <2> QED BY <2>1, MadeStays
<1>2. CASE \/ InsertRevision(r) \/ UpdateTitle(r) \/ ReadForTimestamp(r)
           \/ UpdateDocumentTimestamp(r) \/ EmitDocumentUpdated(r)
  <2>1. /\ pc[r] \notin {"created", "committing"} /\ pc'[r] # "committed"
        /\ rows' = rows /\ mailed' = mailed /\ reply' = reply
        /\ pc'[r] = "created" \/ made' = made
    BY <1>2 DEF InsertRevision, UpdateTitle, ReadForTimestamp,
       UpdateDocumentTimestamp, EmitDocumentUpdated
  <2> QED BY <2>1 DEF MadeOf, Stored
<1>3. CASE Broadcast(r)
  BY <1>3 DEF Broadcast, MadeOf, Stored
<1>4. CASE Commit(r)
  <2>1. RowOf(r) \in rows' /\ RowOf(r).by = r
    BY <1>4 DEF Commit, RowOf
  <2>2. Stored(r)'
    BY <2>1 DEF Stored
  <2> QED BY <2>2 DEF MadeOf
<1>5. CASE Finish(r)
  <2>1. Stored(r)'
    BY <1>5 DEF Finish, MadeOf, Stored
  <2> QED BY <2>1 DEF MadeOf
<1>6. CASE HandleOperationError(r)
  <2>1. pc[r] = "handling" /\ pc'[r] = "done" /\ rows' = rows /\ made' = made
    BY <1>6 DEF HandleOperationError
  <2>2. r \in mailed' => r \in mailed \/ r \in made
    BY <1>6 DEF HandleOperationError, RunHooks
  <2>3. reply'[r] = reply[r] \/ reply'[r] # "operation"
    <3>1. "operation" \notin ErrorAnswer(r)
      BY DEF ErrorAnswer
    <3> QED BY <1>6, <3>1 DEF HandleOperationError
  <2> QED BY <2>1, <2>2, <2>3, MadeStays
<1> QED BY <1>1, <1>2, <1>3, <1>4, <1>5, <1>6 DEF Handle

LEMMA MadeStep ==
    ASSUME Fault = {}, TypeOK, MadeInv, [Next]_vars
    PROVE  MadeInv'
<1> SUFFICES ASSUME NEW r \in Request
             PROVE  MadeOf(r)'
  BY DEF MadeInv
<1>1. CASE Undisturbed(r)
  BY <1>1 DEF Undisturbed, MadeInv, MadeOf, Stored
<1>2. CASE Handle(r)
  BY <1>2, MadeByHandler DEF MadeInv
<1>3. CASE Send(r)
  BY <1>3, MadeStays DEF Send, Goto, TypeOK, MadeInv
<1>4. ~ QueryFails(r) /\ ~ CommitFails(r)
  BY DEF QueryFails, CommitFails
<1> QED BY <1>1, <1>2, <1>3, <1>4, StepOrUndisturbed DEF Acts

\* Without failures, a request answered with its operation, or announced to the
\* mail and thumbnail queues, is stored or about to be.
THEOREM AcknowledgedOnceStored ==
    ASSUME Fault = {}
    PROVE  Spec => []AcknowledgedIsStored
<1>1. Init => MadeInv
  BY DEF Init, MadeInv, MadeOf
<1>2. TypeOK /\ MadeInv /\ [Next]_vars => MadeInv'
  BY MadeStep
<1>3. MadeInv => AcknowledgedIsStored
  BY DEF MadeInv, MadeOf, Stored, AcknowledgedIsStored
<1> QED BY <1>1, <1>2, <1>3, TypeCorrect, PTL DEF Spec

-----------------------------------------------------------------------------
(***************************************************************************)
(* The broadcasts.  A transaction announces its operation before it        *)
(* commits; the number may be announced again by the next one when it does *)
(* not, but never by another one while it still may.                       *)
(***************************************************************************)
\* The last operation announced in s under number n is that of r.
Latest(s, n, r) ==
    \E i \in DOMAIN s :
        /\ s[i].revision = n
        /\ s[i].by = r
        /\ \A j \in DOMAIN s : s[j].revision = n => j <= i

LatestInv ==
    /\ \A row \in rows : Latest(emitted[LogOf(row.by)], row.revision, row.by)
    /\ \A r \in Request :
          pc[r] = "committing" => Latest(emitted[LogOf(r)], last[r] + 1, r)

\* Only Broadcast announces, and only it leads to the commit.
LEMMA OnlyBroadcastAnnounces ==
    ASSUME TypeOK, [Next]_vars
    PROVE  \/ /\ emitted' = emitted
              /\ \A q \in Request :
                    pc'[q] = "committing" => pc[q] = "committing" /\ last'[q] = last[q]
           \/ \E r \in Request : Broadcast(r)
<1> USE DEF Goto, Pass, Abort, TypeOK
<1> DEFINE Quiet ==
              /\ emitted' = emitted
              /\ \A q \in Request :
                    pc'[q] = "committing" => pc[q] = "committing" /\ last'[q] = last[q]
<1>1. ASSUME NEW r \in Request, Handle(r), ~ Broadcast(r)
      PROVE  Quiet
  <2>1. CASE \/ FindDocument(r) \/ AcquireLock(r) \/ CheckForSubmitted(r)
             \/ GetDocumentForRevisions(r) \/ CheckPermission(r) \/ GetPane(r)
             \/ ReadLastRevision(r) \/ ApplyToContents(r) \/ Rebase(r)
    BY <2>1 DEF FindDocument, AcquireLock, CheckForSubmitted,
       GetDocumentForRevisions, CheckPermission, GetPane, ReadLastRevision,
       ApplyToContents, Rebase
  <2>2. CASE \/ InsertRevision(r) \/ UpdateTitle(r) \/ ReadForTimestamp(r)
             \/ UpdateDocumentTimestamp(r) \/ EmitDocumentUpdated(r)
    BY <2>2 DEF InsertRevision, UpdateTitle, ReadForTimestamp,
       UpdateDocumentTimestamp, EmitDocumentUpdated
  <2>3. CASE Commit(r) \/ Finish(r) \/ HandleOperationError(r)
    BY <2>3 DEF Commit, Finish, HandleOperationError
  <2> QED BY <1>1, <2>1, <2>2, <2>3 DEF Handle
<1>2. ASSUME NEW r \in Request, Send(r) \/ QueryFails(r) \/ CommitFails(r)
      PROVE  Quiet
  BY <1>2 DEF Send, QueryFails, CommitFails
<1>3. ASSUME NEW d \in Document, ArchiveDocument(d) \/ UnarchiveDocument(d)
      PROVE  Quiet
  BY <1>3 DEF ArchiveDocument, UnarchiveDocument
<1>4. ASSUME NEW s \in Server, Crash(s)
      PROVE  Quiet
  BY <1>4 DEF Crash
<1>5. CASE UNCHANGED vars
  BY <1>5 DEF vars
<1> QED BY <1>1, <1>2, <1>3, <1>4, <1>5 DEF Next

\* What Broadcast does to the announcements on its log.
LEMMA Announced ==
    ASSUME TypeOK, NEW r \in Request, Broadcast(r), NEW n, n = Len(emitted[LogOf(r)])
    PROVE  /\ n \in Nat
           /\ DOMAIN emitted[LogOf(r)] = 1 .. n
           /\ DOMAIN emitted'[LogOf(r)] = 1 .. n + 1
           /\ \A i \in 1 .. n : emitted'[LogOf(r)][i] = emitted[LogOf(r)][i]
           /\ emitted'[LogOf(r)][n + 1].by = r
           /\ emitted'[LogOf(r)][n + 1].revision = last[r] + 1
           /\ \A k \in Log \ {LogOf(r)} : emitted'[k] = emitted[k]
<1> DEFINE s == emitted[LogOf(r)]
           S == [by : Request, revision : Nat \ {0}]
           e == [by |-> r, revision |-> last[r] + 1]
<1>1. LogOf(r) \in Log
  BY OperationFacts
<1>2. s \in Seq(S)
  BY <1>1 DEF TypeOK
<1>3. e \in S /\ e.by = r /\ e.revision = last[r] + 1
  BY DEF TypeOK
<1>4. /\ emitted'[LogOf(r)] = Append(s, e)
      /\ \A k \in Log \ {LogOf(r)} : emitted'[k] = emitted[k]
  BY <1>1 DEF Broadcast, TypeOK
<1> HIDE DEF S, e, s
<1>5. /\ Append(s, e) \in Seq(S)
      /\ Len(Append(s, e)) = Len(s) + 1
      /\ Append(s, e)[Len(s) + 1] = e
      /\ \A i \in 1 .. Len(s) : Append(s, e)[i] = s[i]
  BY <1>2, <1>3, AppendProperties
<1>6. Len(s) \in Nat /\ DOMAIN s = 1 .. Len(s)
  BY <1>2, LenProperties
<1>7. DOMAIN Append(s, e) = 1 .. Len(s) + 1
  BY <1>5, LenProperties
<1> QED BY <1>3, <1>4, <1>5, <1>6, <1>7 DEF s

\* An announcement under another number takes the last place from nobody.
LEMMA LatestKept ==
    ASSUME TypeOK, NEW r \in Request, Broadcast(r),
           NEW l \in Log, NEW n, NEW q, Latest(emitted[l], n, q),
           l = LogOf(r) => n # last[r] + 1
    PROVE  Latest(emitted'[l], n, q)
<1>1. CASE l # LogOf(r)
  <2>1. emitted'[l] = emitted[l]
    BY <1>1, Announced
  <2> QED BY <2>1
<1>2. CASE l = LogOf(r)
  <2>1. PICK k : k = Len(emitted[l])
    OBVIOUS
  <2>2. /\ k \in Nat
        /\ DOMAIN emitted[l] = 1 .. k
        /\ DOMAIN emitted'[l] = 1 .. k + 1
        /\ \A i \in 1 .. k : emitted'[l][i] = emitted[l][i]
        /\ emitted'[l][k + 1].revision = last[r] + 1
    BY <1>2, <2>1, Announced
  <2>3. PICK i \in 1 .. k :
           /\ emitted[l][i].revision = n
           /\ emitted[l][i].by = q
           /\ \A j \in 1 .. k : emitted[l][j].revision = n => j <= i
    BY <2>2 DEF Latest
  <2>4. \A j \in 1 .. k + 1 : j \in 1 .. k \/ j = k + 1
    BY <2>2
  <2>5. \A j \in 1 .. k + 1 : emitted'[l][j].revision = n => j <= i
    BY <1>2, <2>2, <2>3, <2>4
  <2>6. i \in 1 .. k + 1
    BY <2>2
  <2> QED BY <2>2, <2>3, <2>5, <2>6 DEF Latest
<1> QED BY <1>1, <1>2

LEMMA LatestIsOwn ==
    ASSUME TypeOK, NEW r \in Request, Broadcast(r)
    PROVE  Latest(emitted'[LogOf(r)], last[r] + 1, r)
<1>1. PICK k : k = Len(emitted[LogOf(r)])
  OBVIOUS
<1>2. /\ k \in Nat
      /\ DOMAIN emitted'[LogOf(r)] = 1 .. k + 1
      /\ emitted'[LogOf(r)][k + 1].by = r
      /\ emitted'[LogOf(r)][k + 1].revision = last[r] + 1
  BY <1>1, Announced
<1>3. k + 1 \in 1 .. k + 1 /\ \A j \in 1 .. k + 1 : j <= k + 1
  BY <1>2
<1> QED BY <1>2, <1>3 DEF Latest

LEMMA LatestStep ==
    ASSUME TypeOK, LogInv, LatestInv, [Next]_vars
    PROVE  LatestInv'
<1>1. ASSUME NEW r \in Request, Broadcast(r)
      PROVE  LatestInv'
  <2>1. /\ rows' = rows /\ last' = last
        /\ pc[r] = "created"
        /\ \A q \in Request \ {r} : pc'[q] = pc[q]
    BY <1>1 DEF Broadcast, Goto, TypeOK
  <2>2. pc[r] \in AfterRead /\ pc[r] \in LockedPhase
    BY <2>1 DEF AfterRead, LockedPhase, InsertedPhase
  <2>3. ASSUME NEW row \in rows
        PROVE  Latest(emitted'[LogOf(row.by)], row.revision, row.by)
    <3>1. row.by \in Request /\ row.revision \in Nat
      BY DEF TypeOK, Row
    <3>2. LogOf(row.by) = LogOf(r) => row.revision # last[r] + 1
      <4>1. last[r] \in Nat /\ RevisionsOf(LogOf(r)) = 0 .. last[r]
        BY <2>2, OperationFacts
        DEF LogInv, ReadsAreCurrent, RevisionsContiguous, TypeOK
      <4>2. LogOf(row.by) = LogOf(r) => row.revision \in RevisionsOf(LogOf(r))
        BY DEF RevisionsOf, RowsOf
      <4> QED BY <4>1, <4>2
    <3>3. Latest(emitted[LogOf(row.by)], row.revision, row.by)
      BY DEF LatestInv
    <3> QED BY <1>1, <3>1, <3>2, <3>3, OperationFacts, LatestKept
  <2>4. ASSUME NEW q \in Request, pc'[q] = "committing"
        PROVE  Latest(emitted'[LogOf(q)], last[q] + 1, q)
    <3>1. CASE q = r
      BY <1>1, <3>1, LatestIsOwn
    <3>2. CASE q # r
      <4>1. pc[q] = "committing" /\ pc[q] \in LockedPhase
        BY <2>1, <2>4, <3>2 DEF LockedPhase, InsertedPhase
      <4>2. LogOf(q) # LogOf(r)
        BY <2>2, <3>2, <4>1 DEF LogInv, LockExclusive
      <4>3. Latest(emitted[LogOf(q)], last[q] + 1, q)
        BY <4>1 DEF LatestInv
      <4> QED BY <1>1, <4>2, <4>3, OperationFacts, LatestKept
    <3> QED BY <3>1, <3>2
  <2> QED BY <2>1, <2>3, <2>4 DEF LatestInv
<1>2. CASE /\ emitted' = emitted
           /\ \A q \in Request :
                 pc'[q] = "committing" => pc[q] = "committing" /\ last'[q] = last[q]
  <2>1. \A q \in Request :
           pc'[q] = "committing" => Latest(emitted'[LogOf(q)], last'[q] + 1, q)
    BY <1>2 DEF LatestInv
  <2>2. ASSUME NEW row \in rows'
        PROVE  Latest(emitted[LogOf(row.by)], row.revision, row.by)
    <3>1. CASE row \in rows
      BY <3>1 DEF LatestInv
    <3>2. CASE row \notin rows
      <4>1. PICK r \in Request : pc[r] = "committing" /\ rows' = rows \cup {RowOf(r)}
        BY <3>2, OnlyCommitsStore
      <4>2. row = RowOf(r)
        BY <3>2, <4>1
      <4> QED BY <4>1, <4>2 DEF LatestInv, RowOf
    <3> QED BY <3>1, <3>2
  <2> QED BY <1>2, <2>1, <2>2 DEF LatestInv
<1> QED BY <1>1, <1>2, OnlyBroadcastAnnounces

\* The last operation announced under the number of a committed revision is that
\* revision, whatever was announced by transactions that did not commit.
THEOREM LastAnnouncedIsStored == Spec => []LatestBroadcastIsStored
<1>1. Init => LatestInv
  BY DEF Init, LatestInv
<1>2. TypeOK /\ LogInv /\ LatestInv /\ [Next]_vars => LatestInv'
  BY LatestStep
<1>3. TypeOK /\ LatestInv => LatestBroadcastIsStored
  <2> SUFFICES ASSUME TypeOK, LatestInv, NEW row \in rows
               PROVE  LET l == LogOf(row.by)
                          same == {i \in DOMAIN emitted[l] :
                                     emitted[l][i].revision = row.revision}
                      IN  same # {} /\ emitted[l][Max(same)].by = row.by
    BY DEF LatestBroadcastIsStored
  <2> DEFINE s == emitted[LogOf(row.by)]
             same == {i \in DOMAIN s : s[i].revision = row.revision}
  <2>1. PICK i \in same : s[i].by = row.by /\ \A j \in same : j <= i
    BY DEF LatestInv, Latest
  <2>2. same \subseteq Nat
    <3>1. LogOf(row.by) \in Log
      BY OperationFacts DEF TypeOK, Row
    <3>2. s \in Seq([by : Request, revision : Nat \ {0}])
      BY <3>1 DEF TypeOK
    <3> QED BY <3>2
  <2>3. Max(same) = i
    <3> HIDE DEF same
    <3>1. \A x \in same : i >= x
      BY <2>1, <2>2
    <3>2. \A m \in same : (\A x \in same : m >= x) => m = i
      BY <2>1, <2>2
    <3> QED BY <3>1, <3>2 DEF Max
  <2> QED BY <2>1, <2>3
<1> QED BY <1>1, <1>2, <1>3, LogInvariant, PTL DEF Spec

-----------------------------------------------------------------------------
(***************************************************************************)
(* Authors.  What a client has seen is stored, or is announced by a        *)
(* transaction that will store it; without failures the latter comes true  *)
(* before anybody else gets the advisory lock.                             *)
(***************************************************************************)
\* Revision n of l is o, or is about to be.
Settled(l, n, o) ==
    \/ \E row \in RowsOf(l) : row.revision = n /\ OpOf(row.by) = o
    \/ \E q \in Request :
          LogOf(q) = l /\ pc[q] = "committing" /\ last[q] + 1 = n /\ OpOf(q) = o

AnnouncedSettled ==
    \A l \in Log : \A i \in DOMAIN emitted[l] :
        Settled(l, emitted[l][i].revision, OpOf(emitted[l][i].by))

SeenSettled ==
    \A o \in Operation :
        Sent(o) /\ "stray" \notin o.traits =>
            \A n \in DOMAIN draft[o].seen :
                draft[o].seen[n] # o /\ Settled(o.log, n, draft[o].seen[n])

AuthorsInv == AnnouncedSettled /\ SeenSettled /\ AuthoredOnLog

LEMMA RowsOnlyGrow ==
    ASSUME TypeOK, [Next]_vars
    PROVE  /\ rows \subseteq rows'
           /\ \A l : RowsOf(l) \subseteq RowsOf(l)'
BY OnlyCommitsStore DEF RowsOf

\* Without failures, what is about to be stored is stored next.
LEMMA SettledStays ==
    ASSUME Fault = {}, TypeOK, [Next]_vars,
           NEW l \in Log, NEW n, NEW o, Settled(l, n, o)
    PROVE  Settled(l, n, o)'
<1>1. CASE \E row \in RowsOf(l) : row.revision = n /\ OpOf(row.by) = o
  BY <1>1, RowsOnlyGrow DEF Settled
<1>2. CASE \E q \in Request :
             LogOf(q) = l /\ pc[q] = "committing" /\ last[q] + 1 = n /\ OpOf(q) = o
  <2>1. PICK q \in Request :
           LogOf(q) = l /\ pc[q] = "committing" /\ last[q] + 1 = n /\ OpOf(q) = o
    BY <1>2
  <2>2. CASE Undisturbed(q)
    BY <2>1, <2>2 DEF Undisturbed, Settled
  <2>3. CASE Commit(q)
    <3>1. /\ RowOf(q) \in rows'
          /\ RowOf(q).by = q
          /\ RowOf(q).revision = last[q] + 1
      BY <2>3 DEF Commit, RowOf
    <3>2. RowOf(q) \in RowsOf(l)'
      BY <2>1, <3>1 DEF RowsOf
    <3> QED BY <2>1, <3>1, <3>2 DEF Settled
  <2>4. CASE Acts(q)
    <3>1. ~ QueryFails(q) /\ ~ CommitFails(q)
      BY DEF QueryFails, CommitFails
    <3>2. Handle(q) => Commit(q)
      BY <2>1 DEF Handle, FindDocument, AcquireLock, CheckForSubmitted,
         GetDocumentForRevisions, CheckPermission, GetPane, ReadLastRevision,
         ApplyToContents, Rebase, InsertRevision, UpdateTitle, ReadForTimestamp,
         UpdateDocumentTimestamp, EmitDocumentUpdated, Broadcast, Finish,
         HandleOperationError
    <3>3. ~ Send(q)
      BY <2>1 DEF Send
    <3> QED BY <2>3, <2>4, <3>1, <3>2, <3>3 DEF Acts
  <2> QED BY <2>2, <2>4, StepOrUndisturbed
<1> QED BY <1>1, <1>2 DEF Settled

LEMMA AnnouncedStep ==
    ASSUME Fault = {}, TypeOK, AnnouncedSettled, [Next]_vars
    PROVE  AnnouncedSettled'
<1>1. \A l \in Log : \A i \in DOMAIN emitted[l] :
         Settled(l, emitted[l][i].revision, OpOf(emitted[l][i].by))
  BY DEF AnnouncedSettled
<1> SUFFICES ASSUME NEW l \in Log, NEW i \in DOMAIN emitted'[l]
             PROVE  Settled(l, emitted[l][i].revision, OpOf(emitted[l][i].by))'
  BY DEF AnnouncedSettled
<1> DEFINE e == emitted'[l][i]
<1>2. CASE i \in DOMAIN emitted[l] /\ e = emitted[l][i]
  <2>1. \A n, o : Settled(l, n, o) => Settled(l, n, o)'
    BY SettledStays
  <2>2. PICK n, o : n = e.revision /\ o = OpOf(e.by)
    OBVIOUS
  <2>3. Settled(l, n, o)'
    BY <1>1, <1>2, <2>1, <2>2
  <2> QED BY <2>2, <2>3 DEF Settled, OpOf
<1>3. CASE emitted' = emitted
  BY <1>2, <1>3
<1>4. ASSUME NEW r \in Request, Broadcast(r)
      PROVE  Settled(l, emitted[l][i].revision, OpOf(emitted[l][i].by))'
  <2>1. CASE l # LogOf(r)
    <3>1. emitted'[l] = emitted[l]
      BY <1>4, <2>1, Announced
    <3> QED BY <1>2, <3>1
  <2>2. CASE l = LogOf(r)
    <3>1. PICK k : k = Len(emitted[l])
      OBVIOUS
    <3>2. /\ k \in Nat
          /\ DOMAIN emitted[l] = 1 .. k
          /\ i \in 1 .. k + 1
          /\ i \in 1 .. k => emitted'[l][i] = emitted[l][i]
          /\ i = k + 1 => e.by = r /\ e.revision = last[r] + 1
      BY <1>4, <2>2, <3>1, Announced
    <3>3. CASE i \in 1 .. k
      BY <1>2, <3>2, <3>3
    <3>4. CASE i = k + 1
      <4>1. pc'[r] = "committing" /\ last' = last
        BY <1>4 DEF Broadcast, Goto, TypeOK
      <4> QED BY <2>2, <3>2, <3>4, <4>1 DEF Settled, OpOf
    <3> QED BY <3>2, <3>3, <3>4
  <2> QED BY <2>1, <2>2
<1> QED BY <1>3, <1>4, OnlyBroadcastAnnounces

\* Only sending an operation gives it a draft, and only when it was not sent.
LEMMA OnlySendDrafts ==
    ASSUME Fault = {}, TypeOK, [Next]_vars, NEW o \in Operation
    PROVE  /\ Sent(o) => draft'[o] = draft[o]
           /\ Sent(o)' /\ ~ Sent(o) =>
                \E d \in Drafts(o) : draft'[o] = d
<1>1. \/ draft' = draft
      \/ \E r \in Request : Send(r)
  BY ZenonT(30) DEF Next, vars, Handle, FindDocument, AcquireLock, CheckForSubmitted,
     GetDocumentForRevisions, CheckPermission, GetPane, ReadLastRevision,
     ApplyToContents, Rebase, InsertRevision, UpdateTitle, ReadForTimestamp,
     UpdateDocumentTimestamp, EmitDocumentUpdated, Broadcast, Commit, Finish,
     HandleOperationError, QueryFails, CommitFails, ArchiveDocument,
     UnarchiveDocument, Crash, Pass, Abort
<1>2. Sent(o) => draft'[o] = draft[o]
  BY <1>1 DEF Send, TypeOK
<1>3. ASSUME Sent(o)', ~ Sent(o)
      PROVE  \E d \in Drafts(o) : draft'[o] = d
  <2>1. PICK q \in Request : OpOf(q) = o /\ pc'[q] # "unsent" /\ pc[q] = "unsent"
    BY <1>3 DEF Sent, OpOf
  <2>2. ~ Undisturbed(q)
    BY <2>1 DEF Undisturbed
  <2>3. ~ Handle(q)
    BY <2>1 DEF Handle, FindDocument, AcquireLock, CheckForSubmitted,
       GetDocumentForRevisions, CheckPermission, GetPane, ReadLastRevision,
       ApplyToContents, Rebase, InsertRevision, UpdateTitle, ReadForTimestamp,
       UpdateDocumentTimestamp, EmitDocumentUpdated, Broadcast, Commit, Finish,
       HandleOperationError
  <2>4. ~ QueryFails(q) /\ ~ CommitFails(q)
    BY DEF QueryFails, CommitFails
  <2>5. Send(q)
    BY <2>2, <2>3, <2>4, StepOrUndisturbed DEF Acts
  <2> QED BY <1>3, <2>1, <2>5 DEF Send, TypeOK
<1> QED BY <1>2, <1>3

\* What is settled comes from a request that was sent.
LEMMA SettledSent ==
    ASSUME TypeOK, LogInv, NEW l, NEW n, NEW o, Settled(l, n, o)
    PROVE  Sent(o)
<1>1. \A row \in RowsOf(l) : row.by \in Request /\ pc[row.by] # "unsent"
  BY DEF RowsOf, TypeOK, Row, LogInv, RowsAreSent
<1> QED BY <1>1 DEF Settled, Sent, OpOf

\* A client that numbers its operation has seen what is settled.
LEMMA KnownIsSettled ==
    ASSUME AnnouncedSettled, NEW l \in Log, NEW n, NEW o \in Known(l, n)
    PROVE  Settled(l, n, o)
<1>1. CASE o \in {OpOf(row.by) : row \in {x \in RowsOf(l) : x.revision = n}}
  BY <1>1 DEF Settled
<1>2. CASE o \in {OpOf(emitted[l][i].by) :
                    i \in {j \in DOMAIN emitted[l] : emitted[l][j].revision = n}}
  BY <1>2 DEF AnnouncedSettled
<1> QED BY <1>1, <1>2 DEF Known

LEMMA DraftsSeen ==
    ASSUME NEW o, "stray" \notin o.traits, NEW d \in Drafts(o), NEW n \in DOMAIN d.seen
    PROVE  d.seen[n] \in Known(o.log, n)
<1> DEFINE numbers == RevisionsOf(o.log)
                        \cup {emitted[o.log][i].revision : i \in DOMAIN emitted[o.log]}
<1>1. PICK k \in numbers :
         d \in {[revision |-> k + 1, seen |-> s] :
                     s \in {f \in [1 .. k -> Operation] :
                              \A m \in 1 .. k : f[m] \in Known(o.log, m)}}
  BY Zenon DEF Drafts
<1>2. PICK s \in [1 .. k -> Operation] :
         /\ d = [revision |-> k + 1, seen |-> s]
         /\ \A m \in 1 .. k : s[m] \in Known(o.log, m)
  BY <1>1
<1>3. d.seen = s /\ DOMAIN s = 1 .. k
  BY <1>2
<1> QED BY <1>2, <1>3

LEMMA SeenStep ==
    ASSUME Fault = {}, TypeOK, LogInv, AnnouncedSettled, SeenSettled, [Next]_vars
    PROVE  SeenSettled'
<1> SUFFICES ASSUME NEW o \in Operation, Sent(o)', "stray" \notin o.traits,
                    NEW n \in DOMAIN draft'[o].seen
             PROVE  draft'[o].seen[n] # o /\ Settled(o.log, n, draft[o].seen[n])'
  BY DEF SeenSettled
<1>1. o.log \in Log
  BY OperationAssumption DEF OperationRecord
<1>2. PICK x : x = draft'[o].seen[n]
  OBVIOUS
<1>3. x # o /\ Settled(o.log, n, x)
  <2>1. CASE Sent(o)
    BY <1>2, <2>1, OnlySendDrafts DEF SeenSettled
  <2>2. CASE ~ Sent(o)
    <3>1. PICK d \in Drafts(o) : draft'[o] = d
      BY <2>2, OnlySendDrafts
    <3>2. x \in Known(o.log, n)
      BY <1>2, <3>1, DraftsSeen
    <3>3. Settled(o.log, n, x)
      BY <1>1, <3>2, KnownIsSettled
    <3> QED BY <2>2, <3>3, SettledSent
  <2> QED BY <2>1, <2>2
<1>4. Settled(o.log, n, x)'
  BY <1>1, <1>3, SettledStays
<1> QED BY <1>2, <1>3, <1>4 DEF Settled

\* The commit of an operation finds what its author had seen stored: whoever was
\* about to store it on the same log has ended, for it held the same lock.
LEMMA SeenIsStored ==
    ASSUME TypeOK, LogInv, SeenSettled, NEW r \in Request, pc[r] = "committing",
           "stray" \notin OpOf(r).traits, NEW n \in DOMAIN draft[OpOf(r)].seen
    PROVE  \E x \in RowsOf(LogOf(r)) :
              x.revision = n /\ OpOf(x.by) = draft[OpOf(r)].seen[n]
<1> DEFINE o == OpOf(r)
<1>1. o \in Operation /\ Sent(o) /\ o.log = LogOf(r)
  BY OperationFacts DEF Sent, OpOf, LogOf
<1>2. draft[o].seen[n] # o /\ Settled(LogOf(r), n, draft[o].seen[n])
  BY <1>1 DEF SeenSettled
<1>3. \A q \in Request : LogOf(q) = LogOf(r) /\ pc[q] = "committing" => q = r
  BY DEF LogInv, LockExclusive, LockedPhase, InsertedPhase
<1> QED BY <1>2, <1>3 DEF Settled

LEMMA AuthoredStep ==
    ASSUME Fault = {}, TypeOK, LogInv, SeenSettled, AuthoredOnLog, [Next]_vars
    PROVE  AuthoredOnLog'
<1> SUFFICES ASSUME NEW row \in rows', "stray" \notin OpOf(row.by).traits,
                    NEW n \in DOMAIN draft'[OpOf(row.by)].seen
             PROVE  \E x \in RowsOf(OpOf(row.by).log)' :
                       x.revision = n /\ OpOf(x.by) = draft'[OpOf(row.by)].seen[n]
  BY DEF AuthoredOnLog, OpOf
<1>1. CASE row \in rows
  <2>1. OpOf(row.by) \in Operation /\ Sent(OpOf(row.by))
    BY <1>1, OperationFacts DEF TypeOK, Row, LogInv, RowsAreSent, Sent, OpOf
  <2>2. draft'[OpOf(row.by)] = draft[OpOf(row.by)]
    BY <2>1, OnlySendDrafts
  <2> QED BY <1>1, <2>2, RowsOnlyGrow DEF AuthoredOnLog
<1>2. CASE row \notin rows
  <2>1. PICK r \in Request : pc[r] = "committing" /\ rows' = rows \cup {RowOf(r)}
    BY <1>2, OnlyCommitsStore
  <2>2. row.by = r
    BY <1>2, <2>1 DEF RowOf
  <2>3. OpOf(r) \in Operation /\ Sent(OpOf(r)) /\ OpOf(r).log = LogOf(r)
    BY <2>1, OperationFacts DEF Sent, OpOf, LogOf
  <2>4. draft'[OpOf(r)] = draft[OpOf(r)]
    BY <2>3, OnlySendDrafts
  <2> QED BY <2>1, <2>2, <2>3, <2>4, SeenIsStored, RowsOnlyGrow
<1> QED BY <1>1, <1>2

\* Without failures, an operation is stored on top of exactly the revisions its
\* author had seen, although clients are told of operations before the commit.
THEOREM AuthoredOnStored ==
    ASSUME Fault = {}
    PROVE  Spec => []AuthoredOnLog
<1>1. Init => AuthorsInv
  BY DEF Init, AuthorsInv, AnnouncedSettled, SeenSettled, AuthoredOnLog, Sent
<1>2. TypeOK /\ LogInv /\ AuthorsInv /\ [Next]_vars => AuthorsInv'
  BY AnnouncedStep, SeenStep, AuthoredStep DEF AuthorsInv
<1>3. AuthorsInv => AuthoredOnLog
  BY DEF AuthorsInv
<1> QED BY <1>1, <1>2, <1>3, LogInvariant, PTL DEF Spec

-----------------------------------------------------------------------------
(***************************************************************************)
(* The connections of a process.                                           *)
(***************************************************************************)
\* A step of a request moves it alone, and gets into a transaction only by Send.
MovesAlone(r) ==
    /\ \A q \in Request \ {r} : pc'[q] = pc[q] /\ err'[q] = err[q]
    /\ InTransaction(pc'[r]) => InTransaction(pc[r])

LEMMA StepsMoveAlone ==
    ASSUME TypeOK, NEW r \in Request, Handle(r) \/ QueryFails(r) \/ CommitFails(r)
    PROVE  MovesAlone(r)
<1> USE DEF Goto, Pass, Abort, TypeOK, InTransaction, LockedPhase, InsertedPhase
<1>1. CASE FindDocument(r) \/ AcquireLock(r) \/ CheckForSubmitted(r)
  BY <1>1 DEF FindDocument, AcquireLock, CheckForSubmitted, MovesAlone
<1>2. CASE \/ GetDocumentForRevisions(r) \/ CheckPermission(r) \/ GetPane(r)
           \/ ReadLastRevision(r) \/ ApplyToContents(r) \/ Rebase(r)
  BY <1>2 DEF GetDocumentForRevisions, CheckPermission, GetPane, ReadLastRevision,
     ApplyToContents, Rebase, MovesAlone
<1>3. CASE InsertRevision(r) \/ UpdateTitle(r)
  BY <1>3 DEF InsertRevision, UpdateTitle, MovesAlone
<1>4. CASE \/ ReadForTimestamp(r) \/ UpdateDocumentTimestamp(r)
           \/ EmitDocumentUpdated(r) \/ Broadcast(r)
  BY <1>4 DEF ReadForTimestamp, UpdateDocumentTimestamp, EmitDocumentUpdated, Broadcast,
     MovesAlone
<1>5. CASE Commit(r) \/ Finish(r) \/ HandleOperationError(r)
  BY <1>5 DEF Commit, Finish, HandleOperationError, MovesAlone
<1>6. CASE QueryFails(r) \/ CommitFails(r)
  BY <1>6 DEF QueryFails, CommitFails, MovesAlone
<1> QED BY <1>1, <1>2, <1>3, <1>4, <1>5, <1>6 DEF Handle

\* What ConnectionsKept says of each client, and of each process.
Fits(c) ==
    /\ has[c] \subseteq Needs(c)
    /\ "query" \in has[c] => has[c] = Needs(c)
    /\ c \in Request /\ InTransaction(pc[c]) /\ pc[c] # "arrived" => "transaction" \in has[c]

HasType ==
    /\ has \in [Client -> SUBSET Kind]
    /\ visiting \subseteq Visitor

Bounded ==
    \A s \in Server :
        /\ IsFiniteSet(TransactionsAt(s))
        /\ IsFiniteSet(QueriesAt(s))
        /\ Cardinality(TransactionsAt(s)) + Cardinality(QueriesAt(s)) <= PoolMax

PoolInv == HasType /\ (\A c \in Client : Fits(c)) /\ Bounded

LEMMA ClientFacts ==
    ASSUME NEW c \in Client
    PROVE  /\ Host(c) \in Server
           /\ c \in Visitor <=> c \notin Request
           /\ Needs(c) \subseteq Kind
<1>1. Host(c) \in Server /\ (c \in Visitor <=> c \notin Request)
  BY PoolAssumption, RequestAssumption DEF Client, Host
<1>2. Needs(c) \subseteq Kind
  BY DEF Needs, Kind
<1> QED BY <1>1, <1>2

\* Giving connections back keeps every process within its limit.
LEMMA FewerFit ==
    ASSUME Bounded, \A c \in Client : has'[c] \subseteq has[c]
    PROVE  Bounded'
<1> SUFFICES ASSUME NEW s \in Server
             PROVE  /\ IsFiniteSet(TransactionsAt(s)')
                    /\ IsFiniteSet(QueriesAt(s)')
                    /\ Cardinality(TransactionsAt(s)') + Cardinality(QueriesAt(s)') <= PoolMax
  BY Zenon DEF Bounded
<1>1. TransactionsAt(s)' \subseteq TransactionsAt(s) /\ QueriesAt(s)' \subseteq QueriesAt(s)
  BY DEF TransactionsAt, QueriesAt, Host
<1>2. /\ IsFiniteSet(TransactionsAt(s)) /\ IsFiniteSet(QueriesAt(s))
      /\ Cardinality(TransactionsAt(s)) + Cardinality(QueriesAt(s)) <= PoolMax
  BY DEF Bounded
<1>3. /\ IsFiniteSet(TransactionsAt(s)')
      /\ Cardinality(TransactionsAt(s)') <= Cardinality(TransactionsAt(s))
  BY <1>1, <1>2, FS_Subset
<1>4. /\ IsFiniteSet(QueriesAt(s)')
      /\ Cardinality(QueriesAt(s)') <= Cardinality(QueriesAt(s))
  BY <1>1, <1>2, FS_Subset
<1>5. /\ Cardinality(TransactionsAt(s)) \in Nat /\ Cardinality(QueriesAt(s)) \in Nat
      /\ Cardinality(TransactionsAt(s)') \in Nat /\ Cardinality(QueriesAt(s)') \in Nat
  BY <1>2, <1>3, <1>4, FS_CardinalityType
<1> QED BY <1>2, <1>3, <1>4, <1>5, PoolAssumption

\* One more connection is handed out only where one is left.
LEMMA OneMoreFits ==
    ASSUME Bounded, NEW c \in Client, NEW kind \in Kind, kind \notin has[c],
           HasType, has' = [has EXCEPT ![c] = @ \cup {kind}], ~ Full(Host(c))
    PROVE  Bounded'
<1> SUFFICES ASSUME NEW s \in Server
             PROVE  /\ IsFiniteSet(TransactionsAt(s)')
                    /\ IsFiniteSet(QueriesAt(s)')
                    /\ Cardinality(TransactionsAt(s)') + Cardinality(QueriesAt(s)') <= PoolMax
  BY Zenon DEF Bounded
<1> DEFINE T == TransactionsAt(s)
           Q == QueriesAt(s)
<1>1. /\ IsFiniteSet(T) /\ IsFiniteSet(Q)
      /\ Cardinality(T) + Cardinality(Q) <= PoolMax
  BY DEF Bounded
<1>2. Cardinality(T) \in Nat /\ Cardinality(Q) \in Nat /\ PoolMax \in Nat
  BY <1>1, FS_CardinalityType, PoolAssumption
<1>3. CASE Host(c) # s
  <2>1. T' = T /\ Q' = Q
    BY <1>3 DEF TransactionsAt, QueriesAt, HasType, Host
  <2> QED BY <1>1, <2>1
<1>4. CASE Host(c) = s /\ kind = "transaction"
  <2>1. T' = T \cup {c} /\ Q' = Q /\ c \notin T
    BY <1>4 DEF TransactionsAt, QueriesAt, HasType, Host
  <2>2. IsFiniteSet(T') /\ Cardinality(T') = Cardinality(T) + 1
    BY <1>1, <2>1, FS_AddElement
  <2>3. Cardinality(T) + Cardinality(Q) < PoolMax
    BY <1>2, <1>4 DEF Full
  <2> QED BY <1>1, <1>2, <2>1, <2>2, <2>3
<1>5. CASE Host(c) = s /\ kind = "query"
  <2>1. Q' = Q \cup {c} /\ T' = T /\ c \notin Q
    BY <1>5 DEF TransactionsAt, QueriesAt, HasType, Host
  <2>2. IsFiniteSet(Q') /\ Cardinality(Q') = Cardinality(Q) + 1
    BY <1>1, <2>1, FS_AddElement
  <2>3. Cardinality(T) + Cardinality(Q) < PoolMax
    BY <1>2, <1>5 DEF Full
  <2> QED BY <1>1, <1>2, <2>1, <2>2, <2>3
<1> QED BY <1>3, <1>4, <1>5 DEF Kind

\* Nobody else notices a step of c; c itself has only what it still needs.
LEMMA OneClientFits ==
    ASSUME HasType, \A d \in Client : Fits(d), NEW c \in Client, HasType',
           \A d \in Client \ {c} : has'[d] = has[d] /\ Needs(d)' = Needs(d),
           \A d \in Request \ {c} : pc'[d] = pc[d],
           Fits(c)'
    PROVE  \A d \in Client : Fits(d)'
<1>1. ASSUME NEW d \in Client \ {c}
      PROVE  Fits(d)'
  <2>1. has'[d] = has[d] /\ Needs(d)' = Needs(d) /\ (d \in Request => pc'[d] = pc[d])
    BY <1>1
  <2>2. d \in Request => InTransaction(pc[d])' = InTransaction(pc[d])
    BY <2>1 DEF InTransaction
  <2>3. Fits(d)
    BY <1>1
  <2> QED BY <2>1, <2>2, <2>3 DEF Fits
<1> QED BY <1>1

\* What others need does not change when r moves.
LEMMA OthersNeed ==
    ASSUME NEW r \in Request, visiting' = visiting,
           \A q \in Request \ {r} : pc'[q] = pc[q] /\ err'[q] = err[q]
    PROVE  \A d \in Client \ {r} : Needs(d)' = Needs(d)
<1> SUFFICES ASSUME NEW d \in Client \ {r}
             PROVE  Needs(d)' = Needs(d)
  OBVIOUS
<1>1. CASE d \in Request
  <2>1. pc'[d] = pc[d] /\ err'[d] = err[d]
    BY <1>1
  <2> QED BY <1>1, <2>1 DEF Needs, InTransaction, Outside, LooksUp, IsPane, Has, LogOf, OpOf
<1>2. CASE d \notin Request
  BY <1>2 DEF Needs
<1> QED BY <1>1, <1>2

LEMMA RequestKeepsPool ==
    ASSUME TypeOK, PoolInv, NEW r \in Request, Step(r) \/ Fail(r)
    PROVE  PoolInv'
<1>1. /\ ~ Waits(r)
      /\ MovesAlone(r)
      /\ has' = [has EXCEPT ![r] = Kept(r)]
      /\ visiting' = visiting
  BY StepsMoveAlone DEF Step, Fail, Release
<1>2. r \in Client
  BY DEF Client
<1>3. HasType'
  BY <1>1 DEF HasType, PoolInv, Kept, Kind
<1>4. has'[r] = Kept(r)
  BY <1>1, <1>2 DEF HasType, PoolInv
<1>5. Fits(r)'
  BY <1>4 DEF Fits, Kept, Needs
<1>6. \A d \in Client \ {r} : has'[d] = has[d] /\ Needs(d)' = Needs(d)
  BY <1>1, OthersNeed DEF HasType, PoolInv, MovesAlone
<1>7. \A d \in Client : Fits(d)'
  BY <1>1, <1>2, <1>3, <1>5, <1>6, OneClientFits DEF PoolInv, MovesAlone
<1>8. Kept(r) \subseteq has[r]
  <2>1. InTransaction(pc'[r]) => "transaction" \in Needs(r)
    BY <1>1 DEF MovesAlone, Needs
  <2>2. "transaction" \in Needs(r) => "transaction" \in has[r]
    BY <1>1 DEF Waits, WaitsFor, Kind
  <2> QED BY <2>1, <2>2 DEF Kept
<1>9. Bounded'
  <2>1. \A c \in Client : has'[c] \subseteq has[c]
    BY <1>4, <1>6, <1>8
  <2> QED BY <2>1, FewerFit DEF PoolInv
<1> QED BY <1>3, <1>7, <1>9 DEF PoolInv

LEMMA GiveUpKeepsPool ==
    ASSUME TypeOK, PoolInv, NEW r \in Request, GiveUp(r)
    PROVE  PoolInv'
<1>1. /\ \A q \in Request \ {r} : pc'[q] = pc[q] /\ err'[q] = err[q]
      /\ ~ InTransaction(pc'[r])
      /\ has' = [has EXCEPT ![r] = {}]
      /\ visiting' = visiting
  BY DEF GiveUp, GiveBack, Abort, HandleOperationError, Goto, TypeOK, InTransaction,
     LockedPhase, InsertedPhase
<1>2. r \in Client
  BY DEF Client
<1>3. HasType'
  BY <1>1 DEF HasType, PoolInv
<1>4. has'[r] = {}
  BY <1>1, <1>2 DEF HasType, PoolInv
<1>5. Fits(r)'
  BY <1>1, <1>4 DEF Fits
<1>6. \A d \in Client \ {r} : has'[d] = has[d] /\ Needs(d)' = Needs(d)
  BY <1>1, OthersNeed DEF HasType, PoolInv
<1>7. \A d \in Client : Fits(d)'
  BY <1>1, <1>2, <1>3, <1>5, <1>6, OneClientFits DEF PoolInv
<1>8. Bounded'
  <2>1. \A c \in Client : has'[c] \subseteq has[c]
    BY <1>4, <1>6
  <2> QED BY <2>1, FewerFit DEF PoolInv
<1> QED BY <1>3, <1>7, <1>8 DEF PoolInv

LEMMA SubmitKeepsPool ==
    ASSUME TypeOK, PoolInv, NEW r \in Request, Submit(r)
    PROVE  PoolInv'
<1>1. /\ \A q \in Request \ {r} : pc'[q] = pc[q] /\ err'[q] = err[q]
      /\ pc[r] = "unsent" /\ pc'[r] = "arrived"
      /\ has' = has /\ visiting' = visiting
  BY DEF Submit, Send, Goto, TypeOK
<1>2. r \in Client
  BY DEF Client
<1>3. HasType'
  BY <1>1 DEF HasType, PoolInv
<1>4. has[r] = {}
  <2>1. Needs(r) = {}
    BY <1>1 DEF Needs, InTransaction, Outside, LooksUp, LockedPhase, InsertedPhase
  <2> QED BY <1>2, <2>1 DEF PoolInv, Fits
<1>5. Fits(r)'
  BY <1>1, <1>4 DEF Fits
<1>6. \A d \in Client \ {r} : has'[d] = has[d] /\ Needs(d)' = Needs(d)
  BY <1>1, OthersNeed
<1>7. \A d \in Client : Fits(d)'
  BY <1>1, <1>2, <1>3, <1>5, <1>6, OneClientFits DEF PoolInv
<1>8. Bounded'
  BY <1>1, FewerFit DEF PoolInv
<1> QED BY <1>3, <1>7, <1>8 DEF PoolInv

LEMMA SameNeeds ==
    ASSUME UNCHANGED <<pc, err, visiting>>, NEW c
    PROVE  Needs(c)' = Needs(c) /\ InTransaction(pc[c])' = InTransaction(pc[c])
BY DEF Needs, InTransaction, Outside, LooksUp, IsPane, Has, LogOf, OpOf

LEMMA ServeKeepsPool ==
    ASSUME PoolInv, NEW c \in Client, Serve(c)
    PROVE  PoolInv'
<1>1. PICK kind \in Kind : WaitsFor(c, kind) /\ has' = [has EXCEPT ![c] = @ \cup {kind}]
  BY DEF Serve
<1>2. UNCHANGED <<pc, err, visiting>> /\ ~ Full(Host(c))
  BY DEF Serve, vars
<1>3. HasType'
  BY <1>1, <1>2 DEF HasType, PoolInv
<1>4. has'[c] = has[c] \cup {kind}
  BY <1>1 DEF HasType, PoolInv
<1>5. Needs(c)' = Needs(c) /\ InTransaction(pc[c])' = InTransaction(pc[c])
  BY <1>2, SameNeeds
<1>6. /\ kind \in Needs(c) /\ kind \notin has[c]
      /\ kind = "query" => Needs(c) \subseteq has[c] \cup {kind}
      /\ has[c] \subseteq Needs(c)
      /\ "query" \in has[c] => has[c] = Needs(c)
      /\ c \in Request /\ InTransaction(pc[c]) /\ pc[c] # "arrived" => "transaction" \in has[c]
  BY <1>1, ClientFacts DEF WaitsFor, Kind, PoolInv, Fits
<1>7. Fits(c)'
  <2>1. has'[c] \subseteq Needs(c)
    BY <1>4, <1>6
  <2>2. "query" \in has'[c] => has'[c] = Needs(c)
    BY <1>4, <1>6 DEF Kind
  <2>3. c \in Request /\ InTransaction(pc[c]) /\ pc[c] # "arrived" => "transaction" \in has'[c]
    BY <1>4, <1>6
  <2> QED BY <1>2, <1>5, <2>1, <2>2, <2>3 DEF Fits
<1>8. \A d \in Client \ {c} : has'[d] = has[d] /\ Needs(d)' = Needs(d)
  BY <1>1, <1>2, SameNeeds DEF HasType, PoolInv
<1>9. \A d \in Client : Fits(d)'
  BY <1>2, <1>3, <1>7, <1>8, OneClientFits DEF PoolInv
<1>10. Bounded'
  BY <1>1, <1>2, <1>6, OneMoreFits DEF PoolInv
<1> QED BY <1>3, <1>9, <1>10 DEF PoolInv

LEMMA VisitorKeepsPool ==
    ASSUME PoolInv, NEW v \in Visitor, Visit(v) \/ Leave(v)
    PROVE  PoolInv'
<1>1. v \in Client /\ v \notin Request /\ UNCHANGED <<pc, err>>
  BY PoolAssumption DEF Client, Visit, Leave, vars
<1>2. HasType'
  BY DEF HasType, PoolInv, Visit, Leave, GiveBack
<1>3. has'[v] = {}
  <2>1. CASE Visit(v)
    <3>1. Needs(v) = {} /\ has' = has
      BY <1>1, <2>1 DEF Visit, Needs
    <3> QED BY <1>1, <3>1 DEF PoolInv, Fits
  <2>2. CASE Leave(v)
    BY <1>1, <2>2 DEF Leave, GiveBack, HasType, PoolInv
  <2> QED BY <2>1, <2>2
<1>4. Fits(v)'
  BY <1>1, <1>3 DEF Fits
<1>5. \A d \in Client \ {v} : has'[d] = has[d] /\ Needs(d)' = Needs(d)
  <2>1. ASSUME NEW d \in Client \ {v}
        PROVE  has'[d] = has[d] /\ Needs(d)' = Needs(d)
    <3>1. has'[d] = has[d] /\ (d \in visiting' <=> d \in visiting)
      BY DEF Visit, Leave, GiveBack, HasType, PoolInv
    <3> QED BY <1>1, <3>1 DEF Needs, InTransaction, Outside, LooksUp, IsPane, Has, LogOf, OpOf
  <2> QED BY <2>1
<1>6. \A d \in Client : Fits(d)'
  BY <1>1, <1>2, <1>4, <1>5, OneClientFits DEF PoolInv
<1>7. Bounded'
  <2>1. \A c \in Client : has'[c] \subseteq has[c]
    BY <1>3, <1>5
  <2> QED BY <2>1, FewerFit DEF PoolInv
<1> QED BY <1>2, <1>6, <1>7 DEF PoolInv

LEMMA ExitKeepsPool ==
    ASSUME TypeOK, PoolInv, NEW s \in Server, Exit(s)
    PROVE  PoolInv'
<1>1. /\ has' = [c \in Client |-> IF Host(c) = s THEN {} ELSE has[c]]
      /\ visiting' = {v \in visiting : Host(v) # s}
      /\ err' = err
      /\ pc' = [r \in Request |-> IF ServerOf[r] = s /\ pc[r] \in Running
                                  THEN "crashed" ELSE pc[r]]
  BY DEF Exit, Crash
<1>2. HasType'
  BY <1>1 DEF HasType, PoolInv
<1>3. ASSUME NEW c \in Client
      PROVE  Fits(c)' /\ has'[c] \subseteq has[c]
  <2>1. CASE Host(c) = s
    <3>1. has'[c] = {}
      BY <1>1, <2>1
    <3>2. c \in Request => ~ InTransaction(pc'[c])
      BY <1>1, <2>1 DEF Host, InTransaction, Running, Phase, LockedPhase, InsertedPhase, TypeOK
    <3> QED BY <3>1, <3>2 DEF Fits
  <2>2. CASE Host(c) # s
    <3>1. /\ has'[c] = has[c]
          /\ c \in Request => pc'[c] = pc[c]
          /\ c \notin Request => (c \in visiting' <=> c \in visiting)
      BY <1>1, <2>2 DEF Host
    <3>2. Needs(c)' = Needs(c)
      BY <1>1, <3>1 DEF Needs, InTransaction, Outside, LooksUp, IsPane, Has, LogOf, OpOf
    <3>3. Fits(c)
      BY DEF PoolInv
    <3> QED BY <3>1, <3>2, <3>3 DEF Fits, InTransaction
  <2> QED BY <2>1, <2>2
<1>4. Bounded'
  BY <1>3, FewerFit DEF PoolInv
<1> QED BY <1>2, <1>3, <1>4 DEF PoolInv

LEMMA PoolKept ==
    ASSUME TypeOK, PoolInv, [PoolNext]_pvars
    PROVE  PoolInv'
<1>1. ASSUME NEW d \in Document, Archival(d)
      PROVE  PoolInv'
  <2>1. UNCHANGED <<pc, err, has, visiting>>
    BY <1>1 DEF Archival, ArchiveDocument, UnarchiveDocument
  <2>2. \A c \in Client : Fits(c)'
    BY <2>1, SameNeeds DEF PoolInv, Fits
  <2>3. Bounded'
    BY <2>1, FewerFit DEF PoolInv
  <2> QED BY <2>1, <2>2, <2>3 DEF PoolInv, HasType
<1>2. CASE UNCHANGED pvars
  <2>1. UNCHANGED <<pc, err, has, visiting>>
    BY <1>2 DEF pvars, vars
  <2>2. \A c \in Client : Fits(c)'
    BY <2>1, SameNeeds DEF PoolInv, Fits
  <2>3. Bounded'
    BY <2>1, FewerFit DEF PoolInv
  <2> QED BY <2>1, <2>2, <2>3 DEF PoolInv, HasType
<1> QED
  BY <1>1, <1>2, SubmitKeepsPool, RequestKeepsPool, GiveUpKeepsPool, VisitorKeepsPool,
     ServeKeepsPool, ExitKeepsPool DEF PoolNext

LEMMA PoolInitially ==
    ASSUME PoolInit
    PROVE  PoolInv
<1>1. HasType /\ \A c \in Client : has[c] = {}
  BY DEF PoolInit, HasType
<1>2. \A c \in Client : Fits(c)
  BY <1>1 DEF Fits, PoolInit, Init, InTransaction, LockedPhase, InsertedPhase
<1>3. Bounded
  <2>1. \A s \in Server : TransactionsAt(s) = {} /\ QueriesAt(s) = {}
    BY <1>1 DEF TransactionsAt, QueriesAt
  <2> QED BY <2>1, FS_EmptySet, PoolAssumption DEF Bounded
<1> QED BY <1>1, <1>2, <1>3 DEF PoolInv

\* A wait that times out is a query that fails, or a failing lookup of the error
\* handler.
LEMMA GivingUpIsFailing ==
    ASSUME TypeOK, PoolInv, NEW r \in Request, GiveUp(r)
    PROVE  QueryFails(r) \/ HandleOperationError(r)
<1>1. CASE InTransaction(pc[r]) /\ Abort(r, "connection")
  <2>1. \E kind \in Kind : kind \in Needs(r) \ has[r]
    BY DEF GiveUp, TimesOut, Waits, WaitsFor
  <2>2. Fits(r)
    BY DEF PoolInv, Client
  <2>3. pc[r] = "arrived" \/ Outside(r)
    BY <1>1, <2>1, <2>2
    DEF Kind, Needs, Fits, LooksUp, InTransaction, LockedPhase, InsertedPhase
  <2>4. Querying(r)
    BY <2>3 DEF Outside, Querying, LockedPhase, InsertedPhase
  <2> QED BY <1>1, <2>4 DEF QueryFails, GiveUp, TimesOut
<1> QED BY <1>1 DEF GiveUp

LEMMA PoolStepIsStep ==
    ASSUME TypeOK, PoolInv, [PoolNext]_pvars
    PROVE  [Next]_vars
<1>1. ASSUME NEW r \in Request, Submit(r) \/ Step(r) \/ Fail(r) \/ GiveUp(r)
      PROVE  Next
  <2>1. Send(r) \/ Handle(r) \/ QueryFails(r) \/ CommitFails(r)
    BY <1>1, GivingUpIsFailing DEF Submit, Step, Fail, Handle
  <2> QED BY <2>1 DEF Next
<1>2. ASSUME NEW d \in Document, Archival(d)
      PROVE  Next
  BY <1>2 DEF Archival, Next
<1>3. ASSUME NEW s \in Server, Exit(s)
      PROVE  Next
  BY <1>3 DEF Exit, Next
<1>4. CASE \/ \E v \in Visitor : Visit(v) \/ Leave(v)
           \/ \E c \in Client : Serve(c)
           \/ UNCHANGED pvars
  BY <1>4 DEF Visit, Leave, Serve, pvars
<1> QED BY <1>1, <1>2, <1>3, <1>4 DEF PoolNext

\* Requests that share pools keep all that LogInvariant says of them, and each has the
\* connections it needs, no others, and with all others of its process no more than
\* there are.
THEOREM PoolInvariant == PoolSpec => [](TypeOK /\ LogInv /\ RowsHeld /\ PoolInv)
<1>1. PoolInit => TypeOK /\ LogInv /\ RowsHeld /\ PoolInv
  <2>1. Init => RowsHeld
    BY DEF Init, RowsHeld
  <2>2. PoolInit => Init
    BY DEF PoolInit
  <2> QED BY <2>1, <2>2, Initially, PoolInitially
<1>2. TypeOK /\ LogInv /\ RowsHeld /\ PoolInv /\ [PoolNext]_pvars
        => (TypeOK /\ LogInv /\ RowsHeld /\ PoolInv)'
  BY PoolStepIsStep, PoolKept, TypeStep, LogInvStep, RowsHeldStep DEF LogInv
<1> QED BY <1>1, <1>2, PTL DEF PoolSpec

\* Connections are handed out and given back as the steps of their users need them:
\* none is lost, and no process has more than its pool allows.
THEOREM NoConnectionLost == PoolSpec => []ConnectionsKept
<1>1. PoolInv => ConnectionsKept
  <2> SUFFICES ASSUME PoolInv
               PROVE  ConnectionsKept
    OBVIOUS
  <2>1. \A r \in Request : r \in Client
    BY DEF Client
  <2> QED BY <2>1 DEF PoolInv, HasType, Fits, Bounded, ConnectionsKept
<1> QED BY <1>1, PoolInvariant, PTL

\* With a pool of any size, submissions behave as submissions without one do, some of
\* whose queries fail.
THEOREM PoolRefines == PoolSpec => PoolOnlyDelays
<1>1. PoolInit => Init
  BY DEF PoolInit
<1>2. TypeOK /\ PoolInv /\ [PoolNext]_pvars => [Next]_vars
  BY PoolStepIsStep
<1> QED BY <1>1, <1>2, PoolInvariant, PTL DEF PoolSpec, Spec, PoolOnlyDelays

\* Hence the log they write is the one that RevisionLog promises.
THEOREM PoolKeepsLog == PoolSpec => ImplementsRevisionLog
BY PoolRefines, Refinement, PTL DEF PoolOnlyDelays

\* Whoever has a connection for a query has all it needs, and waits for no lock: it
\* asks for locks by queries of its transaction.
LEMMA QueryGoesOn ==
    ASSUME PoolInv, NEW c \in Client, "query" \in has[c]
    PROVE  GoesOn(c)
<1>1. has[c] = Needs(c) /\ "query" \in Needs(c)
  BY DEF PoolInv, Fits
<1>2. ~ Waits(c)
  BY <1>1 DEF Waits, WaitsFor
<1>3. CASE c \in Request
  <2>1. Outside(c) \/ LooksUp(c)
    BY <1>1, <1>3 DEF Needs
  <2>2. pc[c] \in Running /\ NotWaiting(c)
    BY <2>1 DEF Outside, LooksUp, NotWaiting, Running, Phase, LockedPhase, InsertedPhase
  <2> QED BY <1>2, <1>3, <2>2 DEF GoesOn, UnderWay
<1>4. CASE c \notin Request
  BY <1>1, <1>2, <1>4 DEF GoesOn, UnderWay, Needs
<1> QED BY <1>3, <1>4

\* Among the transactions that have a connection, one waits for no lock.
LEMMA TransactionNotLocked ==
    ASSUME RowsHeld, PoolInv, NEW c \in Client, "transaction" \in has[c]
    PROVE  \E d \in Client : /\ "transaction" \in has[d] /\ UnderWay(d)
                             /\ d \in Request => NotWaiting(d)
<1>0. "transaction" \in Needs(c)
  BY DEF PoolInv, Fits
<1>1. CASE c \in Request /\ pc[c] \in LockingPhase
  <2>1. PICK q \in Request : pc[q] \in LockingPhase /\ NotWaiting(q)
    BY <1>1, FarthestGoesOn
  <2>2. q \in Client /\ "transaction" \in has[q]
    BY <2>1 DEF Client, PoolInv, Fits, InTransaction, LockingPhase, LockedPhase, InsertedPhase
  <2>3. UnderWay(q)
    BY <2>1 DEF UnderWay, LockingPhase, Running, Phase, LockedPhase, InsertedPhase
  <2> QED BY <2>1, <2>2, <2>3
<1>2. CASE c \in Request /\ pc[c] \notin LockingPhase
  <2>1. pc[c] = "arrived"
    BY <1>0, <1>2 DEF Needs, InTransaction, LockingPhase
  <2>2. UnderWay(c) /\ NotWaiting(c)
    BY <1>2, <2>1 DEF UnderWay, NotWaiting, Running, Phase
  <2> QED BY <2>2
<1>3. CASE c \notin Request
  BY <1>0, <1>3 DEF Needs, UnderWay
<1> QED BY <1>1, <1>2, <1>3

\* A process whose pool is full while nobody has a connection for a query has handed
\* out all of them to transactions.
LEMMA FullOfTransactions ==
    ASSUME PoolInv, NEW s \in Server, Full(s), QueriesAt(s) = {}
    PROVE  Cardinality(TransactionsAt(s)) = PoolMax
<1>1. /\ IsFiniteSet(TransactionsAt(s))
      /\ Cardinality(TransactionsAt(s)) + Cardinality(QueriesAt(s)) <= PoolMax
  BY DEF PoolInv, Bounded
<1>2. Cardinality(TransactionsAt(s)) \in Nat /\ Cardinality(QueriesAt(s)) = 0
  BY <1>1, FS_CardinalityType, FS_EmptySet
<1> QED BY <1>1, <1>2, PoolAssumption DEF Full

LEMMA StandstillIsExplained ==
    ASSUME RowsHeld, PoolInv
    PROVE  StandstillIsFullPool
<1> SUFFICES ASSUME NEW c \in Client, UnderWay(c), \A d \in Client : ~ GoesOn(d)
             PROVE  \E s \in Server :
                       /\ Cardinality(TransactionsAt(s)) = PoolMax
                       /\ QueriesAt(s) = {}
                       /\ \E d \in TransactionsAt(s) : WaitsFor(d, "query")
  BY DEF StandstillIsFullPool
<1>1. \A s \in Server : QueriesAt(s) = {}
  BY QueryGoesOn DEF QueriesAt
<1>2. CASE \E d \in Client : "transaction" \in has[d]
  <2>1. PICK d \in Client : /\ "transaction" \in has[d] /\ UnderWay(d)
                            /\ d \in Request => NotWaiting(d)
    BY <1>2, TransactionNotLocked
  <2>2. Waits(d) /\ Full(Host(d))
    BY <2>1 DEF GoesOn
  <2>3. WaitsFor(d, "query")
    BY <2>1, <2>2 DEF Waits, WaitsFor, Kind
  <2>4. d \in TransactionsAt(Host(d)) /\ Host(d) \in Server
    BY <2>1, ClientFacts DEF TransactionsAt
  <2> QED BY <1>1, <2>2, <2>3, <2>4, FullOfTransactions
<1>3. CASE \A d \in Client : "transaction" \notin has[d]
  <2>1. ~ Full(Host(c))
    <3>1. TransactionsAt(Host(c)) = {} /\ QueriesAt(Host(c)) = {}
      BY <1>1, <1>3, ClientFacts DEF TransactionsAt
    <3> QED BY <3>1, FS_EmptySet, PoolAssumption DEF Full
  <2>2. c \in Request => NotWaiting(c)
    <3>1. ASSUME c \in Request
          PROVE  ~ (InTransaction(pc[c]) /\ pc[c] # "arrived")
      BY <1>3, <3>1 DEF PoolInv, Fits
    <3> QED BY <3>1 DEF NotWaiting, InTransaction, LockedPhase, InsertedPhase
  <2> QED BY <2>1, <2>2 DEF GoesOn
<1> QED BY <1>2, <1>3

\* However many submissions and duplications run, on however many processes: as long
\* as none of these has given all its connections to transactions, one of which waits
\* for a second one, somebody goes on without a time limit running out.
THEOREM OnlyFullPoolsStandStill == PoolSpec => []StandstillIsFullPool
<1>1. RowsHeld /\ PoolInv => StandstillIsFullPool
  BY StandstillIsExplained
<1> QED BY <1>1, PoolInvariant, PTL
=============================================================================
