---------------------------- MODULE DocumentApi ----------------------------
(***************************************************************************)
(* Requests that read and write one document and its memberships.  A       *)
(* request goes through the steps of its handler (Routes); between any two *)
(* of them other requests run, in the same process or in another one.      *)
(*                                                                         *)
(* The questions index-api, users-api and LaunchDarkly answer are asked in *)
(* the step that uses the answer: nobody else sees them.                   *)
(***************************************************************************)
EXTENDS Routes, FiniteSets

CONSTANTS
    Request,    \* the requests and jobs of one behaviour
    User,
    Server,     \* processes
    ServerOf,   \* the process each request runs in
    MaxMembers  \* bound: members one request adds

ASSUME MembersAssumption == MaxMembers \in Nat

VARIABLES
    request,   \* what each request asks for
    document,  \* its row, or NoDocument
    rows,      \* DocumentMembership: [id -> columns]
    server,    \* "up", "dying" (after an unhandled rejection) or "down"
    me,        \* the local variables of each request
    outbox,    \* the events emitted so far
    removed,   \* ghost: users whose membership was destroyed, and not created again
    raced      \* ghost: users for whom two requests found no row and both created one

documentVars == <<request, document, rows, server, me, outbox, removed, raced>>

NoDocument == [archived |-> FALSE, visibility |-> "none", permissions |-> NoGrant]
NewDocument == [archived |-> FALSE, visibility |-> "all", permissions |-> "edit"]
Documents == [archived : BOOLEAN, visibility : Visibilities, permissions : Grants]
Columns == [grant : Grants, subscribed : {"unset", "yes", "no"}, viewed : BOOLEAN]
NoRow == << >>
Row(id) == [id |-> id, columns |-> rows[id]]

Override(old, new) == [f \in DOMAIN old |-> IF f \in DOMAIN new THEN new[f] ELSE old[f]]

RowsOf(user) == {id \in DOMAIN rows : id[3] = user}

-----------------------------------------------------------------------------
At(r, step) == me[r].at = step /\ server[ServerOf[r]] # "down"
Kind(r) == request[r].kind
Program(r) == Routes[Kind(r)].handler
Steps(r) == Program(r).steps

\* The step after the one the request stands at.
NextStep(r) ==
    LET steps == Steps(r)
    IN  steps[1 + CHOOSE i \in DOMAIN steps : steps[i] = me[r].at]

Continue(r, locals) == me' = [me EXCEPT ![r] = Override(@, locals)]
Goto(r, step) == Continue(r, [at |-> step])

\* The request has its answer; its locals are gone.
Answered(r, status) ==
    Continue(r, [at |-> "done", answer |-> status, doc |-> NoDocument, row |-> NoRow])

\* A rejection: HandleErrors answers, a job fails, and where nobody handles it
\* the process ends within 100 ms, and never answers.
Throw(r, status) ==
    IF Routes[Kind(r)].bare \/ me[r].at = "fetch"
    THEN /\ server' = [server EXCEPT ![ServerOf[r]] = "dying"]
         /\ Continue(r, [at |-> "lost", doc |-> NoDocument, row |-> NoRow])
    ELSE Answered(r, status) /\ UNCHANGED server

Emit(events) == outbox' = outbox \cup events
Event(name, user) == [name |-> name, user |-> user]

-----------------------------------------------------------------------------
\* The middleware before the handlers.  Private routes are not asked for a user.
NoUser == {400, 500}   \* no team, no user in the request, or users-api does not know it
NoAccess == {403, 500} \* the feature flag is not set for the user
Invalid(kind) ==       \* the parameters of the request, or its page
    {400} \cup (IF kind \in {"team", "user", "teamPrivate"} THEN {422} ELSE {})

Admit(r) ==
    /\ At(r, "admit")
    /\ \/ Goto(r, Head(Steps(r)))
       \/ /\ Kind(r) \notin DOMAIN Jobs
          /\ \E status \in Invalid(Kind(r)) \cup
                IF Kind(r) \in DOMAIN PrivateRoutes THEN {} ELSE NoUser \cup NoAccess :
                    Answered(r, status)
    /\ UNCHANGED <<request, document, rows, server, outbox, removed, raced>>

\* Document.findDocument sees archived documents too; the helper of the panes and
\* the default scope of the workers do not.  GetMemberships only sets the status:
\* its answer is never sent.
FindDocument(r) ==
    /\ At(r, "find") \/ At(r, "findLive")
    /\ \/ /\ document # NoDocument
          /\ me[r].at = "findLive" => ~document.archived
          /\ Continue(r, [at |-> NextStep(r), doc |-> document])
       \/ /\ document = NoDocument \/ (me[r].at = "findLive" /\ document.archived)
          /\ IF Kind(r) = "memberships" THEN Goto(r, "hanging") ELSE Answered(r, 404)
    /\ UNCHANGED <<request, document, rows, server, outbox, removed, raced>>

\* The grants hasDocumentMembership may find: it takes any of the rows.
GrantsFound(user) ==
    IF RowsOf(user) = {} THEN {NoGrant} ELSE {rows[id].grant : id \in RowsOf(user)}

\* Whether the check may grant the request, for some answer of index-api.
Verdicts(r) ==
    LET action == Program(r).action
        visibility == me[r].doc.visibility
    IN  CASE action = "create" -> {SpaceVerdict(a) : a \in Answers}
          [] action = "joinAndView" ->
                 {JoinAndViewVerdict(j, v, visibility) : j \in Said, v \in Said}
                 \cup {JoinAndViewVerdict(NoAnswer, NoAnswer, visibility)}
          [] OTHER -> {Verdict(action, a, g, visibility) :
                           a \in Answers, g \in GrantsFound(request[r].user)}

\* GetDocument answers a refusal itself; GetAccessSettings only reports it.
CheckPermission(r) ==
    /\ At(r, "check")
    /\ \E verdict \in Verdicts(r) :
          \/ /\ verdict = Granted \/ Kind(r) = "access"
             /\ Goto(r, NextStep(r))
             /\ UNCHANGED server
          \/ /\ verdict # Granted /\ Kind(r) # "access"
             /\ IF Kind(r) = "get"
                THEN Answered(r, 403) /\ UNCHANGED server
                ELSE Throw(r, 403)
    /\ UNCHANGED <<request, document, rows, outbox, removed, raced>>

-----------------------------------------------------------------------------
\* The row of whom the request is about; the jobs and most requests are about
\* their user.
Subject(r) ==
    IF Kind(r) \in {"update", "remove"} THEN request[r].member ELSE request[r].user

\* What a save sets.  Sequelize writes only the columns that differ from the
\* instance, which may be stale by now.
Wanted(r) ==
    CASE Kind(r) = "update" -> [grant |-> request[r].grant]
      [] Kind(r) = "unsubscribe" -> [subscribed |-> "no"]
      [] Kind(r) = "lastViewed" -> [viewed |-> TRUE]
      [] OTHER -> [subscribed |-> "yes"]

Changed(old, wanted) ==
    [f \in {g \in DOMAIN wanted : old[g] # wanted[g]} |-> wanted[f]]

\* hasDocumentMembership for the one who is updated, removed or subscribed.
\* autoSubscribe leaves alone who was subscribed or unsubscribed before, and
\* tells the user without waiting for its save.
LookupMembership(r) ==
    /\ At(r, "lookup")
    /\ \/ RowsOf(Subject(r)) = {} /\ Answered(r, 404) /\ UNCHANGED outbox
       \/ \E id \in RowsOf(Subject(r)) :
             IF Kind(r) = "autoSubscribe" /\ rows[id].subscribed # "unset"
             THEN Answered(r, 200) /\ UNCHANGED outbox
             ELSE /\ Continue(r, [at |-> NextStep(r), row |-> Row(id)])
                  /\ IF Kind(r) = "autoSubscribe"
                     THEN Emit({Event("subscribed", Subject(r))})
                     ELSE UNCHANGED outbox
    /\ UNCHANGED <<request, document, rows, server, removed, raced>>

\* Mutants: the whole instance is written; a row that is gone is written again.
SaveInstance(r) ==
    /\ At(r, "saveMembership")
    /\ LET row == me[r].row
       IN  rows' = [id \in DOMAIN rows |->
                       IF id = row.id THEN Override(row.columns, Wanted(r)) ELSE rows[id]]
    /\ Goto(r, NextStep(r))
    /\ UNCHANGED <<request, document, server, outbox, removed, raced>>

UpsertMembership(r) ==
    /\ At(r, "saveMembership")
    /\ LET row == me[r].row
       IN  rows' = [id \in DOMAIN rows \cup {row.id} |->
                       IF id = row.id THEN Override(row.columns, Wanted(r)) ELSE rows[id]]
    /\ Goto(r, NextStep(r))
    /\ UNCHANGED <<request, document, server, outbox, removed, raced>>

\* membership.save(): an UPDATE by id, of no row if it is gone.
SaveMembership(r) ==
    /\ At(r, "saveMembership")
    /\ LET row == me[r].row
           changed == Changed(row.columns, Wanted(r))
       IN  rows' = [id \in DOMAIN rows |->
                       IF id = row.id THEN Override(rows[id], changed) ELSE rows[id]]
    /\ Goto(r, NextStep(r))
    /\ UNCHANGED <<request, document, server, outbox, removed, raced>>

\* membership.destroy(): a DELETE by id.
DestroyMembership(r) ==
    /\ At(r, "destroyMembership")
    /\ rows' = [id \in DOMAIN rows \ {me[r].row.id} |-> rows[id]]
    /\ removed' = IF me[r].row.id \in DOMAIN rows THEN removed \cup {Subject(r)} ELSE removed
    /\ Goto(r, NextStep(r))
    /\ UNCHANGED <<request, document, server, outbox, raced>>

-----------------------------------------------------------------------------
\* The row request r creates for the user; i tells the rows of one request apart.
Create(r, i, user, columns) ==
    LET id == <<r, i, user>>
    IN  /\ rows' = [k \in DOMAIN rows \cup {id} |-> IF k = id THEN columns ELSE rows[k]]
        /\ removed' = removed \ {user}

NewColumns(grant, subscribed) ==
    [grant |-> grant, subscribed |-> subscribed, viewed |-> FALSE]

\* Ghost: whoever else has found no row either is about to create one.
Creating(r, i, user) ==
    IF i = 0
    THEN me[r].at = "insert" /\ request[r].user = user
    ELSE i \in DOMAIN me[r].todo /\ me[r].todo[i] = "insert" /\ request[r].members[i] = user

NoteRace(r, i, user) ==
    raced' = IF \E q \in Request, j \in 0..MaxMembers : <<q, j>> # <<r, i>> /\ Creating(q, j, user)
             THEN raced \cup {user} ELSE raced

\* GetDocument: the user's own membership, which needs no permission check.
FindOwn(r) ==
    /\ At(r, "own")
    /\ IF RowsOf(request[r].user) = {} THEN Goto(r, NextStep(r)) ELSE Goto(r, "read")
    /\ UNCHANGED <<request, document, rows, server, outbox, removed, raced>>

\* findOrCreate is a SELECT, and an INSERT with the permissions of the copy of
\* the document; the row is seen when the transaction commits.
SelectOwn(r) ==
    /\ At(r, "select")
    /\ IF RowsOf(request[r].user) = {} THEN Goto(r, NextStep(r)) ELSE Goto(r, "read")
    /\ UNCHANGED <<request, document, rows, server, outbox, removed, raced>>

InsertOwn(r) ==
    /\ At(r, "insert")
    /\ Create(r, 0, request[r].user, NewColumns(me[r].doc.permissions, "unset"))
    /\ NoteRace(r, 0, request[r].user)
    /\ Goto(r, NextStep(r))
    /\ UNCHANGED <<request, document, server, outbox>>

\* AddMembersToMemberships runs one promise per member it is given, be it the same
\* user twice.  Each asks for the profile of the user (no answer fails it) and
\* whether the user has access (no: skipped), then runs findCreateFind.  They go
\* on when one of them has failed.
Promise(r, i, state) == me' = [me EXCEPT ![r].todo[i] = state]

Pending(r, i, state) ==
    /\ server[ServerOf[r]] # "down"
    /\ i \in DOMAIN me[r].todo
    /\ me[r].todo[i] = state

\* Mutant: the row is not looked for.
SelectNoMember(r, i) ==
    /\ Pending(r, i, "select")
    /\ \E state \in {"failed", "skipped", "insert"} : Promise(r, i, state)
    /\ UNCHANGED <<request, document, rows, server, outbox, removed, raced>>

SelectMember(r, i) ==
    /\ Pending(r, i, "select")
    /\ \/ \E state \in {"failed", "skipped"} : Promise(r, i, state)
       \/ IF RowsOf(request[r].members[i]) = {}
          THEN Promise(r, i, "insert")
          ELSE Promise(r, i, "found")
    /\ UNCHANGED <<request, document, rows, server, outbox, removed, raced>>

InsertMember(r, i) ==
    /\ Pending(r, i, "insert")
    /\ \/ /\ Create(r, i, request[r].members[i], NewColumns(request[r].grant, "unset"))
          /\ NoteRace(r, i, request[r].members[i])
          /\ Promise(r, i, "added")
       \/ Promise(r, i, "failed") /\ UNCHANGED <<rows, removed, raced>>
    /\ UNCHANGED <<request, document, server, outbox>>

StartAdding(r) ==
    /\ At(r, "adding")
    /\ Continue(r, [at |-> "awaiting",
                    todo |-> [i \in DOMAIN request[r].members |-> "select"]])
    /\ UNCHANGED <<request, document, rows, server, outbox, removed, raced>>

States(r) == {me[r].todo[i] : i \in DOMAIN me[r].todo}
Settled == {"added", "found", "skipped"}

\* Mutants: only the success of all is awaited; nothing is awaited.
AnswerAddSuccess(r) ==
    /\ At(r, "awaiting")
    /\ States(r) \subseteq Settled
    /\ Answered(r, 200)
    /\ Emit({Event("participantAdded", request[r].members[i]) :
                i \in {j \in DOMAIN me[r].todo : me[r].todo[j] = "added"}})
    /\ UNCHANGED <<request, document, rows, server, removed, raced>>

AnswerAddEarly(r) ==
    /\ At(r, "awaiting")
    /\ Answered(r, 200)
    /\ UNCHANGED <<request, document, rows, server, outbox, removed, raced>>

\* Promise.all: the first failure answers, or the last success.  Only then are
\* the members announced, and only those that were created.
AnswerAdd(r) ==
    /\ At(r, "awaiting")
    /\ \/ "failed" \in States(r) /\ Answered(r, 500) /\ UNCHANGED outbox
       \/ /\ States(r) \subseteq Settled
          /\ Answered(r, 200)
          /\ Emit({Event("participantAdded", request[r].members[i]) :
                      i \in {j \in DOMAIN me[r].todo : me[r].todo[j] = "added"}})
    /\ UNCHANGED <<request, document, rows, server, removed, raced>>

\* GetMemberships: profiles come for some of the members.  The two lists are merged
\* by position when they are equally long, otherwise no answer is ever sent.
ReadMembers(r) ==
    /\ At(r, "members")
    /\ \E profiles \in SUBSET {id[3] : id \in DOMAIN rows} :
          IF Cardinality(profiles) = Cardinality(DOMAIN rows)
          THEN Answered(r, 200)
          ELSE Goto(r, "hanging")
    /\ UNCHANGED <<request, document, rows, server, outbox, removed, raced>>

-----------------------------------------------------------------------------
WantedOfDocument(r) ==
    CASE Kind(r) = "archive" -> [archived |-> TRUE]
      [] Kind(r) = "unarchive" -> [archived |-> FALSE]
      [] OTHER -> [visibility |-> request[r].visibility, permissions |-> request[r].grant]

\* document.save(): only what differs from the copy found before.
SaveDocument(r) ==
    /\ At(r, "saveDocument")
    /\ document' = Override(document, Changed(me[r].doc, WantedOfDocument(r)))
    /\ Goto(r, NextStep(r))
    /\ UNCHANGED <<request, rows, server, outbox, removed, raced>>

\* The hooks of Document.create add the owner's membership, and announce the
\* document before the transaction has committed: the commit may fail.
InsertDocument(r) ==
    /\ At(r, "createDocument")
    /\ document = NoDocument
    /\ Emit({Event("created", request[r].user)})
    /\ \/ /\ document' = NewDocument
          /\ Create(r, 0, request[r].user, NewColumns("edit", "yes"))
          /\ Goto(r, NextStep(r))
       \/ Answered(r, 500) /\ UNCHANGED <<document, rows, removed>>
    /\ UNCHANGED <<request, server, raced>>

\* The events that follow the last query, to the sockets or to the event bus.
EventsOf(r) ==
    CASE Kind(r) \in {"archive", "unarchive", "update", "remove", "lastViewed"} ->
             {Event(Kind(r), Subject(r))}
      [] OTHER -> {}

\* No thumbnail yet, or no such document in another service.
MayFindNothing == {"thumbnail", "prototype", "external"}

Answer(r) ==
    /\ At(r, "answer")
    /\ \/ Answered(r, 200) /\ Emit(EventsOf(r))
       \/ Kind(r) \in MayFindNothing /\ Answered(r, 404) /\ UNCHANGED outbox
    /\ UNCHANGED <<request, document, rows, server, removed, raced>>

\* Queries and calls whose results only the answer needs.
Read(r) ==
    /\ At(r, "read")
    /\ Goto(r, NextStep(r))
    /\ UNCHANGED <<request, document, rows, server, outbox, removed, raced>>

\* A query fails, or a call in a handler that needs its result.  These steps have
\* none, or say themselves what comes of it.
Unfailing == {"admit", "adding", "awaiting", "compare", "answer", "hanging", "done", "lost"}

Reject(r) ==
    /\ server[ServerOf[r]] # "down"
    /\ me[r].at \notin Unfailing
    /\ ~(Kind(r) = "get" /\ me[r].at = "check")
    /\ Throw(r, 500)
    /\ UNCHANGED <<request, document, rows, outbox, removed, raced>>

\* The process ends, and what its requests had not done stays undone.
Die(s) ==
    /\ server[s] = "dying"
    /\ server' = [server EXCEPT ![s] = "down"]
    /\ UNCHANGED <<request, document, rows, me, outbox, removed, raced>>

RequestStep(r) ==
    \/ Admit(r) \/ FindDocument(r) \/ CheckPermission(r) \/ LookupMembership(r)
    \/ SaveMembership(r) \/ DestroyMembership(r)
    \/ FindOwn(r) \/ SelectOwn(r) \/ InsertOwn(r)
    \/ StartAdding(r) \/ AnswerAdd(r) \/ ReadMembers(r)
    \/ SaveDocument(r) \/ InsertDocument(r) \/ Read(r) \/ Answer(r) \/ Reject(r)
    \/ \E i \in 1..MaxMembers : SelectMember(r, i) \/ InsertMember(r, i)

-----------------------------------------------------------------------------
\* The values of the variables; a row is named by who created it and for whom.
RowIds == (Request \cup {"before"}) \X (0..MaxMembers) \X User

Locals ==
    [at : STRING, doc : Documents \cup {NoDocument},
     row : {NoRow} \cup [id : RowIds, columns : Columns],
     todo : UNION {[1..n -> {"select", "insert", "failed"} \cup Settled] : n \in 0..MaxMembers},
     answer : {0, 200, 400, 403, 404, 422, 500}]

DocumentTypeOK ==
    /\ document \in Documents \cup {NoDocument}
    /\ DOMAIN rows \subseteq RowIds /\ \A id \in DOMAIN rows : rows[id] \in Columns
    /\ server \in [Server -> {"up", "dying", "down"}]
    /\ me \in [Request -> Locals]
    /\ removed \subseteq User /\ raced \subseteq User

\* document_memberships has no unique index.  A user has two rows only if two
\* findOrCreate or findCreateFind found none before either had created one.
DuplicatesOnlyFromRaces ==
    \A user \in User : Cardinality(RowsOf(user)) > 1 => user \in raced

\* Who was removed stays out until somebody adds or lets in the user again: no
\* request that still holds the row brings it back.  Only one of the rows of a
\* user who has two is removed.
RemovedStaysOut ==
    \A user \in removed \ raced : RowsOf(user) = {}

\* A request or job changes only the column of a membership that it is about, no
\* matter how old its copy of the row is.
OnlyAskedColumns ==
    [][\A id \in DOMAIN rows \cap DOMAIN rows' :
          \A column \in DOMAIN rows[id] :
              rows'[id][column] # rows[id][column] =>
                  \E r \in Request :
                      /\ At(r, "saveMembership")
                      /\ column \in DOMAIN Wanted(r)
                      /\ id[3] = Subject(r)]_rows

\* When AddMembersToMemberships answers that members were added, each of them is a
\* member (or has been removed since), and each new one was announced.
AddedAreMembers ==
    \A r \in Request :
        Kind(r) = "add" /\ me[r].answer = 200 =>
            /\ DOMAIN me[r].todo = DOMAIN request[r].members
            /\ \A i \in DOMAIN me[r].todo :
                  LET user == request[r].members[i]
                      state == me[r].todo[i]
                  IN  /\ state \in Settled
                      /\ state # "skipped" => RowsOf(user) # {} \/ user \in removed
                      /\ state = "added" => Event("participantAdded", user) \in outbox

\* permissionForAction tells the client of a user what it may do.  The checks that
\* grant or refuse it go through the rules by other paths and agree, whatever
\* index-api says, for each row the user has: those of every action, of joining, of
\* who may be mentioned, and of submitting, which asks nobody and so does not know
\* of an answer that is forced.  They agree except on an answer that lacks the
\* document: the client is told what the rules of the document give alone, and every
\* check refuses.
ToldIsEnforced ==
    \A user \in User : \A grant \in GrantsFound(user), said \in Answers :
        LET visibility == document.visibility
            May(action, answer) == Told(action, answer, grant, visibility).allow
            Sure(action, answer) == Readable(answer) /\ May(action, answer)
        IN  /\ \A action \in Actions :
                  Sure(action, said) <=> Verdict(action, said, grant, visibility) = Granted
            /\ Sure("join", said) <=> JoinVerdict(said, visibility) = Granted
            /\ \A joining \in Answers :
                  MayBeMentioned(said, joining, grant, visibility)
                      <=> Sure("view", said) \/ Sure("join", joining)
            /\ said # NoAnswer /\ ~ExternalPermission(said).force =>
                  (May("change", said) <=> SubmitVerdict(grant) = Granted)
=============================================================================
