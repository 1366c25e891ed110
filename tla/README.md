# Verification of pages-api

Pages-api stores documents that several people edit at once. A document is a
[Quill delta], a *pane* is a JSON document embedded in it; both are kept as a
log of operations ("revisions"). This directory holds TLA+ models of the
service, the TLC configurations that check them on small instances, and TLAPS
proofs of what matters most. Source paths below are relative to `src/src/`
unless they start with `src/`.

Contents: [1 The system](#1-the-system) · [2 Models and code](#2-models-and-code) ·
[3 Runs](#3-runs) · [4 Proofs](#4-proofs) · [5 Findings](#5-findings) ·
[6 What is assumed](#6-what-is-assumed) · [7 What is left out](#7-what-is-left-out) ·
[8 Plan](#8-plan) · [9 Conventions](#9-conventions)

[Quill delta]: https://quilljs.com/docs/delta

## 1 The system

The API server (`index.ts`, `server.ts`) is an Express application with a
socket.io server; several processes of it run side by side. A worker
(`worker.ts`) runs the queues. They share a PostgreSQL database (through
Sequelize) and Redis (Bull queues, locks, the socket.io adapter), and call other
services over HTTP.

| Part | State it keeps | Operations | Talks to |
|---|---|---|---|
| Operation submission (`controllers/OperationController.ts`, hooks of `models/DocumentRevision.ts`, `models/PaneRevision.ts`) | rows of `documentRevisions`, `paneRevisions` | `SubmitOperation`: number, rebase, insert, announce, answer | database, sockets, queues, event bus |
| Contents and snapshots (`models/Document.ts`, `models/Pane.ts`) | the `snapshot` column of revisions | `contents(atRevision)`, `saveSnapshot`, `Pane.duplicate` | database |
| Unique queue jobs (`util/QueueManager/QueueTask.ts`) | one delayed job per id, a lock, both in Redis | `addUniqueJob`, the worker's processing | Bull, Redis, event bus |
| Task pusher and processor (`util/QueueManager/`) | queues | push, process | Bull |
| Sockets and presence (`util/SocketManager.ts`, `lib/socket.io-redis`) | rooms, the users in them | join, leave, `sendUpdateEvent`, `sendOperation` | Redis pub/sub with a request timeout |
| Documents and memberships (`controllers/Document/`, `models/DocumentMembership.ts`) | `documents`, `documentMemberships` | create, read (and join), archive, add, change or remove members, access settings, subscriptions | database, queues |
| Permission rules (`middleware/Permissions.ts`, `services/permissions/`) | none | decide what a user may do | |
| Panes (`controllers/Pane/`) | `panes`, `paneDocuments` | create, embed, duplicate | database |
| Assets (`controllers/Asset/`, `models/Asset.ts`) | `assets` | request, mark uploaded, copy | assets service |
| Event bus (`event-bus/`) | paused or not, resume timer | consume, acknowledge, pause; produce | queues |
| Connection pool (`util/SequelizeManager.ts`) | at most ten connections per process (`config.ts:27`) | acquire, release, give up a wait | database |
| Revision sessions (`controllers/Document/Controller.ts`) | none | group revisions by time, by pauses that LaunchDarkly gives per request | LaunchDarkly |
| Deltas (`util/DeltaSlice.ts`, `util/DeltaDiff/`, `util/SurroundingDelta.ts`, ...) | none | slice, diff, surroundings | |
| Emails (`services/MentionEmail.ts`, `services/DocumentUpdateEmail.ts`) | none | compose and send a mail about a mention or about updates | database, deltas, other services |
| Rendering, clients of other services, analytics | none | | HTTP |

How a submission travels: `SubmitOperation` opens a transaction, takes a
PostgreSQL advisory lock keyed by a hash of the document or pane, looks whether
the submission is stored already, reads the last revision, transforms the
operation over the revisions committed since the one it was made for, and
inserts it with the next number. Hooks of the insertion rename the document,
update its timestamp and push jobs. Then, *before the commit*, the operation is
sent to the sockets and the client is answered. A `finally` block pushes the
mails and statistics; these go through `addUniqueJob`. Every so many revisions
a worker stores a snapshot, which later reads start from.

What makes it hard, and what each part has to guarantee:

- **Submission.** Nothing in the database makes revision numbers unique; only
  the advisory lock does. Requests of several processes interleave at every
  await; clients repeat submissions; submission ids are unique per *table* but
  looked up per document and user; the document may be archived at any moment;
  operations are announced before their commit, which may fail. Correct means:
  the log has no gaps and no duplicates, each operation is rebased over exactly
  its predecessors, what clients saw agrees with what is stored, every request
  is answered, and the three kinds of lock a submission waits for never form a
  circle.
- **Contents.** Three queries that are not in one transaction must give one
  consistent state, next to commits and to workers that store snapshots.
- **Unique jobs.** A job is replaced by removing and adding it while a worker
  may take it. The lock may expire, a process may die. Correct means: edits that
  were accepted are neither lost nor double-counted, and the lock comes back.
- **Presence.** Overlapping collections over several servers, with timeouts.
- **Memberships.** Read-then-write without constraints (`findOrCreate`,
  `findCreateFind`, `save` of a copy read earlier). Correct means: a user has one
  membership unless two requests raced, removed members stay out, no write undoes
  another column.
- **Permissions.** What a client is told it may do and what is enforced are
  computed by different code from the same rules.
- **Assets.** A remote service and a row that must agree, without a transaction.
- **Rejections.** Some routes lack the wrapper that hands a rejection to the error
  handler: a failing query in one of them ends the process beside all others.
- **Queue and event bus.** Messages are acknowledged before their job is stored; a
  timer resumes a paused consumer; a worker ends with jobs active, which stall and
  run again; a job that timed out goes on running.
- **Mails.** A mail is composed from several reads of a document that goes on
  changing; positions must be found again, authors named, recipients chosen.
- **History.** Sessions depend on the time of the request, by the calendar, and on a
  feature flag.
- **Connection pool.** A submission holds one connection and asks for a second; those
  that wait for the advisory lock hold theirs meanwhile. Correct means: no connection is
  lost, and everybody stands still only when one pool is used up in this way.

`PROJECT.json` lists every component with its status, and every hazard with the
line where it bites and the properties that watch it.

## 2 Models and code

### RevisionLog — what the service promises

The abstract specification: per document or pane an append-only sequence.
`Record(l, s)` appends submission `s` once, rebased over an unbroken run of
revisions that ends with its predecessor. It has neither requests nor locks.

### SubmitOperation — operation submission

One request is a process whose program counter `pc[r]` names the await it stands
at. The phases follow the handler:

| Phase before | Action | Code |
|---|---|---|
| `unsent` | `Send` | the client: fixes the revision number from what it has seen, or repeats an earlier body |
| `arrived` | `FindDocument` | `OperationController.ts:301-310` |
| `locking` | `AcquireLock` | `SequelizeManager.ts:73-91` |
| `locked` | `CheckForSubmitted` | `OperationController.ts:327-333` |
| `checked` | `GetDocumentForRevisions` | `:54-71` |
| `opened` / `validated` | `CheckPermission` (panes first, documents later) | `:157-168`, `:86-88` |
| `allowed` | `GetPane` | `Helpers.ts:21-27` |
| `opened` / `found` | `ReadLastRevision`, with `IsValidOperation` | `:90-98`, `:147-155`, `:231-252` |
| `validated` (pane) | `ApplyToContents` | `:100-105` |
| `ready` | `Rebase` | `:107-116`, `:170-188` |
| `rebased` | `InsertRevision`, with the snapshot hook | `:118-131`, `:190-205` |
| `inserted` ... `stamped` | `UpdateTitle`, `ReadForTimestamp`, `UpdateDocumentTimestamp`, `EmitDocumentUpdated` | `DocumentRevision.ts:132-204` |
| `created` | `Broadcast` (sockets, then the HTTP answer) | `:353-380` |
| `committing` | `Commit` | end of the managed transaction |
| `committed` | `Finish` (the `finally` block) | `:385-401` |
| `handling` | `HandleOperationError`, with `HandleErrors` | `:254-296`, `middleware/HandleErrors.ts` |

State: `rows` are the committed rows of both revision tables, `archived` the
documents with `isArchived`, `rowHeld` the transactions that hold the row of
their document, `emitted` what the sockets were sent, `reply` the HTTP answers.
`last`, `over`, `err`, `made` are the handler's locals. `draft[o]` is the body
of an operation: the revision number, and, as a ghost, the revisions its author
had seen. Locks are not variables of their own: a request holds the advisory
lock in exactly the phases `LockedPhase`, a unique key in `InsertedPhase`.

The environment archives and unarchives documents (`ArchiveDocument`,
`UnarchiveDocument`; both wait for the row), makes a query fail
(`QueryFails`), reports a commit as failed whether or not it happened
(`CommitFails`), and kills a server process (`Crash`). `Fault` says which of
these an instance has.

Operational transformation is represented by `over`, the numbers of the
revisions an operation was transformed over. That is what the surrounding code
is responsible for: `ot-json1` and `Delta.transform` give a result that applies
to revision *n* exactly when they are handed all revisions from the one the
operation was made for to *n*.

### ConnectionPool — the connections submissions share

Extends `SubmitOperation`: its actions, each with the connections it needs. A *client*
of a pool is a request or a visitor. `has[c]` says what client `c` has a connection for:
its transaction, from the call of `sequelize.transaction()` to the end of COMMIT or
ROLLBACK, and the query at hand if that is made beside the transaction. `Outside` lists
those: `findById`, `checkForSubmittedRevision`, the membership of `canSubmitOperation`,
`findPane` and `getDocumentIdsForPane` are not handed the transaction. `LooksUp` is the
query of `_handleOperationError`, after the rollback. Nothing else in `SubmitOperation`
takes a connection; `autoSubscribe`, which nobody awaits, is like a visitor. A client that lacks one (`Waits`) takes no step until it is served
(`Serve`) or has waited too long (`GiveUp`), which rolls a transaction back, or, in the
error handler, is thrown on to `HandleErrors`. `Step` and `Fail` are the steps of
`SubmitOperation`; they give back what the request needs no longer (`Release`). `Exit`
takes a process with its pool.

A visitor stands for a request of another endpoint: it holds one connection, or, if it
is in `Nesting`, one for a transaction and one more for a query beside it, as
`DuplicatePane` does: `Pane.duplicate` reads the contents of its source without the
transaction (`models/Pane.ts:292`). Visitors take no locks that submissions wait for; the
endpoint that does, archival, is an action as in `SubmitOperation`, with its connection
left out.

### Snapshots — contents and saveSnapshot

A call of `contents()` is a process with three queries: `FindSnapshot`,
`FindLast`, `FindRevisions`; a worker adds `SaveSnapshot`. `CommitRevision`
grows the log meanwhile. Documents and panes share the module: `isPane` makes
the difference their code makes (`atRevision || atRevision === 0` against
`atRevision`), and a log may be a copy made by `Pane.duplicate`, whose revision
0 carries a snapshot that does not come from its operation (`origin = Copy`).
Contents are the sequence of operation numbers they are composed of, so an
operation missing, doubled or out of order shows.

### UniqueJob — addUniqueJob

One job id. A call is a process: `TakeLock`, `GetJob`, `RemoveJob`, `Listen`,
`Add`, `Release`; the worker does `StartJob`, `CompleteJob`, `FailJob`; the lock
may `Expire`; a process may `Exit`. A job's data is the sequence of the edits
merged into it: the session start of `DocumentSessionQueueTask` and the first
revision of `UpdateEmailQueueTask` are those of the first element, the number of
edits is the length. `HasToken` has the detail that the lock token belongs to
the *process*: a call may free the lock of another call of its process.

### Presence — who is on a document

One room. `Connect`, `Admit`, `Refuse`, `Disconnect` are what
`SocketManager.init` does for a socket, with the lookup of the membership as an
await: a socket that disconnects during it (`dropped`) still joins the room and
starts a collection. A collection `c = <<socket, "join" or "leave">>` runs
through `Count` (Redis executes PUBSUB NUMSUB), `Ask` (the request is registered
and published), `Gather` (one response read) or `Expire` (the timer), and `Tell`
(the callback on the next tick, which broadcasts). `Respond` and `Relay` are what
every server does with requests and broadcast lists. `inbox[s]` holds what was
published and server `s` has not read; Redis gives all subscribers one order.
`Crash` and `Start` take servers away and bring them. `stayed`, `passed`,
`spoiled` and `disturbed` are ghosts for the properties.

### PermissionRules — who may do what

Operators only. `Rule` has the rules of `services/permissions/Rules.ts`; the other
operators are the ways the code goes through them: `Verdict`
(`hasPermissionForDocument`), `JoinVerdict`, `JoinAndViewVerdict`, `SpaceVerdict`,
`SubmitVerdict` (which asks nobody), `MayBeMentioned`, and `Told`, what
`permissionForAction` reports to clients. An answer of index-api allows or not,
forces or not, or is missing in one of three ways (the action, the document, the
answer). `permissionsForDocuments` takes an answer without the document for one without
the action, `hasPermissionForDocument` refuses: `ToldIsEnforced` says for every answer
where the two ways agree, and that this is where they do not.

### Routes, DocumentApi, AssetApi — the endpoints

`Routes` is a table: each endpoint and each job that writes memberships is the
list of its awaits, the action it checks, and whether a rejection is handled
(`Asyncified`) or not (`Bare`). `DocumentApi` says what the steps do: a request `r`
stands at `me[r].at`, has its copies of the document (`doc`) and of a membership
(`row`), and, in `AddMembersToMemberships`, one promise per member (`todo`), which
go on after the request is answered. `rows` is the table of memberships, without a
unique index, as in the database; a row is named by who created it and for whom.
`SaveMembership` writes what differs from the copy (`Changed`), as `save()` of
Sequelize does. `Reject` makes any query or call fail; `Throw` is what becomes of
that: an answer by `HandleErrors`, or a process that is `"dying"` for the 100 ms of
`index.ts:47-62`, in which its other requests go on, and then `"down"` (`Die`).
`AssetApi` adds the rows of assets and the files the assets service has: a call to
it may have done its work although its answer is lost.
`removed` and `raced` are ghosts.

### Workers — queue and event bus

Each worker process runs the jobs of the queue and watches over a child process,
the consumer of the event bus. A task is the list of its steps (`Tasks`), a job
goes from `"pushing"` (fire and forget, by a process that may die) to `"waiting"`,
`"active"` and one of the states in `Over`; `runs` are the executions, which go on
when their job has timed out, stalled or been deleted (`Settled` ignores them then). Thumbnail
jobs are unique: `Add` replaces one that waits, waits for one that is active, and deletes
an active one whose lock nobody renews (`Unlocked`: no run is left, or a delay keeps the
worker from it). A mail is posted by a client that repeats the request after network
errors, a POST too: `Retry`, at most `Retries` times, then `Post`; each may or may not have
arrived (`sent` counts what has). A worker that starts calls `queue.clean` (`Clean`): any of
the active jobs without a lock are `"deleted"`, those more than an hour old in the code,
and the pushes that wait for one of them may be told of no end: they are `"stuck"` until
the next job with that id ends (`EndJob`) or their process does.
At first all workers are down, and a job may be active that a worker left behind (`LeftJob`).
`Start`, `InitQueue`, `Shutdown`, `Reject`, `Exit` are the life of a worker,
`HandleErrors`, `Pause`, `HandlePausedState`, `Consume` that of a consumer. The
budget bounds what nobody controls: pauses, ends of processes, delays of runs.

### Slices, Mails, RevisionSessions, Pages — what people get to see

`Slices` has the algorithms on documents, sequences of characters of length one:
lines, the surroundings of a mention or a pane, the diff and its slices. `Ways` are
all shortest diffs, of which the library takes one. `Mails` composes one mail, a
step per query of `services/MentionEmail.ts` or `services/DocumentUpdateEmail.ts`,
while `Edit` goes on inserting and deleting characters. `Contents` applies one
`Operation` after the other, each `Within` the contents it is applied to;
`Transformed` is what operational transformation does to a position. `RevisionSessions` groups a history
by pauses that depend on the age of a revision at the time of the request
(`GetDocumentRevisions`), while time passes. `LastMonth` is `subtract(1, 'months')`:
any function of the time that goes back a week at least, since the calendar clamps the
day and the bound may be earlier at a later time. Each request takes its pauses from a
member of `Flags`, or from `NotReady`, the `false` that `LaunchDarklyHelper` answers while it
is not connected; a revision whose age the flag has no pause for makes the request fail
(`Throws`). An error of LaunchDarkly gives `DEFAULT_REVISION_METRICS`, which is one of the `Flags`. `Pages` runs the two side by side:
a behaviour is about a mail or about the history.

## 3 Runs

| Run | Instance | What it shows |
|---|---|---|
| `SubmitRetry` | two clients edit a document through two processes, one sends its operation twice; archival at any time; no failures | `ImplementsRevisionLog` (refinement), `AuthoredOnLog`, `AcknowledgedIsStored`, `NoRevisionOnArchived` |
| `SubmitFaults` | the same with a pane, beside an operation for a pane that does not exist; statement timeouts, commits reported as failed, crashes | `RevisionsContiguous`, `RebasedOnPredecessors`, `LatestBroadcastIsStored`, `RefusedStoresNothing` |
| `SubmitReuse` | misnumbered operations; one submission id used in three requests by two users, one of another team, on two documents; a user who may only comment | `SubmittedOnce`, `EmptyMeansStored`, `NoStandstill` |
| `SubmitFuture` | two clients that number operations anyhow | finding, see 5 |
| `ConnectionPool` | a process with three connections; a pane edit that is sent twice and a document edit that is not permitted, with one lock key; a visitor that nests; lost connections, waits that time out, the process ends; fair | `ConnectionsKept`, `StandstillIsFullPool`, `PoolOnlyDelays` (refinement of `SubmitOperation`), `EveryRequestAnswered` |
| `Snapshots` | one read and two workers; document, pane, copied pane; three revisions | `SnapshotInv`, `ReadsCompose`, `ReadsFresh` |
| `UniqueJob` | three calls from two processes; failing jobs, dying processes, expiring lock; fair | `LockExcludes`, `AcceptedKept`, `OldestFirst`, `EditsEnd` |
| `Presence` | two users on two servers, one may leave; two collections overlap; servers start, crash, one answers late; fair | `ListFits`, `SettlesUndisturbed`, `JoinerTold` |
| `UniqueJobFailed` | as `UniqueJob`, without crashes | finding, see 5 |
| `DocumentApi` | every endpoint alone, and beside one that changes the document; all pairs of those that write memberships or assets, three triples; two processes; queries and calls fail; fair | `DuplicatesOnlyFromRaces`, `RemovedStaysOut`, `OnlyAskedColumns`, `AddedAreMembers`, `AssetsAgree`, `ToldIsEnforced`, `RequestsEnd` |
| `Workers` | two workers with their consumers; each task alone, two messages, thumbnails of two edits, also beside a job left behind; starts, ends, pauses, delays; fair | `SendsBounded`, `ThumbnailFollows`, `WorkGetsDone` |
| `Pages` | a mail about a mention or updates of one of three documents, with two edits by two people; a history of three revisions asked for at any time | `MentionShown`, `UpdatesShown`, `LeftOutWroteAll`, `SessionsCover`, `SessionsOnlyMerge` |

**Bounds.** Three requests on one log are the smallest number with an original,
its repetition and a rival, so that a duplicate can overtake the original with
a revision of somebody else between them; revision 2 then exists, which
`IsValidOperation` treats differently from revision 1, and
`SnapshotCoefficient = 2` makes a snapshot due. `SubmitReuse` has a fourth
request for a circle of waits over two documents: two of the three waits
(advisory lock, inserted key) can then be crossed. In `SubmitFaults` the original of
a repetition may have been committed although the client was told it failed. The lock
key of a document and a pane is shared in `ConnectionPool`.
The log invariants are proved for all sizes (section 4), so their bounds matter
only for finding errors early. In `ConnectionPool`, three connections are the
fewest with which a submission can stand before the advisory lock while its holder asks
for a second connection (with two, only one submission at a time gets past its first
query). Each of three standstills occurs: two submissions that ask for a second
connection, one that waits for the lock beside its holder, one beside a visitor that
nests. In `Snapshots`, two workers and a reader are the
smallest number in which a reader meets a snapshot stored between its queries by
a worker that was itself overtaken; `MaxRevision = 3` leaves a revision after a
snapshot after a revision. In `UniqueJob`, three calls are one that holds, one
that waits or was dropped, one that comes later. In `Presence`, three collections
(two joins, one leave) of which `MaxActive = 2` overlap let a list be overtaken by
a later one, and let a user vanish between the responses of two servers;
`MaxLate = 1` lets one collection expire although its responses are on their way
(any number expire when a server has died). In `DocumentApi`, a hazard is two
writers, or one that reads before and writes after another; the triples are two
races that share a row, and a member added twice by one request beside its removal
and a first visit. Requests that write nothing the others read run alone or beside
one that changes the document (`MCScenarios`). `ToldIsEnforced` is evaluated for
every grant the rows have and every answer of index-api, the one that lacks the document
included; its bound is none. In
`Workers`, the scenarios are small because jobs do not interact but for thumbnails:
two edits give one job that is active, one that waits and is replaced or dropped;
one end of a process and one delay let a job stall and be run twice, or be deleted by
the worker that starts next; `LeftJob` is deleted under a push that waits for it, and that
push gets stuck, goes on or is lost; a mail is posted four times a run (`Retries = 3`, as in
the code), which with a stall makes the bound of `SendsBounded` eight; two messages
of different type and two ends let a consumer pause, die and resume in any order
(`PauseTicks = 6`, as in the code: 60 s in ticks of 10 s). In `Pages`, `MaxEdits = 2`
edits of any kind at any place move a mention, put an embed before it, make a
second author or delete what the first has written; `Text`, `WithPane` and
`WithBlocks` have a header, empty lines, a pane with text before it, and blocks
side by side. Ages are ticks, `Day < Week`, and the month ago of `MCLastMonth` goes back
once, from time 4 to time 5, the last; clocks are `Skew = 1` apart. `MCFlags` has pauses in
order, like the defaults, others in order and ones the other way round. Each of the four conditions
of `SessionsOnlyMerge` is needed in this instance: TLC finds it violated without any of them.

`CHECK_DEADLOCK FALSE` stands in every configuration because instances have
finitely many requests (or calls, or revisions) and stop when these are done.
Standstill of requests *under way* is checked by `NoStandstill` and
`EveryRequestAnswered` instead.

**Fairness.** `ConnectionPool!PoolFairSpec`: weak fairness of the steps of each
request, and of the end of its wait for a connection, by getting one or by giving up.
The event loop runs every continuation, PostgreSQL answers every query and serves lock
waits in order; a request takes each lock once, so no request can be overtaken for ever
among finitely many, and weak fairness is enough. generic-pool hands connections out
as they come back and gives up by a timer. Clients, archival and failures are not fair,
nor are the visitors of the pool, who may keep their connections.
`UniqueJob!FairSpec`: calls go
on, the worker starts and ends jobs (a Bull job has a timeout), a lock held long
enough expires. Making new calls is not fair, nor is the death of a process.
`Presence!FairSpec`: servers read what they are sent, Redis answers, timers run
out, lookups return; sockets come and go, and servers die and start, as they like.
`AssetApi!FairSpec`: every request makes its next step (the event loop runs each
continuation, queries and calls answer or time out), and a process that is to exit
exits. `Workers!FairSpec`: weak fairness of `Progress` as a whole, which leaves out
edits, failures, shutdowns, pauses and delays, all of which are bounded: something
that can go on goes on, until nothing can. `Pages!Spec` states safety only and has no
fairness.

**What is not run.** `TypeOK` and `NeverFromTheFuture` of submissions are proved
(`TypeCorrect`, `NotFromTheFuture`) and in no configuration.

**Claims that are conditional.** `AuthoredOnLog` and `AcknowledgedIsStored` are
claims for runs without failures: an operation is announced and acknowledged
before its commit, so a failing commit refutes both by design. What is left of
them with failures is `LatestBroadcastIsStored`: the latest announcement under a
number of a committed revision is that revision. The safety properties of
`UniqueJob` are claimed as long as `overdue = {}`, i.e. until a call goes on
after its lock has expired, which the code cannot notice.
`SettlesUndisturbed` is claimed while collections do not overlap and servers do
not fail: nothing in the code keeps an older list from being sent after a newer
one, and a list without users is sent when a collection expires. `ListFits` leaves
out collections during which a server subscribed between count and request.
`NoRevisionOnArchived` is claimed for documents; a pane operation looks at its
document once and may commit after an archival.
`DuplicatesOnlyFromRaces` and `RemovedStaysOut` leave out users for whom two
requests found no membership before either had created one (`raced`): the table has
no unique index, so both create one, and a removal then removes one of the two.
`OnlyAskedColumns` is about different columns: of two writers of one column the
later wins. `RequestsEnd` excepts what `GetMemberships` leaves hanging.
`ThumbnailFollows` is claimed while no job timed out, stalled or was deleted, since its run
goes on and may save an old picture; `SendsBounded` says what a stall may do, and counts
the attempts of the client that posts mails: "once" is claimed for none of them.
`WorkGetsDone` excepts pushes that wait for a job that was deleted (`"stuck"`), and has
a job come to its end by its deletion as well; TLC finds it violated without either.
`MentionShown` is claimed when nothing is committed between the two reads of the
mail, and while no embed precedes the mention (see 5). `UpdatesShown` leaves out the
header, newlines and what cannot be drawn, which the code leaves out on purpose.
`SessionsOnlyMerge` compares answers by the same pauses, longer ones for older
revisions, as the defaults are. It leaves out revisions that seem to be from the future,
by the clock of the process that answers, and those that the calendar makes younger: older
than a month at the first answer and not at the second. Both happen (see 5).

## 4 Proofs

All theorems hold for every value of the constants that satisfies the named
assumptions, with any number of requests, logs, calls and servers, any
assignment of lock keys and all failures: `LogAssumption`, `OperationAssumption` and
`RequestAssumption` of submissions, `PoolAssumption` of pools, `ReaderAssumption` of snapshots, `CallAssumption`
of unique jobs, `MembersAssumption` and `ScenariosAssumption` of the endpoints,
`SocketAssumption` of presence, `BoundsAssumption` and `ScenarioAssumption` of the
workers, `AgesAssumption` and `FlagsAssumption` of sessions, `InsertsAssumption` and
`MailScenariosAssumption` of mails. TLC evaluates each of them for the instances of
section 3.

**SubmitOperationProofs.**

- `LogInvariant`: `Spec => [](TypeOK /\ LogInv)`. That numbers have no gap is not
  inductive: it depends on what requests under way believe. `LogInv` adds, in
  this order of dependence,
  1. `LockExclusive`: transactions whose logs hash to one key are never both in
     a `LockedPhase` — hence never two of one log, whichever keys collide;
  2. `ReadsAreCurrent`: what a request has read under the lock (`last`, `over`)
     is still true when it uses it. It is disturbed only by a row appearing in
     the same log, and a row appears only by `Commit` or `CommitFails` of a
     request in a `LockedPhase`, which `LockExclusive` says is the request itself;
  3. `KeysClaimed`: an inserted submission key is neither committed nor inserted
     elsewhere (the unique index makes the second insertion wait). This, not the
     advisory lock, is what makes `SubmittedOnce` true across documents;
  4. `RowsAreSent`: rows belong to operations whose number is fixed.

  One lemma per group of actions shows each conjunct preserved; the lemmas
  `PassInv` and `AbortInv` serve the many steps that only move on.
- `Contiguous`, `StoredOnce`, `Rebased` follow from it.
- `ArchivedIsClosed`: no step stores a revision of an archived document. It needs
  `RowLockInv`: the timestamp hook locks the row of the document, and the last
  hook finds the document unarchived *under that lock*, so an archival cannot
  slip in before the commit.
- `NobodyWaitsInACircle`: while requests run, one of them finds what it asks for free
  (`NotWaiting` repeats the guards of the steps that wait). The lock, the key
  and the row are taken in this order, and whoever holds a row is its only holder
  (`RowsHeld`), so the request that is farthest does not wait. It is what can be
  stated of `NoStandstill` without `ENABLED`.
- `Refinement`: `Spec => ImplementsRevisionLog`. The mapping `LogView` reads the
  committed rows in the order of their numbers; it is well defined because the
  log is contiguous. A commit is a `Record`, every other step a stutter.

What clients and sockets are told is proved in the second part of the module, on top of
`LogInvariant`:

- `NotFromTheFuture` is a conjunct of `LogInv`.
- `EmptyIsStored` and `RefusedIsNotStored`, whatever fails, from `AnswersInv`: no answer
  has been given at any step before the broadcast (`Unanswered`), the answer of
  whoever is committing, committed or stored is its operation, and a conflict with the
  unique index is noted only when the key is committed.
- `LastAnnouncedIsStored`, whatever fails, from `LatestInv`: besides the committed
  revisions, the last announcement under the number a committing request will get is
  its own. A later broadcast under that number would need the lock.
- `AcknowledgedOnceStored` and `AuthoredOnStored` assume `Fault = {}`, without which
  they are false: a commit may fail after the answer. The former follows from
  `MadeInv`. The latter needs that all a client knows is `Settled` (stored, or held by
  a request that is committing): at the commit of an operation, nobody else on its log
  is committing, so all its author had seen is stored; and an operation is
  never among what its own author had seen.

The third part is about pools of connections, of any size, in any number of processes:

- `PoolInvariant`: nobody holds a connection that its next step does not need
  (`Fits`), each transaction past its first query has one, and no process hands out more
  than it has (`Bounded`, by counting what one step adds and removes).
  `NoConnectionLost` follows.
- `PoolRefines`: `PoolSpec => Spec`. A step of a client that waits for nothing is a step
  of `SubmitOperation`; a wait that is given up is a query that fails there. So all
  theorems above hold with pools of any size, among them `PoolKeepsLog`, the
  refinement of `RevisionLog`. Those that assume `Fault = {}` hold when no wait is given
  up: `TimesOut` needs `"connection"` to be among the faults.
- `OnlyFullPoolsStandStill`: as long as somebody is under way, somebody goes on, or the
  connections of some process are all taken by transactions, one of which waits for a
  second one there. If nobody goes on, nobody has a connection for a query: such a one
  has all it needs and stands before no lock (`QueryGoesOn`). If any transaction has a
  connection, one that has waits for no lock (`TransactionNotLocked`): from any request
  that asks for a lock or holds one, `FarthestGoesOn` leads to one that finds what it
  asks for, as in `NobodyWaitsInACircle`. It waits for a second connection, then, in
  a process whose pool is full of transactions (`FullOfTransactions`). If no transaction
  has a connection, no pool is in use, and whoever is under way goes on.

**SnapshotsProofs.** `SnapshotsCorrect` proves `SnapshotInv`: every stored
snapshot equals the composition of the revisions up to its own, and each call
knows after each query what `CallFits` says: the snapshot found is not beyond the
limit (`BaseFits`); a log that is a copy always has the snapshot of revision 0;
the last revision was read after the snapshot, hence is not before it.
`ReadsCorrect`, `ReadsCurrent` and `ReadsSomething` follow: the order of the three
queries is what makes them consistent.

**UniqueJobProofs.** `UniqueJobInvariant` proves `UniqueJobInv`, for any number of
calls in any number of processes. That two calls are never inside (`LockExcludes`) is
not inductive, because the token of the lock belongs to the process: a call of the
same process, or one whose lock has expired, can free it. The invariant has

1. `BaseInv`, which holds whatever expires: types; a job has data exactly when there
   is one; a call is accepted once, and the lock is with the latest; a call that has
   not read the job yet carries its own edit, which is nowhere else; only accepted
   edits have ended;
2. `HandedOver`: as long as nobody is overdue, whoever is inside has the lock, what
   it has read is the data of the job or has ended, and there is no job while it is
   about to add one;
3. `AcceptedKept` itself, preserved because of 2: data leaves the job only when a
   worker ends it or into the hands of the call that is alone inside;
4. `InOrder`: jobs, ended jobs, and what calls carry and have read hold edits in the
   order of `accepted`. A new call is the last of `accepted`, and appends itself.

`LockIsExclusive`, `AcceptedNotLost` and `MergedInOrder` follow.

**DocumentApiProofs.** `ScenariosAssumption` says what
there may be at first: at most one membership per user, none without a document,
nothing in the name of a request. Requests are any, of any kind of `Routes`.
Its first part finds what the lists of steps have in common (`WellFormed`: an asset
is inserted right after its file is stored, a membership written right after it is
looked up, and so on), list by list; the rest uses no more of the 41 entries
than this. `ApiInvariant` proves

1. `Control`: every request stands at a step of its handler, and a move (`Moves`)
   leaves, enters at the first step, advances by one, or takes one of three jumps;
2. `DocumentThere`: a request past `find` has a document, there is no membership
   without one, and no step makes it disappear;
3. `RowInv`: whoever is about to create a row of a user who has one by now is noted as
   racing (`Racing`, which makes `Twice` inductive), and whoever is about to write a
   row holds one of the user it is about (`RowHeld`, which makes `RemovedStaysOut`
   inductive);
4. `Stored`: the file of a request that has no row yet belongs to one that is about to
   insert it, or that failed.

`DuplicatesAreRaces`, `RemovedMembersStayOut` and `AssetsAndFilesAgree` follow.
`ToldPermissionsAreEnforced` is about the rules alone: it holds for every answer of
index-api, grant and visibility, hence in every state. For an answer with the document what
is told is what is checked; for one that lacks it the checks refuse whatever is told
(`UnreadableRefused`).
The last part adds that a request creates each of its rows once (`OwnRows`: no
step leads back before an insertion), from which `SavesOnlyWhatWasAsked` follows as a
property of steps; and that who counts as added or found has a row or was removed
(`Accounted`), from which `AddedMembersAreMembers` follows.

**PresenceProofs.** `ListsFit` is about what the adapter does not check: Redis tells it
how many servers subscribe, not which, and it takes as many responses for all. The
invariant `PresenceInv` counts what is under way. For a collection that gathers,
without a server that subscribed between count and request (`spoiled`),

1. responses in hand plus requests and responses in the inboxes (`Flight`) are at most
   as many as were counted: a request that is read becomes one response, a crash only
   loses some. So with the last response the inboxes hold nothing more of it;
2. each socket that has stayed is in a response in hand, in one on its way, or on a
   server that has the request before it. With 1, a complete list names it;
3. all responses name only users who were in the room since the collection began.

A collection that has not asked has nothing under way, because a socket joins and
leaves once. `FlightOfPop`, `FlightOfReply`, `FlightOfAsk` and `FlightOfLoss` say what
the four kinds of change of the inboxes do to the count; `FitsKept` then serves every
step for the collections that it does not advance.

`EverybodySeesTheRoom` (`SettlesUndisturbed`) adds `Settling`, about the order in which
lists arrive. Without overlaps and failures the only collection under way is about
exactly the sockets in the room (`Alone`), since whoever comes or goes begins one. When
its server asks, every list still in its own inbox comes before the request, which the
server has to answer itself (`ListsFirst`); by the count above the last response
comes when no request is left, hence no list either (`ListsRead`, `InTurn`), and the
new list is the last one everybody gets. Between collections, whoever does not see the
room as it is has a list waiting that shows it (`Shown`); the last of several counts.

**WorkersProofs.** `WorkersInvariant` proves `WorkersInv`, for any number of workers,
messages and edits. That a job sends no more than its executions and the attempts of its
client allow (`SendsBounded`) is not inductive: a run that a stall has orphaned goes on
beside the one that replaces it, and both may post again. `WorkersInv` counts instead what
may still be sent (`SentOK`): what a job has sent, plus what each of its two executions has
left (`SendsLeft`: all attempts while it is to come, those not used while it goes on,
none afterwards), is within the bound. It also says that a run is an execution
of a job that no longer waits (`RunsOK`), that a run which has pushed its event is over
(`EventsOK`, or its event would be added twice), and that no unread message and no edit
to come has a job yet (`UnreadOK`, `EditsOK`). `WorkersTyped` and
`SendsAreBounded` follow.
`ThumbnailShowsLastEdit` needs `ThumbnailInv` besides: as long as no thumbnail job has
stalled, failed, timed out, been lost or deleted, at most one waits or is active
(`OneAtATime`: a push waits for an active job and replaces one that waits), all runs are
of an active job, and when none is queued, what the last run has drawn is nothing or
the last edit (`LastDrawn`). The operators of the invariant take the jobs and runs as
arguments, because `End` changes them in stages (the job is settled, then an event
added) and each stage is followed by a lemma of its own.

**PagesProofs.** The sessions of a history, for histories of any length, any calendar
and any flag. `Grouped` is a recursive function; `AfterFits` shows that
one more revision keeps `Fits`, and induction gives that what is answered fits:
session by session, from the end of the one before to its own, with exactly the authors
of those revisions, each joined to the one before by the rule of pauses at the time it
was asked, and no session joinable to the next. `HistoryInvariant` adds that the last
answer goes on fitting the history it was made of, while revisions are added and time
passes; `SessionsTellHistory` follows. `SessionsMerge` compares two answers: pauses in order
only grow with the age of a revision (`PauseGrows`), so whoever followed still follows,
unless the revision was in the future or the month ago has gone back past it; nothing is assumed of
the calendar but that a month ago is a week ago at least.

**MailsProofs.** Mails, for any documents, logs and edits. `ContentsNext` unfolds the
contents after a revision; `InsertionApplied`, `DeletionApplied` say what an operation
does to them, position by position. On these rest three arguments, each with an
invariant on top of `MailTyped` (the log can be applied, and the job stands at a step
of its kind):

1. `RecipientsInvariant` (`LeftOut`): who was left out wrote all insertions up to the
   revision shown, because the authors are read later than the contents and the log only
   grows. `LeftOutIsRight` follows with `NewIsInserted`: what is new in the contents was
   inserted by one of the revisions since.
2. `MentionInvariant`: `Located` says that the position `transformDocumentOperation`
   gives is where the mention stands; it follows it through every later operation
   (`ShiftFollows`, `TransformedFollows`). If no embed precedes the mention, the
   length that `getSurroundingDelta` counts is that position (`NoEmbedLines`), and the
   line found is the one with the mention on it (`SurroundingFinds`). `MentionIsShown`
   follows.
3. `UpdateInvariant` (`UpdateShows`): what is new in the contents is in a slice, from
   the diff until the mail is sent. The diff (`AddedHasNew`): tokens partition a text
   (`TokensOrdered`); the tokens kept on both sides are spelled alike, so the n-th
   character kept on one side looks like the n-th on the other (`PlainKept`, by
   `RunsCarry`: a map that keeps the order keeps ranks); a word would then be the same
   character (`SameOrigin`), and of two embeds or mentions the new one is marked. The
   slices (`SlicesShow`): below the header, every character that ends no line is in a
   piece (`PieceHas`), a piece with something added is important, and every important
   piece is in the run that some slice is made of. `UpdatesAreShown` follows; that
   the way is a shortest one is not needed.

The induction over natural numbers in these two modules is that of `SetInduction`: a
set that has 0 and each successor has them all, from the well-foundedness of the order
on the naturals. It has no operator as a parameter.

Only model-checked: `NoStandstill` (uses `ENABLED`; see `NobodyWaitsInACircle`),
`EveryRequestAnswered`, `EditsEnd`, `JoinerTold`, `RequestsEnd`,
`WorkGetsDone` (liveness under fairness), which are out of the prover's reach.

## 5 Findings

Two comments of the code do not hold:

- `controllers/OperationController.ts:244` says the incoming revision should never be
  further ahead of the previous one than by exactly 1. The test is skipped when
  the previous revision is 0, so the first operation of a log is stored whatever
  number it carries (run `SubmitFuture`). `NeverFromTheFuture`, which is proved, is the weaker
  property that does hold.
- `util/QueueManager/QueueTask.ts:84` says that a call that finds the job locked waits
  for it to finish or fail and goes on. If the job fails, `job.finished()`
  rejects, the new job is not added, and the call's data is lost (run
  `UniqueJobFailed`).

Met while modelling, each visible in a definition or an exception of a property
above, but (with the exception named) contradicting no statement of the code about itself:

- `GetMemberships` sends no answer when the document does not exist or users-api does
  not know every member (`controllers/Document/Controller.ts:671-750`); `hanging`.
- A failing query in a route without `asyncify` (`:1136-1151`,
  `controllers/Private/`, `controllers/Permissions/`), in `fetchAsset` of the assets
  or in `autoSubscribe` ends the process; `Bare`, `Throw`.
- As many submissions at once as a process has connections stand still until a wait is
  given up, since each holds one and asks for a second. They need not be in the same
  phase: those that wait for the advisory lock of a single busy document hold theirs while
  its holder asks for a second one. Duplications of panes do the same.
  `StandstillIsFullPool` says that there is no other standstill.
- `SetAccessSettings` checks no permission (there is a todo at `:956`), and
  `GetPermissions` hands the team's id over as the document's (`:996`).
- A client may be told that it is allowed what every check refuses: for an answer of
  index-api that lacks the document, `permissionsForDocuments`
  (`services/permissions/Service.ts:73-81`) goes by the rules of the document alone, which
  let a member edit, while `hasPermissionForDocument` (`:211-218`) and the checks of joining
  refuse.
- Submitting an operation asks nobody, so an answer that index-api forces does not
  count there; a user may be mentioned who could join although viewing is denied.
- `getSurroundingDelta` counts a newline for the line of an embed: the text around a
  mention is off, or not found, after any embed; a pane after text on its line is not
  found; a mention at the start of a document makes `validateMentionDelta` throw.
- The mail about updates does not count authors of panes: who has edited only a pane
  is mailed his own work.
- A thumbnail lambda that does not succeed stores null over the picture there was.
- A worker that gets SIGTERM ends within 100 ms of its consumer, with jobs active.
- A worker that starts deletes active jobs that have no lock and were created more than an
  hour ago (`util/QueueManager/QueueProcessor.ts:86`): a delayed mail whose worker has ended
  is not run again if another worker starts before the stall is noticed. A push that waits
  in `job.finished()` for a job that is deleted waits until the next job with that id ends,
  holding the lock of the job meanwhile.
- A mail may arrive up to four times in one run of its job, and eight times if the job
  stalls, since the client repeats a POST whose connection broke
  (`services/DomainService.ts:22-25`). When no attempt succeeds, the error is logged and the
  job completes (`services/EmailerApiService.ts:84-86`).
- A revision with a time in the future, by another clock, gets the longest pause, and
  its session may be split later.
- Sessions are split at the ends of months (`controllers/Document/Controller.ts:369`): by
  the default pauses, revisions of Feb 28 at 00:30 and 15:00 share one for who asks on
  Mar 29 at 18:00, when a month ago is Feb 28 18:00 and they may be three days apart, and
  not on Mar 31 at 12:00, when it is Feb 28 12:00 and twelve hours are allowed. They are split
  as well when the flag changes, or for a user or team that has other pauses.
- While LaunchDarkly is not connected, or is not used at all (`Config.enableLD`), the helper
  answers `false` and not the default it was handed (`util/LaunchDarklyHelper.ts:116-121`);
  `metrics.pastDay.amount` then throws, and every history with two revisions in a row that
  are no reverts is answered with 500. The comment of the helper says that LaunchDarkly
  should never break anything (`:4-8`). With LaunchDarkly in use the access check before the
  endpoint refuses such a request first.

## 6 What is assumed

About libraries, whose behaviour is modelled from how the code uses them:

- PostgreSQL runs at READ COMMITTED (Sequelize sets no level). Locks are released
  when the commit is visible. An INSERT waits for another transaction that has
  inserted the same unique key. `save()` of Sequelize writes changed columns
  only, and an association getter applies the default scope of its target.
- A managed transaction of Sequelize has rolled back before its rejection reaches
  `.catch`, has its connection before its callback runs, and gives it back when it has
  ended. A query without a transaction has one until it is answered. A wait for a
  connection that lasts too long is rejected with an error that is none of those
  `_handleOperationError` knows.
- Bull (3.x): `remove()` fails for a job that a worker has locked and succeeds
  for one that is gone; `add` under an id that exists does nothing; `finished()`
  asks once and then listens for the next end of that id; the lock is
  `SET NX PX` with a token per process.
- socket.io 2: a socket that disconnects leaves its rooms before its listeners are
  called; `clients()` of the base adapter counts connected sockets only. Redis
  executes a command when it is sent; the delay is in the reading of what was
  published. An error of a Redis client ends the process: the adapter the sockets
  use has no listener for it, so it is among the causes of `Crash`.
- Further of Bull: a job whose lock is not renewed is found to be stalled and run
  again, `maxStalledCount` times (once); one that times out has failed while its
  function runs on. `clean('active')` deletes jobs by their age, those that are locked
  excepted, and announces no end; so does `remove()` of an active job whose lock has expired.
- axios-retry repeats a request that is not idempotent only when there was no answer, and
  not after a timeout. forever-monitor starts a child again a limited number of times.
- The diff of two texts is one of the shortest; `Delta.transform` lets an earlier
  insertion at the same place come first.
- An unhandled rejection ends the process (`index.ts:47-62`).
- The advisory lock's hash may collide (`LockKey` is any function).

## 7 What is left out

- In `SubmitOperation`: the transformation itself; `subscribeUser` and
  `autoSubscribe`, which run beside the handler without being awaited (the latter is a
  job of `DocumentApi`); request validation before the handler; which event names and
  payloads are sent. The step `UpdateTitle` reads the document and saves it at once, two
  statements in the code; a transformation that throws for other reasons than a stale
  revision takes the path of a failing query.
- In `Snapshots`: the actual composing of deltas.
- In `UniqueJob`: several job ids (they share nothing but processes); that the worker which
  runs the job ends, or that the job is deleted while it is active, which is in `Workers`.
- In `Presence`: cursor messages and other events of a room, single emits; the other
  requests of the adapter, which nobody makes.
- In `Routes` and `DocumentApi`: what read-only endpoints answer; the transactions of
  panes (one await each); paging; the feature flags.
- In `Workers`: the handling of missing topics and the offset a new consumer group
  starts from; metrics; the lock of unique jobs, which is in `UniqueJob`; what analytics, the
  event bus and the sockets repeat by themselves. The client of the other services repeats
  its other requests as well; what assets-api does twice is the same as a call whose answer
  is lost, in `AssetApi`.
- In `Slices` and `Mails`: attributes of text, the space that `getDiff` puts before
  what was added, the export as text, wording and layout, the resolution of
  prototype URLs.
- In `ConnectionPool`: the order in which waiting clients are served, whose every
  choice the properties hold for; idle connections, their
  number (`pool.min`) and reconnecting; the pools of the workers, which submit nothing.
- Analytics, metrics, logging: no state the rest depends on.

## 8 Plan

Done: `RevisionLog`, `SubmitOperation`, `ConnectionPool`, `Snapshots`, `UniqueJob`, `PermissionRules`,
`Routes`, `DocumentApi`, `AssetApi`, `Presence`, `Workers`, `Slices`, `Mails`,
`RevisionSessions` and `Pages`, with their proofs.

What is left are extensions: cursor messages and other events of a room, the requests
that read only, paging, the pools of the workers.

## 9 Conventions

Every module names the code it models in its comments; `PROJECT.json` maps each
definition to its lines. Operators introduced by a comment that starts with
"Mutant" are not part of the model: each is a plausible error in the definition
after it, and the `mutants` of `PROJECT.json` say which property detects it.
An MC module holds the constants of the small instances of the module it extends.

    tlc -config MCSubmitRetry.cfg MCSubmitOperation.tla
    tlapm SubmitOperationProofs.tla
