------------------------------ MODULE Workers ------------------------------
(***************************************************************************)
(* The worker processes: each runs the jobs of the queue, and watches over *)
(* a child process that consumes the event bus.  Processes die and start   *)
(* again at any time, jobs fail, time out and stall, pushes get lost.      *)
(*                                                                         *)
(* Bull, forever-monitor and the event bus are modelled from how the code  *)
(* uses them.  How unique jobs get their lock is in UniqueJob.             *)
(***************************************************************************)
EXTENDS Naturals, Sequences

CONSTANTS
    Worker,
    Message,       \* the types of the messages of the topic, in their order
    Edits,         \* bound: edits of the document
    PauseTicks,    \* MAX_PAUSE_DURATION / PAUSE_INTERVAL
    Scenarios      \* what there is at first

VARIABLES
    worker,    \* "up", "closing", "dying", "down" or "starting"
    consumer,  \* the child of each worker: "up", "paused" or "down"
    ticks,     \* pauseDuration / PAUSE_INTERVAL
    unread,    \* the messages nobody has acknowledged
    jobs,      \* every job: its state, who pushes it, and how often it stalled and sent
    runs,      \* the executions of jobs that go on: [worker, at, copy, tries]
    version,   \* edits of the document so far
    thumbnail, \* the version its thumbnail shows, 0 for none
    budget     \* bound: the pauses, ends of processes and delays of runs still to come

vars == <<worker, consumer, ticks, unread, jobs, runs, version, thumbnail, budget>>
processVars == <<worker, consumer, ticks, budget>>
documentVars == <<version, thumbnail>>

-----------------------------------------------------------------------------
\* What the worker function of each task does, step by step.
SnapshotQueueTask == <<"findLive", "saveSnapshot">>
PanesSnapshotTask == <<"findPane", "saveSnapshot">>
ThumbnailQueueTask == <<"findLive", "contents", "render", "saveThumbnail", "announce">>
UpdateLastViewedTask == <<"findLive", "saveMembership", "announce">>
MentionQueueTask == <<"compose", "post">>
UpdateEmailQueueTask == <<"compose", "post">>
DocumentSessionQueueTask == <<"send">>
EventBusProducerTask == <<"send", "close">>
FreehandUpdateTask == <<"findRevisions", "send">>

Tasks ==
    [snapshot |-> SnapshotQueueTask, panesSnapshot |-> PanesSnapshotTask,
     thumbnail |-> ThumbnailQueueTask, lastViewed |-> UpdateLastViewedTask,
     mention |-> MentionQueueTask, updateEmail |-> UpdateEmailQueueTask,
     session |-> DocumentSessionQueueTask, event |-> EventBusProducerTask,
     freehand |-> FreehandUpdateTask]

\* A job has its task, what it was pushed for, and a number.
Task(job) == job[1]
FreehandJob(m) == <<"freehand", "message", m>>
ThumbnailJob(v) == <<"thumbnail", "edit", v>>
LeftJob == <<"thumbnail", "left", 0>>
EventOf(run) == <<"event", run[1], run[2]>>

Freehand == "freehand-significantly-changed"
Over == {"completed", "failed", "timedOut", "lost", "dropped", "replaced", "deleted"}
State(j) == IF j \in DOMAIN jobs THEN jobs[j].state ELSE "none"
With(f, x, e) == [y \in (DOMAIN f) \cup {x} |-> IF y = x THEN e ELSE f[y]]
SetState(all, j, state) == [all EXCEPT ![j].state = state]

\* A push begins; its caller goes on at once.
Pushed(by) == [state |-> "pushing", by |-> by, stalls |-> 0, sent |-> 0]
Push(all, j, by) == With(all, j, Pushed(by))

\* Thumbnail jobs are unique: at most one is in the queue.
OtherThumbnails(j) ==
    IF Task(j) = "thumbnail" THEN {k \in (DOMAIN jobs) \ {j} : Task(k) = "thumbnail"} ELSE {}

\* The end of a job, as Bull announces it.  A push that waits for one that is gone
\* hears the end of the next with that id: it goes on, or is rejected.
EndJob(all, j, state) ==
    [k \in DOMAIN all |->
        IF k = j THEN [all[k] EXCEPT !.state = state]
        ELSE IF k \in OtherThumbnails(j) /\ all[k].state = "stuck"
        THEN [all[k] EXCEPT !.state = IF state = "completed" THEN "pushing" ELSE "lost"]
        ELSE all[k]]

\* Nobody renews the lock of the job: its worker is gone, or too busy.
Orphan(j) == \A r \in DOMAIN runs : r[1] # j
Unlocked(some) ==
    \/ (\A j \in some : Orphan(j)) /\ UNCHANGED budget
    \/ /\ \E j \in some : ~Orphan(j)
       /\ budget.delays > 0
       /\ budget' = [budget EXCEPT !.delays = @ - 1]

-----------------------------------------------------------------------------
\* What a process that ends leaves behind: pushes are lost, jobs stay active.
LosePushes(gone) ==
    jobs' = [j \in DOMAIN jobs |->
                IF jobs[j].state \in {"pushing", "stuck"} /\ jobs[j].by \in gone
                THEN [jobs[j] EXCEPT !.state = "lost"]
                ELSE jobs[j]]

Child(w) == <<w, "child">>
Main(w) == <<w, "main">>
Api == <<"api", "main">>

\* worker.ts: the child is started at once, the queue after LaunchDarkly answers.
Start(w) ==
    /\ worker[w] = "down"
    /\ worker' = [worker EXCEPT ![w] = "starting"]
    /\ consumer' = [consumer EXCEPT ![w] = "up"]
    /\ ticks' = [ticks EXCEPT ![w] = 0]
    /\ UNCHANGED <<unread, jobs, runs, documentVars, budget>>

\* queue.clean: jobs that are active, unlocked and older than an hour are deleted.
\* Nobody tells the pushes that wait for them.
Clean(old) ==
    /\ \A j \in old : State(j) = "active"
    /\ Unlocked(old)
    /\ \E deaf \in SUBSET {j \in DOMAIN jobs :
                            State(j) = "pushing" /\ OtherThumbnails(j) \cap old # {}} :
          jobs' = [j \in DOMAIN jobs |->
                      IF j \in old THEN [jobs[j] EXCEPT !.state = "deleted"]
                      ELSE IF j \in deaf THEN [jobs[j] EXCEPT !.state = "stuck"]
                      ELSE jobs[j]]

\* QueueProcessor.init.  A timeout of waitForConnect is an unhandled rejection.
InitQueue(w) ==
    /\ worker[w] = "starting"
    /\ \/ /\ worker' = [worker EXCEPT ![w] = "up"]
          /\ \E old \in SUBSET DOMAIN jobs : Clean(old)
       \/ /\ budget.exits > 0
          /\ worker' = [worker EXCEPT ![w] = "dying"]
          /\ budget' = [budget EXCEPT !.exits = @ - 1]
          /\ UNCHANGED jobs
    /\ UNCHANGED <<consumer, ticks, unread, runs, documentVars>>

\* SIGTERM: the queue is closed, the child stopped; its exit ends the worker, within
\* 100 ms, whatever jobs are active.
Shutdown(w) ==
    /\ worker[w] \in {"starting", "up"}
    /\ budget.exits > 0
    /\ budget' = [budget EXCEPT !.exits = @ - 1]
    /\ worker' = [worker EXCEPT ![w] = "closing"]
    /\ consumer' = [consumer EXCEPT ![w] = "down"]
    /\ LosePushes({Child(w)})
    /\ UNCHANGED <<ticks, unread, runs, documentVars>>

\* An unhandled rejection or exception in the worker.
Reject(w) ==
    /\ worker[w] \in {"starting", "up"}
    /\ budget.exits > 0
    /\ budget' = [budget EXCEPT !.exits = @ - 1]
    /\ worker' = [worker EXCEPT ![w] = "dying"]
    /\ UNCHANGED <<consumer, ticks, unread, jobs, runs, documentVars>>

Exit(w) ==
    /\ worker[w] \in {"closing", "dying"}
    /\ worker' = [worker EXCEPT ![w] = "down"]
    /\ consumer' = [consumer EXCEPT ![w] = "down"]
    /\ LosePushes({Main(w), Child(w)})
    /\ runs' = [r \in {q \in DOMAIN runs : runs[q].worker # w} |-> runs[r]]
    /\ UNCHANGED <<ticks, unread, documentVars, budget>>

-----------------------------------------------------------------------------
\* event-bus/consumer.  An error ends the child; the monitor starts it again, or
\* gives up and the worker ends too.
HandleErrors(w) ==
    /\ consumer[w] # "down" /\ worker[w] \in {"starting", "up"}
    /\ budget.exits > 0
    /\ budget' = [budget EXCEPT !.exits = @ - 1]
    /\ LosePushes({Child(w)})
    /\ \/ /\ consumer' = [consumer EXCEPT ![w] = "up"]
          /\ UNCHANGED worker
       \/ /\ consumer' = [consumer EXCEPT ![w] = "down"]
          /\ worker' = [worker EXCEPT ![w] = "dying"]
    /\ ticks' = [ticks EXCEPT ![w] = 0]
    /\ UNCHANGED <<unread, runs, documentVars>>

Pause(w) ==
    /\ consumer[w] = "up"
    /\ budget.pauses > 0
    /\ budget' = [budget EXCEPT !.pauses = @ - 1]
    /\ consumer' = [consumer EXCEPT ![w] = "paused"]
    /\ UNCHANGED <<worker, ticks, unread, jobs, runs, documentVars>>

\* Mutant: the pause is forgotten in the tick that should end it.
HandlePausedStateNever(w) ==
    /\ consumer[w] \in {"up", "paused"}
    /\ ticks' = [ticks EXCEPT ![w] =
                    IF consumer[w] = "paused" /\ @ < PauseTicks THEN @ + 1 ELSE 0]
    /\ UNCHANGED <<worker, consumer, unread, jobs, runs, documentVars, budget>>

\* A tick of the timer.
HandlePausedState(w) ==
    /\ consumer[w] \in {"up", "paused"}
    /\ IF consumer[w] = "paused" /\ ticks[w] < PauseTicks
       THEN /\ ticks' = [ticks EXCEPT ![w] = @ + 1]
            /\ UNCHANGED consumer
       ELSE /\ ticks' = [ticks EXCEPT ![w] = 0]
            /\ consumer' = [consumer EXCEPT ![w] = "up"]
    /\ UNCHANGED <<worker, unread, jobs, runs, documentVars, budget>>

\* A message is acknowledged as soon as the push of its job has begun; one of
\* another type at once.
Consume(w) ==
    /\ consumer[w] = "up"
    /\ unread # << >>
    /\ unread' = Tail(unread)
    /\ jobs' = IF Message[Head(unread)] = Freehand
               THEN Push(jobs, FreehandJob(Head(unread)), Child(w))
               ELSE jobs
    /\ UNCHANGED <<processVars, runs, documentVars>>

-----------------------------------------------------------------------------
\* An edit of the document, whose handler pushes a thumbnail job.
Edit ==
    /\ version < Edits
    /\ version' = version + 1
    /\ jobs' = Push(jobs, ThumbnailJob(version + 1), Api)
    /\ UNCHANGED <<processVars, unread, runs, thumbnail>>

\* Mutants: an active job is not waited for; a job is added once more although the
\* first attempt had arrived.
AddAtOnce(j) ==
    /\ State(j) = "pushing"
    /\ jobs' = SetState(jobs, j, "waiting")
    /\ UNCHANGED <<processVars, unread, runs, documentVars>>

AddAgain(j) ==
    /\ State(j) \in {"pushing", "completed"}
    /\ jobs' = SetState(jobs, j, "waiting")
    /\ UNCHANGED <<processVars, unread, runs, documentVars>>

\* A thumbnail job that waits is replaced, and so is an active one without a lock;
\* one that is locked is waited for.
Add(j) ==
    /\ State(j) = "pushing"
    /\ Unlocked({k \in OtherThumbnails(j) : State(k) = "active"})
    /\ jobs' = [k \in DOMAIN jobs |->
                   IF k = j THEN [jobs[k] EXCEPT !.state = "waiting"]
                   ELSE IF k \in OtherThumbnails(j) /\ State(k) = "waiting"
                   THEN [jobs[k] EXCEPT !.state = "replaced"]
                   ELSE IF k \in OtherThumbnails(j) /\ State(k) = "active"
                   THEN [jobs[k] EXCEPT !.state = "deleted"]
                   ELSE jobs[k]]
    /\ UNCHANGED <<worker, consumer, ticks, unread, runs, documentVars>>

\* Redis refuses, or the job waited for fails.  _generateTaskPusher has no catch: a
\* worker ends, node 12 leaves the child alone.
LosePush(j) ==
    /\ State(j) = "pushing"
    /\ \/ /\ budget.exits > 0
          /\ budget' = [budget EXCEPT !.exits = @ - 1]
          /\ worker' = [w \in Worker |->
                           IF jobs[j].by = Main(w) /\ worker[w] = "up" THEN "dying"
                           ELSE worker[w]]
       \/ /\ \E k \in OtherThumbnails(j) : State(k) \in {"failed", "timedOut"}
          /\ UNCHANGED <<worker, budget>>
    /\ jobs' = SetState(jobs, j, "lost")
    /\ UNCHANGED <<consumer, ticks, unread, runs, documentVars>>

\* Another push of the same unique job has the lock.
DropPush(j) ==
    /\ State(j) = "pushing"
    /\ \E k \in OtherThumbnails(j) : State(k) \in {"pushing", "stuck"}
    /\ jobs' = SetState(jobs, j, "dropped")
    /\ UNCHANGED <<processVars, unread, runs, documentVars>>

\* A worker takes a job.  Bull runs a job that has stalled again, once.
MaxStalls == 1

Take(w, j) ==
    /\ worker[w] \in {"up", "dying"}
    /\ State(j) = "waiting"
    /\ jobs' = SetState(jobs, j, "active")
    /\ runs' = With(runs, <<j, jobs[j].stalls + 1>>,
                    [worker |-> w, at |-> Head(Tasks[Task(j)]), copy |-> 0, tries |-> 0])
    /\ UNCHANGED <<processVars, unread, documentVars>>

-----------------------------------------------------------------------------
\* The steps of a run.  A run whose job has timed out, stalled or been deleted goes on,
\* but what becomes of it is of no interest to the queue.
Settled(all, r, state) ==
    IF State(r[1]) = "active" /\ r[2] = jobs[r[1]].stalls + 1
    THEN EndJob(all, r[1], state)
    ELSE all

WithoutRun(r) == [q \in (DOMAIN runs) \ {r} |-> runs[q]]
End(r, state) == jobs' = Settled(jobs, r, state) /\ runs' = WithoutRun(r)

\* The run goes to its next step with a new copy; all are the jobs by then.
Advance(r, copy, all) ==
    LET steps == Tasks[Task(r[1])]
        i == CHOOSE k \in DOMAIN steps : steps[k] = runs[r].at
    IN  IF i = Len(steps)
        THEN jobs' = Settled(all, r, "completed") /\ runs' = WithoutRun(r)
        ELSE jobs' = all /\ runs' = [runs EXCEPT ![r].at = steps[i + 1], ![r].copy = copy]

\* A document that is archived by now is not found; a mail may have nobody to tell.
Find(r) ==
    /\ runs[r].at \in {"findLive", "findPane", "findRevisions", "compose"}
    /\ \/ Advance(r, 0, jobs)
       \/ runs[r].at = "findLive" /\ End(r, "failed")
       \/ runs[r].at = "compose" /\ End(r, "completed")
    /\ UNCHANGED <<processVars, unread, documentVars>>

\* createThumbnail: the contents, and a picture of them, or null when the lambda
\* does not succeed.
Contents(r) ==
    /\ runs[r].at = "contents"
    /\ Advance(r, version, jobs)
    /\ UNCHANGED <<processVars, unread, documentVars>>

Render(r) ==
    /\ runs[r].at = "render"
    /\ \E key \in {runs[r].copy, 0} : Advance(r, key, jobs)
    /\ UNCHANGED <<processVars, unread, documentVars>>

SaveThumbnail(r) ==
    /\ runs[r].at = "saveThumbnail"
    /\ thumbnail' = runs[r].copy
    /\ Advance(r, 0, jobs)
    /\ UNCHANGED <<processVars, unread, version>>

\* Writes that are modelled elsewhere.
Save(r) ==
    /\ runs[r].at \in {"saveSnapshot", "saveMembership", "close"}
    /\ Advance(r, 0, jobs)
    /\ UNCHANGED <<processVars, unread, documentVars>>

\* A message for the event bus or the analytics, or a broadcast to sockets.
Send(r) ==
    /\ runs[r].at = "send"
    /\ Advance(r, 0, [jobs EXCEPT ![r[1]].sent = @ + 1])
    /\ UNCHANGED <<processVars, unread, documentVars>>

\* DomainService posts again when the connection fails, so many times.
Retries == 3

\* A mail may have arrived although its post has failed.
Retry(r) ==
    /\ runs[r].at = "post" /\ runs[r].tries < Retries
    /\ runs' = [runs EXCEPT ![r].tries = @ + 1]
    /\ \E arrived \in {0, 1} : jobs' = [jobs EXCEPT ![r[1]].sent = @ + arrived]
    /\ UNCHANGED <<processVars, unread, documentVars>>

\* The last post, whose failure is only logged.
Post(r) ==
    /\ runs[r].at = "post"
    /\ \E arrived \in {0, 1} : Advance(r, 0, [jobs EXCEPT ![r[1]].sent = @ + arrived])
    /\ UNCHANGED <<processVars, unread, documentVars>>

\* The job ends while the push of its event goes on.
Announce(r) ==
    /\ runs[r].at = "announce"
    /\ Advance(r, 0, Push(jobs, EventOf(r), Main(runs[r].worker)))
    /\ UNCHANGED <<processVars, unread, documentVars>>

RunStep(r) ==
    \/ Find(r) \/ Contents(r) \/ Render(r) \/ SaveThumbnail(r) \/ Save(r) \/ Send(r)
    \/ Retry(r) \/ Post(r) \/ Announce(r)

\* A query or a call fails.
Fail(r) ==
    /\ runs[r].at # "post"
    /\ End(r, "failed")
    /\ UNCHANGED <<processVars, unread, documentVars>>

\* The timeout of the job: it has failed, and its run goes on.
Timeout(j) ==
    /\ State(j) = "active"
    /\ budget.delays > 0
    /\ budget' = [budget EXCEPT !.delays = @ - 1]
    /\ jobs' = EndJob(jobs, j, "timedOut")
    /\ UNCHANGED <<worker, consumer, ticks, unread, runs, documentVars>>

Stall(j) ==
    /\ State(j) = "active"
    /\ Unlocked({j})
    /\ jobs' = IF jobs[j].stalls < MaxStalls
               THEN [jobs EXCEPT ![j].stalls = @ + 1, ![j].state = "waiting"]
               ELSE EndJob(jobs, j, "failed")
    /\ UNCHANGED <<worker, consumer, ticks, unread, runs, documentVars>>

-----------------------------------------------------------------------------
\* The bounds count, and what there is at first is: messages of the topic, none of
\* them twice, jobs of the API, each with its own number, and perhaps a job that is
\* active although the worker that took it has ended.  No worker has started yet.
ASSUME BoundsAssumption == PauseTicks \in Nat /\ Edits \in Nat
ASSUME ScenarioAssumption ==
    \A s \in Scenarios :
        /\ s.version \in 0..Edits
        /\ s.unread \in Seq(DOMAIN Message)
        /\ \A i, k \in DOMAIN s.unread : s.unread[i] = s.unread[k] => i = k
        /\ s.jobs \subseteq ((DOMAIN Tasks) \ {"event"}) \X {"api"} \X Nat
        /\ s.left \subseteq {LeftJob}

Init ==
    /\ \E s \in Scenarios :
          /\ unread = s.unread
          /\ jobs = [j \in s.jobs \cup s.left |->
                        IF j \in s.left THEN [Pushed(Api) EXCEPT !.state = "active"]
                        ELSE Pushed(Api)]
          /\ version = s.version
          /\ thumbnail = s.version
          /\ budget = s.budget
    /\ worker = [w \in Worker |-> "down"]
    /\ consumer = [w \in Worker |-> "down"]
    /\ ticks = [w \in Worker |-> 0]
    /\ runs = << >>

ProcessStep(w) ==
    \/ Start(w) \/ InitQueue(w) \/ Shutdown(w) \/ Reject(w) \/ Exit(w)
    \/ HandleErrors(w) \/ Pause(w) \/ HandlePausedState(w) \/ Consume(w)
    \/ \E j \in DOMAIN jobs : Take(w, j)

JobStep(j) == Add(j) \/ LosePush(j) \/ DropPush(j) \/ Timeout(j) \/ Stall(j)

Next ==
    \/ \E w \in Worker : ProcessStep(w)
    \/ \E j \in DOMAIN jobs : JobStep(j)
    \/ \E r \in DOMAIN runs : RunStep(r) \/ Fail(r)
    \/ Edit

Spec == Init /\ [][Next]_vars

\* The platform starts what has ended, timers fire, Redis, the event bus and the
\* services answer; a job whose worker is gone is found to be stalled.
Progress ==
    \/ \E w \in Worker :
          \/ Start(w) \/ InitQueue(w) \/ Exit(w) \/ HandlePausedState(w) \/ Consume(w)
          \/ \E j \in DOMAIN jobs : Take(w, j)
    \/ \E j \in DOMAIN jobs : Add(j) \/ (Orphan(j) /\ Stall(j))
    \/ \E r \in DOMAIN runs : RunStep(r)

FairSpec == Spec /\ WF_vars(Progress)

-----------------------------------------------------------------------------
\* The values of the variables; a job is named by its task and what it is for.
TypeOK ==
    /\ worker \in [Worker -> {"starting", "up", "closing", "dying", "down"}]
    /\ consumer \in [Worker -> {"up", "paused", "down"}]
    /\ ticks \in [Worker -> 0..PauseTicks]
    /\ \A i \in DOMAIN unread : unread[i] \in DOMAIN Message
    /\ \A j \in DOMAIN jobs :
          /\ Task(j) \in DOMAIN Tasks
          /\ jobs[j] \in [state : {"pushing", "stuck", "waiting", "active"} \cup Over,
                          by : {Api} \cup (Worker \X {"main", "child"}),
                          stalls : 0..MaxStalls,
                          sent : 0..((MaxStalls + 1) * (Retries + 1))]
    /\ DOMAIN runs \subseteq (DOMAIN jobs) \X (1..(MaxStalls + 1))
    /\ \A r \in DOMAIN runs : runs[r].tries \in 0..Retries
    /\ version \in 0..Edits /\ thumbnail \in 0..version

\* A job sends at most once for each time it was run, a mail at most as often as its
\* client posts it; and it is run once more only after it has stalled: a job that
\* fails, times out or is deleted, or whose process ends while it only waits, is not.
Attempts(j) == IF Task(j) \in {"mention", "updateEmail"} THEN 1 + Retries ELSE 1
SendsBounded == \A j \in DOMAIN jobs : jobs[j].sent <= (1 + jobs[j].stalls) * Attempts(j)

\* When all thumbnail jobs have ended well, the thumbnail shows the last edit, also
\* if the push for that edit was dropped or its job replaced; or there is none
\* because the lambda failed.  A run that has timed out or stalled, or whose job was
\* deleted, may spoil it.
ThumbnailFollows ==
    LET thumbnails == {j \in DOMAIN jobs : Task(j) = "thumbnail"}
    IN  (/\ thumbnails # {}
         /\ \A j \in thumbnails :
               jobs[j].state \in {"completed", "dropped", "replaced"} /\ jobs[j].stalls = 0)
        => thumbnail \in {0, version}

\* In the end every message has been acknowledged, also after pauses and errors of
\* the consumers, and every job that was pushed has come to its end, also when the
\* worker that ran it has ended: it has been run again, has failed, or was deleted.
\* A push that waits for a job that was deleted may wait for ever.  A freehand update
\* that was acknowledged has been told to the sockets, unless its push was lost, or
\* its job failed or was deleted.
WorkGetsDone ==
    /\ <>[](\A j \in DOMAIN jobs : jobs[j].state \in Over \cup {"stuck"})
    /\ \A m \in DOMAIN Message :
          (\E i \in DOMAIN unread : unread[i] = m) ~>
              (\/ Message[m] # Freehand
               \/ State(FreehandJob(m)) \in {"failed", "timedOut", "lost", "deleted"}
               \/ State(FreehandJob(m)) = "completed" /\ jobs[FreehandJob(m)].sent > 0)
=============================================================================
