--------------------------- MODULE WorkersProofs ---------------------------
(***************************************************************************)
(* Theorems about Workers, for any number of workers, messages and jobs,   *)
(* and any ends, pauses, timeouts and stalls.  Every execution of a job    *)
(* has a number, one more than the job has stalled by then; the proof      *)
(* follows which executions may still come, go on or be over.              *)
(***************************************************************************)
EXTENDS Workers, TLAPS

Queued == {"pushing", "stuck", "waiting"}
JobState == Queued \cup {"active"} \cup Over

Job == [state : JobState, by : {Api} \cup (Worker \X {"main", "child"}),
        stalls : 0..MaxStalls, sent : 0..((MaxStalls + 1) * (Retries + 1))]

\* The steps of a task, and those that come before a message is out, or the last post
\* of a mail.
StepsOf(t) == {Tasks[t][i] : i \in DOMAIN Tasks[t]}
BeforeSend == {"findRevisions", "compose", "send", "post"}

-----------------------------------------------------------------------------
(***************************************************************************)
(* What must hold of all jobs, the runs going on, the unread messages and  *)
(* the versions.  Each part is an operator of the values it relates, so    *)
(* that it can be followed through a step in several stages.               *)
(***************************************************************************)
JobsOK(all) == \A j \in DOMAIN all : Task(j) \in DOMAIN Tasks /\ all[j] \in Job

\* The nth execution of j waits for a worker, or will.
ToCome(all, j, n) == n = all[j].stalls + 1 /\ all[j].state \in Queued

\* How often it may still send: it waits, or goes on and has posted so many times.
SendsLeft(all, going, j, n) ==
    IF ToCome(all, j, n) THEN Attempts(j)
    ELSE IF <<j, n>> \in DOMAIN going /\ going[<<j, n>>].at \in BeforeSend
    THEN Attempts(j) - going[<<j, n>>].tries
    ELSE 0

\* Only a mail is posted again.
Run(j, v) ==
    [worker : Worker, at : StepsOf(Task(j)), copy : 0..v, tries : 0..(Attempts(j) - 1)]

\* A run is an execution of a job that no longer waits.
RunsOK(all, going, v) ==
    \A r \in DOMAIN going :
        \E j \in DOMAIN all, n \in 1..(MaxStalls + 1) :
            /\ r = <<j, n>>
            /\ n <= all[j].stalls + 1
            /\ ~ ToCome(all, j, n)
            /\ going[r] \in Run(j, v)

\* What a job has sent and what its executions may still send is within its bound.
Allowed(all, j) == (1 + all[j].stalls) * Attempts(j)
SentOK(all, going) ==
    \A j \in DOMAIN all :
        all[j].sent + SendsLeft(all, going, j, 1) + SendsLeft(all, going, j, 2) <= Allowed(all, j)

\* The event of a run is pushed in its last step.
EventsOK(all, going) ==
    \A j \in DOMAIN all, n \in 1..(MaxStalls + 1) :
        EventOf(<<j, n>>) \in DOMAIN all =>
            /\ <<j, n>> \notin DOMAIN going
            /\ n <= all[j].stalls + 1
            /\ ~ ToCome(all, j, n)

EventNames(all) ==
    \A e \in DOMAIN all : Task(e) = "event" =>
        \E j \in DOMAIN all, n \in 1..(MaxStalls + 1) : e = EventOf(<<j, n>>)

\* What is unread has no job yet, nor have edits to come.
UnreadOK(all, box) ==
    /\ box \in Seq(DOMAIN Message)
    /\ \A i, k \in DOMAIN box : box[i] = box[k] => i = k
    /\ \A i \in DOMAIN box : FreehandJob(box[i]) \notin DOMAIN all

EditsOK(all, v) == \A n \in Nat : ThumbnailJob(n) \in DOMAIN all => n <= v

Shape(all, going, box, v) ==
    /\ JobsOK(all) /\ RunsOK(all, going, v) /\ SentOK(all, going)
    /\ EventsOK(all, going) /\ EventNames(all)
    /\ UnreadOK(all, box) /\ EditsOK(all, v)

ProcessesOK ==
    /\ worker \in [Worker -> {"starting", "up", "closing", "dying", "down"}]
    /\ consumer \in [Worker -> {"up", "paused", "down"}]
    /\ ticks \in [Worker -> 0..PauseTicks]

VersionsOK == version \in 0..Edits /\ thumbnail \in 0..version

WorkersInv == ProcessesOK /\ VersionsOK /\ Shape(jobs, runs, unread, version)

-----------------------------------------------------------------------------
(***************************************************************************)
(* Jobs change their states, and runs go on to later steps or end.         *)
(***************************************************************************)
\* A job that is over stays so, and none comes back to the queue.
Moves(all, new) ==
    /\ DOMAIN new = DOMAIN all
    /\ \A k \in DOMAIN all :
          /\ new[k] \in Job
          /\ new[k].stalls = all[k].stalls
          /\ new[k].sent = all[k].sent
          /\ new[k].state \in Queued => all[k].state \in Queued

GoesOn(going, new, v) ==
    /\ DOMAIN new \subseteq DOMAIN going
    /\ \A q \in DOMAIN new :
          /\ new[q] \in Run(q[1], v)
          /\ new[q].at \in BeforeSend => going[q].at \in BeforeSend
          /\ new[q].tries >= going[q].tries

\* The bounds in numbers.
LEMMA AttemptsType ==
    ASSUME NEW j
    PROVE  Attempts(j) \in Nat /\ 1 <= Attempts(j) /\ Attempts(j) <= 1 + Retries
BY DEF Attempts, Retries

LEMMA AllowedType ==
    ASSUME NEW all, NEW j, all[j] \in Job
    PROVE  /\ Allowed(all, j) \in Nat
           /\ Allowed(all, j) <= (MaxStalls + 1) * (Retries + 1)
           /\ all[j].stalls = 0 => Allowed(all, j) = Attempts(j)
           /\ all[j].stalls = 1 => Allowed(all, j) = Attempts(j) + Attempts(j)
<1>1. all[j].stalls = 0 \/ all[j].stalls = 1
  BY DEF Job, MaxStalls
<1>2. Attempts(j) = 1 \/ Attempts(j) = 1 + Retries
  BY DEF Attempts
<1> QED BY <1>1, <1>2 DEF Allowed, MaxStalls, Retries

LEMMA RunTyped ==
    ASSUME NEW all, NEW going, NEW v, RunsOK(all, going, v),
           NEW j, NEW n, <<j, n>> \in DOMAIN going
    PROVE  going[<<j, n>>] \in Run(j, v)
BY DEF RunsOK

LEMMA SendsLeftType ==
    ASSUME NEW all, NEW going, NEW v, NEW j, NEW n,
           <<j, n>> \in DOMAIN going => going[<<j, n>>] \in Run(j, v)
    PROVE  /\ SendsLeft(all, going, j, n) \in Nat
           /\ SendsLeft(all, going, j, n) <= Attempts(j)
           /\ <<j, n>> \in DOMAIN going /\ going[<<j, n>>].at \in BeforeSend
              => SendsLeft(all, going, j, n) >= 1
<1>1. CASE ToCome(all, j, n)
  BY <1>1, AttemptsType DEF SendsLeft
<1>2. CASE /\ ~ ToCome(all, j, n)
           /\ <<j, n>> \in DOMAIN going /\ going[<<j, n>>].at \in BeforeSend
  <2>1. going[<<j, n>>].tries \in 0..(Attempts(j) - 1)
    BY <1>2 DEF Run
  <2>2. SendsLeft(all, going, j, n) = Attempts(j) - going[<<j, n>>].tries
    BY <1>2 DEF SendsLeft
  <2> QED BY <2>1, <2>2, AttemptsType
<1>3. CASE /\ ~ ToCome(all, j, n)
           /\ ~ (<<j, n>> \in DOMAIN going /\ going[<<j, n>>].at \in BeforeSend)
  <2>1. SendsLeft(all, going, j, n) = 0
    BY <1>3 DEF SendsLeft
  <2> QED BY <1>3, <2>1, AttemptsType
<1> QED BY <1>1, <1>2, <1>3

\* An execution that waited, or went on, may not send more than before.
LEMMA SendsLeftShrinks ==
    ASSUME NEW all, NEW new, NEW going, NEW gone, NEW v, NEW j, NEW n,
           ToCome(new, j, n) => ToCome(all, j, n),
           <<j, n>> \in DOMAIN going => going[<<j, n>>] \in Run(j, v),
           <<j, n>> \in DOMAIN gone => gone[<<j, n>>] \in Run(j, v),
           <<j, n>> \in DOMAIN gone =>
               \/ ToCome(all, j, n)
               \/ /\ <<j, n>> \in DOMAIN going
                  /\ gone[<<j, n>>].at \in BeforeSend => going[<<j, n>>].at \in BeforeSend
                  /\ gone[<<j, n>>].tries >= going[<<j, n>>].tries
    PROVE  SendsLeft(new, gone, j, n) <= SendsLeft(all, going, j, n)
<1>1. SendsLeft(all, going, j, n) \in Nat /\ SendsLeft(new, gone, j, n) <= Attempts(j)
  BY SendsLeftType
<1>2. CASE ToCome(all, j, n)
  <2>1. SendsLeft(all, going, j, n) = Attempts(j)
    BY <1>2 DEF SendsLeft
  <2> QED BY <1>1, <2>1
<1>3. CASE ~ ToCome(all, j, n) /\ <<j, n>> \in DOMAIN gone /\ gone[<<j, n>>].at \in BeforeSend
  <2>1. SendsLeft(new, gone, j, n) = Attempts(j) - gone[<<j, n>>].tries
    BY <1>3 DEF SendsLeft
  <2>2. SendsLeft(all, going, j, n) = Attempts(j) - going[<<j, n>>].tries
    BY <1>3 DEF SendsLeft
  <2>3. /\ gone[<<j, n>>].tries \in 0..(Attempts(j) - 1)
        /\ going[<<j, n>>].tries \in 0..(Attempts(j) - 1)
        /\ gone[<<j, n>>].tries >= going[<<j, n>>].tries
    BY <1>3 DEF Run
  <2> QED BY <2>1, <2>2, <2>3, AttemptsType
<1>4. CASE ~ ToCome(all, j, n) /\ ~ (<<j, n>> \in DOMAIN gone /\ gone[<<j, n>>].at \in BeforeSend)
  <2>1. SendsLeft(new, gone, j, n) = 0
    BY <1>4 DEF SendsLeft
  <2> QED BY <1>1, <2>1
<1> QED BY <1>2, <1>3, <1>4

LEMMA JobWithState ==
    ASSUME NEW job \in Job, NEW s \in JobState
    PROVE  /\ [job EXCEPT !.state = s] \in Job
           /\ [job EXCEPT !.state = s].state = s
           /\ [job EXCEPT !.state = s].stalls = job.stalls
           /\ [job EXCEPT !.state = s].sent = job.sent
BY DEF Job

LEMMA MovesKeepShape ==
    ASSUME NEW all, NEW new, NEW going, NEW gone, NEW box, NEW v,
           Shape(all, going, box, v), Moves(all, new), GoesOn(going, gone, v)
    PROVE  Shape(new, gone, box, v)
<1>1. JobsOK(new)
  BY DEF Shape, JobsOK, Moves
<1>2. \A j \in DOMAIN all, n \in 1..(MaxStalls + 1) : ToCome(new, j, n) => ToCome(all, j, n)
  BY DEF Moves, ToCome
<1>3. ASSUME NEW j \in DOMAIN all, NEW n
      PROVE  /\ SendsLeft(new, gone, j, n) <= SendsLeft(all, going, j, n)
             /\ SendsLeft(all, going, j, n) \in Nat /\ SendsLeft(new, gone, j, n) \in Nat
  <2>1. /\ <<j, n>> \in DOMAIN going => going[<<j, n>>] \in Run(j, v)
        /\ <<j, n>> \in DOMAIN gone => gone[<<j, n>>] \in Run(j, v)
    BY RunTyped DEF Shape, GoesOn
  <2>2. ToCome(new, j, n) => ToCome(all, j, n)
    BY DEF Moves, ToCome
  <2>3. SendsLeft(new, gone, j, n) <= SendsLeft(all, going, j, n)
    BY <2>1, <2>2, SendsLeftShrinks DEF GoesOn
  <2> QED BY <2>1, <2>3, SendsLeftType
<1>4. RunsOK(new, gone, v)
  <2> SUFFICES ASSUME NEW r \in DOMAIN gone
               PROVE  \E j \in DOMAIN new, n \in 1..(MaxStalls + 1) :
                         /\ r = <<j, n>> /\ n <= new[j].stalls + 1
                         /\ ~ ToCome(new, j, n) /\ gone[r] \in Run(j, v)
    BY DEF RunsOK
  <2>1. PICK j \in DOMAIN all, n \in 1..(MaxStalls + 1) :
           r = <<j, n>> /\ n <= all[j].stalls + 1 /\ ~ ToCome(all, j, n)
    BY DEF Shape, RunsOK, GoesOn
  <2>2. gone[r] \in Run(j, v)
    BY <2>1 DEF GoesOn
  <2> QED BY <1>2, <2>1, <2>2 DEF Moves
<1>5. SentOK(new, gone)
  <2> SUFFICES ASSUME NEW j \in DOMAIN all
               PROVE  new[j].sent + SendsLeft(new, gone, j, 1) + SendsLeft(new, gone, j, 2)
                      <= Allowed(new, j)
    BY DEF SentOK, Moves
  <2>1. new[j].sent = all[j].sent /\ Allowed(new, j) = Allowed(all, j)
    BY DEF Moves, Allowed
  <2>2. all[j] \in Job
    BY DEF Shape, JobsOK
  <2>3. all[j].sent \in Nat /\ Allowed(all, j) \in Nat
    BY <2>2, AllowedType DEF Job
  <2>4. all[j].sent + SendsLeft(all, going, j, 1) + SendsLeft(all, going, j, 2)
        <= Allowed(all, j)
    BY DEF Shape, SentOK
  <2> QED BY <1>3, <2>1, <2>3, <2>4
<1>6. EventsOK(new, gone)
  BY <1>2 DEF Shape, EventsOK, Moves, GoesOn
<1>7. EventNames(new) /\ UnreadOK(new, box) /\ EditsOK(new, v)
  BY DEF Shape, EventNames, UnreadOK, EditsOK, Moves
<1> QED BY <1>1, <1>4, <1>5, <1>6, <1>7 DEF Shape

\* Runs that stay as they are go on.
LEMMA RunsStay ==
    ASSUME NEW all, NEW going, NEW new, NEW v, RunsOK(all, going, v),
           DOMAIN new \subseteq DOMAIN going, \A q \in DOMAIN new : new[q] = going[q]
    PROVE  GoesOn(going, new, v)
BY AttemptsType DEF RunsOK, GoesOn, Run

LEMMA RunsUnchanged ==
    ASSUME NEW all, NEW going, NEW v, RunsOK(all, going, v)
    PROVE  GoesOn(going, going, v)
BY RunsStay

LEMMA JobsUnchanged ==
    ASSUME NEW all, JobsOK(all)
    PROVE  Moves(all, all)
BY DEF JobsOK, Moves

\* One job comes to a state it cannot be queued in.
LEMMA SetStateMoves ==
    ASSUME NEW all, NEW j \in DOMAIN all, NEW s \in JobState \ Queued, JobsOK(all)
    PROVE  Moves(all, SetState(all, j, s))
<1>1. \A k \in DOMAIN all : SetState(all, j, s)[k] =
         IF k = j THEN [all[k] EXCEPT !.state = s] ELSE all[k]
  BY DEF SetState
<1>2. ASSUME NEW k \in DOMAIN all
      PROVE  /\ SetState(all, j, s)[k] \in Job
             /\ SetState(all, j, s)[k].stalls = all[k].stalls
             /\ SetState(all, j, s)[k].sent = all[k].sent
             /\ SetState(all, j, s)[k].state \in Queued => all[k].state \in Queued
  <2>1. all[k] \in Job /\ s \in JobState /\ s \notin Queued
    BY DEF JobsOK
  <2>2. CASE k = j
    <3>1. SetState(all, j, s)[k] = [all[k] EXCEPT !.state = s]
      BY <1>1, <2>2
    <3> QED BY <2>1, <3>1, JobWithState
  <2>3. CASE k # j
    BY <1>1, <2>1, <2>3
  <2> QED BY <2>2, <2>3
<1>3. DOMAIN SetState(all, j, s) = DOMAIN all
  BY DEF SetState
<1> QED BY <1>2, <1>3 DEF Moves

\* A job ends, and the pushes that wait for one that is gone go on or are lost.
LEMMA EndJobMoves ==
    ASSUME NEW all, NEW j \in DOMAIN all, NEW s \in JobState \ Queued, JobsOK(all)
    PROVE  Moves(all, EndJob(all, j, s))
<1>1. PICK new : new = EndJob(all, j, s)
  OBVIOUS
<1>2. DOMAIN new = DOMAIN all
  BY <1>1 DEF EndJob
<1>3. ASSUME NEW k \in DOMAIN all
      PROVE  /\ new[k] \in Job
             /\ new[k].stalls = all[k].stalls
             /\ new[k].sent = all[k].sent
             /\ new[k].state \in Queued => all[k].state \in Queued
  <2>1. all[k] \in Job
    BY DEF JobsOK
  <2>2. \/ new[k] = [all[k] EXCEPT !.state = s]
        \/ /\ all[k].state = "stuck"
           /\ \/ new[k] = [all[k] EXCEPT !.state = "pushing"]
              \/ new[k] = [all[k] EXCEPT !.state = "lost"]
        \/ new[k] = all[k]
    BY <1>1 DEF EndJob
  <2>3. {s, "pushing", "lost"} \subseteq JobState /\ s \notin Queued /\ "stuck" \in Queued
    BY DEF JobState, Queued, Over
  <2>4. ASSUME NEW t \in JobState, new[k] = [all[k] EXCEPT !.state = t]
        PROVE  /\ new[k] \in Job /\ new[k].state = t
               /\ new[k].stalls = all[k].stalls /\ new[k].sent = all[k].sent
    BY <2>1, <2>4, JobWithState
  <2> QED BY <2>1, <2>2, <2>3, <2>4
<1> QED BY <1>1, <1>2, <1>3 DEF Moves

LEMMA LosePushesMoves ==
    ASSUME NEW gone, JobsOK(jobs), LosePushes(gone)
    PROVE  Moves(jobs, jobs')
<1>1. DOMAIN jobs' = DOMAIN jobs
  BY DEF LosePushes
<1>2. ASSUME NEW k \in DOMAIN jobs
      PROVE  /\ jobs'[k] \in Job
             /\ jobs'[k].stalls = jobs[k].stalls
             /\ jobs'[k].sent = jobs[k].sent
             /\ jobs'[k].state \in Queued => jobs[k].state \in Queued
  <2>1. jobs[k] \in Job
    BY DEF JobsOK
  <2>2. "lost" \in JobState /\ "lost" \notin Queued
    BY DEF JobState, Over, Queued
  <2>3. jobs'[k] = jobs[k] \/ jobs'[k] = [jobs[k] EXCEPT !.state = "lost"]
    BY DEF LosePushes
  <2>4. CASE jobs'[k] = jobs[k]
    BY <2>1, <2>4
  <2>5. CASE jobs'[k] = [jobs[k] EXCEPT !.state = "lost"]
    BY <2>1, <2>2, <2>5, JobWithState
  <2> QED BY <2>3, <2>4, <2>5
<1> QED BY <1>1, <1>2 DEF Moves

LEMMA CleanMoves ==
    ASSUME NEW old \in SUBSET DOMAIN jobs, JobsOK(jobs), Clean(old)
    PROVE  Moves(jobs, jobs')
<1>1. DOMAIN jobs' = DOMAIN jobs
  BY DEF Clean
<1>2. ASSUME NEW k \in DOMAIN jobs
      PROVE  /\ jobs'[k] \in Job
             /\ jobs'[k].stalls = jobs[k].stalls
             /\ jobs'[k].sent = jobs[k].sent
             /\ jobs'[k].state \in Queued => jobs[k].state \in Queued
  <2>1. jobs[k] \in Job
    BY DEF JobsOK
  <2>2. \/ jobs'[k] = jobs[k]
        \/ jobs'[k] = [jobs[k] EXCEPT !.state = "deleted"]
        \/ jobs[k].state = "pushing" /\ jobs'[k] = [jobs[k] EXCEPT !.state = "stuck"]
    BY DEF Clean, State
  <2>3. {"deleted", "stuck"} \subseteq JobState /\ "deleted" \notin Queued /\ "pushing" \in Queued
    BY DEF JobState, Queued, Over
  <2>4. ASSUME NEW t \in JobState, jobs'[k] = [jobs[k] EXCEPT !.state = t]
        PROVE  /\ jobs'[k] \in Job /\ jobs'[k].state = t
               /\ jobs'[k].stalls = jobs[k].stalls /\ jobs'[k].sent = jobs[k].sent
    BY <2>1, <2>4, JobWithState
  <2> QED BY <2>1, <2>2, <2>3, <2>4
<1> QED BY <1>1, <1>2 DEF Moves

\* What becomes of the job of a run, all being the jobs by then.
LEMMA SettledMoves ==
    ASSUME NEW all, NEW r, NEW s \in JobState \ Queued, JobsOK(all),
           DOMAIN jobs \subseteq DOMAIN all
    PROVE  Moves(all, Settled(all, r, s))
<1>1. CASE State(r[1]) = "active" /\ r[2] = jobs[r[1]].stalls + 1
  <2>1. r[1] \in DOMAIN all
    BY <1>1 DEF State
  <2>2. Settled(all, r, s) = EndJob(all, r[1], s)
    BY <1>1 DEF Settled
  <2> QED BY <2>1, <2>2, EndJobMoves
<1>2. CASE ~ (State(r[1]) = "active" /\ r[2] = jobs[r[1]].stalls + 1)
  <2>1. Settled(all, r, s) = all
    BY <1>2 DEF Settled
  <2> QED BY <2>1, JobsUnchanged
<1> QED BY <1>1, <1>2

-----------------------------------------------------------------------------
(***************************************************************************)
(* The steps of the tasks.                                                 *)
(***************************************************************************)
\* No step occurs twice in a task, what sends or posts does so in one step, mails are
\* what is posted, and an event is announced in the last step.
LEMMA TaskSteps ==
    ASSUME NEW t \in DOMAIN Tasks
    PROVE  /\ 1 \in DOMAIN Tasks[t]
           /\ Head(Tasks[t]) = Tasks[t][1]
           /\ DOMAIN Tasks[t] = 1..Len(Tasks[t])
           /\ Len(Tasks[t]) \in Nat
           /\ \A i, k \in DOMAIN Tasks[t] : Tasks[t][i] = Tasks[t][k] => i = k
           /\ \A i \in DOMAIN Tasks[t] : i # Len(Tasks[t]) =>
                 /\ i + 1 \in DOMAIN Tasks[t]
                 /\ Tasks[t][i] # "announce"
                 /\ Tasks[t][i + 1] \in BeforeSend =>
                       Tasks[t][i] \in BeforeSend /\ Tasks[t][i] \notin {"send", "post"}
           /\ \A i \in DOMAIN Tasks[t] :
                 Tasks[t][i] = "post" => t \in {"mention", "updateEmail"}
<1>1. t \in {"snapshot", "panesSnapshot", "thumbnail", "lastViewed", "mention",
             "updateEmail", "session", "event", "freehand"}
  BY DEF Tasks
<1>2. CASE t = "snapshot"
  BY <1>2 DEF Tasks, SnapshotQueueTask, BeforeSend
<1>3. CASE t = "panesSnapshot"
  BY <1>3 DEF Tasks, PanesSnapshotTask, BeforeSend
<1>4. CASE t = "thumbnail"
  BY <1>4 DEF Tasks, ThumbnailQueueTask, BeforeSend
<1>5. CASE t = "lastViewed"
  BY <1>5 DEF Tasks, UpdateLastViewedTask, BeforeSend
<1>6. CASE t = "mention"
  BY <1>6 DEF Tasks, MentionQueueTask, BeforeSend
<1>7. CASE t = "updateEmail"
  BY <1>7 DEF Tasks, UpdateEmailQueueTask, BeforeSend
<1>8. CASE t = "session"
  BY <1>8 DEF Tasks, DocumentSessionQueueTask, BeforeSend
<1>9. CASE t = "event"
  BY <1>9 DEF Tasks, EventBusProducerTask, BeforeSend
<1>10. CASE t = "freehand"
  BY <1>10 DEF Tasks, FreehandUpdateTask, BeforeSend
<1> QED BY <1>1, <1>2, <1>3, <1>4, <1>5, <1>6, <1>7, <1>8, <1>9, <1>10

LEMMA PlaceOfStep ==
    ASSUME NEW t \in DOMAIN Tasks, NEW i \in DOMAIN Tasks[t]
    PROVE  (CHOOSE k \in DOMAIN Tasks[t] : Tasks[t][k] = Tasks[t][i]) = i
BY TaskSteps

LEMMA AdvanceGoesOn ==
    ASSUME RunsOK(jobs, runs, version), JobsOK(jobs),
           NEW all, JobsOK(all), DOMAIN jobs \subseteq DOMAIN all,
           NEW r \in DOMAIN runs, NEW copy \in 0..version, Advance(r, copy, all)
    PROVE  /\ Moves(all, jobs')
           /\ GoesOn(runs, runs', version)
           /\ DOMAIN runs \ {r} \subseteq DOMAIN runs'
           /\ \A q \in DOMAIN runs \ {r} : runs'[q] = runs[q]
           /\ runs[r].at \in {"send", "post"} /\ r \in DOMAIN runs'
              => runs'[r].at \notin BeforeSend
           /\ runs[r].at = "announce" => r \notin DOMAIN runs'
<1>1. PICK j \in DOMAIN jobs, n \in 1..(MaxStalls + 1) : r = <<j, n>> /\ runs[r] \in Run(j, version)
  BY DEF RunsOK
<1> DEFINE t == Task(r[1])
<1>3. t \in DOMAIN Tasks /\ t = Task(j)
  BY <1>1 DEF JobsOK
<1>4. PICK i \in DOMAIN Tasks[t] : Tasks[t][i] = runs[r].at
  BY <1>1, <1>3 DEF Run, StepsOf
<1>5. (CHOOSE k \in DOMAIN Tasks[t] : Tasks[t][k] = runs[r].at) = i
  BY <1>3, <1>4, PlaceOfStep
<1>6. \/ /\ i = Len(Tasks[t])
         /\ jobs' = Settled(all, r, "completed")
         /\ runs' = WithoutRun(r)
      \/ /\ i # Len(Tasks[t])
         /\ jobs' = all
         /\ runs' = [runs EXCEPT ![r].at = Tasks[t][i + 1], ![r].copy = copy]
  BY <1>5 DEF Advance
<1>7. CASE i = Len(Tasks[t]) /\ jobs' = Settled(all, r, "completed") /\ runs' = WithoutRun(r)
  <2>1. "completed" \in JobState \ Queued
    BY DEF JobState, Over, Queued
  <2>2. Moves(all, jobs')
    BY <1>7, <2>1, SettledMoves
  <2>3. DOMAIN runs' = DOMAIN runs \ {r} /\ \A q \in DOMAIN runs' : runs'[q] = runs[q]
    BY <1>7 DEF WithoutRun
  <2>4. GoesOn(runs, runs', version)
    BY <2>3, RunsStay
  <2> QED BY <2>2, <2>3, <2>4
<1>8. CASE /\ i # Len(Tasks[t])
           /\ jobs' = all
           /\ runs' = [runs EXCEPT ![r].at = Tasks[t][i + 1], ![r].copy = copy]
  <2>1. Moves(all, jobs')
    BY <1>8, JobsUnchanged
  <2>2. /\ i + 1 \in DOMAIN Tasks[t]
        /\ Tasks[t][i] # "announce"
        /\ Tasks[t][i + 1] \in BeforeSend =>
              Tasks[t][i] \in BeforeSend /\ Tasks[t][i] \notin {"send", "post"}
    BY <1>3, <1>8, TaskSteps
  <2>3. PICK a : a = Tasks[t][i + 1]
    OBVIOUS
  <2>4. a \in StepsOf(Task(j))
    BY <1>3, <2>2, <2>3 DEF StepsOf
  <2>5. /\ DOMAIN runs' = DOMAIN runs
        /\ \A q \in DOMAIN runs \ {r} : runs'[q] = runs[q]
    BY <1>8
  <2>6. runs'[r] = [runs[r] EXCEPT !.at = a, !.copy = copy]
    BY <1>8, <2>3
  <2>7. runs'[r] \in Run(j, version) /\ runs'[r].at = a /\ runs'[r].tries = runs[r].tries
    BY <1>1, <2>4, <2>6 DEF Run
  <2>8. r[1] = j
    BY <1>1
  <2>9. GoesOn(runs, runs', version)
    <3> SUFFICES ASSUME NEW q \in DOMAIN runs'
                 PROVE  /\ runs'[q] \in Run(q[1], version)
                        /\ runs'[q].at \in BeforeSend => runs[q].at \in BeforeSend
                        /\ runs'[q].tries >= runs[q].tries
      BY <2>5 DEF GoesOn
    <3>0. runs[q] \in Run(q[1], version) /\ runs[q].tries >= runs[q].tries
      BY <2>5, AttemptsType DEF RunsOK, Run
    <3>1. CASE q = r
      BY <1>4, <2>2, <2>3, <2>7, <2>8, <3>0, <3>1
    <3>2. CASE q # r
      <4>1. q \in DOMAIN runs /\ runs'[q] = runs[q]
        BY <2>5, <3>2
      <4> QED BY <3>0, <4>1
    <3> QED BY <3>1, <3>2
  <2> QED BY <1>4, <2>1, <2>2, <2>3, <2>5, <2>7, <2>9
<1> QED BY <1>6, <1>7, <1>8

-----------------------------------------------------------------------------
(***************************************************************************)
(* A new job, a worker that takes one, one that stalls, and one that sends. *)
(***************************************************************************)
LEMMA PushedJob ==
    ASSUME NEW by \in {Api} \cup (Worker \X {"main", "child"})
    PROVE  /\ Pushed(by) \in Job
           /\ Pushed(by).state = "pushing" /\ Pushed(by).stalls = 0 /\ Pushed(by).sent = 0
BY DEF Pushed, Job, JobState, Queued, MaxStalls, Retries

LEMMA PushKeepsShape ==
    ASSUME NEW all, NEW going, NEW box, NEW v, Shape(all, going, box, v),
           NEW e, e \notin DOMAIN all, Task(e) \in DOMAIN Tasks,
           NEW by \in {Api} \cup (Worker \X {"main", "child"}),
           Task(e) = "event" =>
               \E j \in DOMAIN all, n \in 1..(MaxStalls + 1) :
                   /\ e = EventOf(<<j, n>>)
                   /\ <<j, n>> \notin DOMAIN going
                   /\ n <= all[j].stalls + 1
                   /\ ~ ToCome(all, j, n),
           NEW newBox, UnreadOK(Push(all, e, by), newBox),
           NEW w, EditsOK(Push(all, e, by), w),
           RunsOK(all, going, w)
    PROVE  Shape(Push(all, e, by), going, newBox, w)
<1>1. PICK new : new = Push(all, e, by)
  OBVIOUS
<1>2. /\ DOMAIN new = DOMAIN all \cup {e}
      /\ new[e] = Pushed(by)
      /\ \A k \in DOMAIN all : new[k] = all[k]
  BY <1>1 DEF Push, With
<1>3. /\ new[e] \in Job /\ new[e].state = "pushing"
      /\ new[e].stalls = 0 /\ new[e].sent = 0
  BY <1>2, PushedJob
<1>4. JobsOK(new)
  BY <1>2, <1>3 DEF Shape, JobsOK
<1>5. \A k \in DOMAIN all : \A n : ToCome(new, k, n) <=> ToCome(all, k, n)
  BY <1>2 DEF ToCome
<1>6. RunsOK(new, going, w)
  <2> SUFFICES ASSUME NEW r \in DOMAIN going
               PROVE  \E j \in DOMAIN new, n \in 1..(MaxStalls + 1) :
                         /\ r = <<j, n>> /\ n <= new[j].stalls + 1
                         /\ ~ ToCome(new, j, n) /\ going[r] \in Run(j, w)
    BY DEF RunsOK
  <2>1. PICK j \in DOMAIN all, n \in 1..(MaxStalls + 1) :
           /\ r = <<j, n>> /\ n <= all[j].stalls + 1
           /\ ~ ToCome(all, j, n) /\ going[r] \in Run(j, w)
    BY DEF RunsOK
  <2> QED BY <1>2, <1>5, <2>1
<1>7. SentOK(new, going)
  <2>1. ASSUME NEW k \in DOMAIN all
        PROVE  new[k].sent + SendsLeft(new, going, k, 1) + SendsLeft(new, going, k, 2)
               <= Allowed(new, k)
    <3>1. \A n : SendsLeft(new, going, k, n) = SendsLeft(all, going, k, n)
      BY <1>5 DEF SendsLeft
    <3>2. new[k].sent = all[k].sent /\ Allowed(new, k) = Allowed(all, k)
      BY <1>2 DEF Allowed
    <3> QED BY <3>1, <3>2 DEF Shape, SentOK
  <2>2. SendsLeft(new, going, e, 2) = 0
    <3>1. ~ ToCome(new, e, 2)
      BY <1>3 DEF ToCome
    <3>2. <<e, 2>> \notin DOMAIN going
      BY DEF Shape, RunsOK
    <3> QED BY <3>1, <3>2 DEF SendsLeft
  <2>3. SendsLeft(new, going, e, 1) = Attempts(e)
    BY <1>3 DEF SendsLeft, ToCome, Queued
  <2>4. Allowed(new, e) = Attempts(e)
    BY <1>3, AllowedType
  <2>5. new[e].sent + SendsLeft(new, going, e, 1) + SendsLeft(new, going, e, 2)
        <= Allowed(new, e)
    BY <1>3, <2>2, <2>3, <2>4, AttemptsType
  <2> QED BY <1>2, <2>1, <2>5 DEF SentOK
<1>8. EventsOK(new, going)
  <2> SUFFICES ASSUME NEW j \in DOMAIN new, NEW n \in 1..(MaxStalls + 1),
                      EventOf(<<j, n>>) \in DOMAIN new
               PROVE  /\ <<j, n>> \notin DOMAIN going
                      /\ n <= new[j].stalls + 1
                      /\ ~ ToCome(new, j, n)
    BY DEF EventsOK
  <2>1. CASE EventOf(<<j, n>>) \in DOMAIN all
    <3>1. Task(EventOf(<<j, n>>)) = "event"
      BY DEF EventOf, Task
    <3>2. PICK k \in DOMAIN all, m \in 1..(MaxStalls + 1) :
             EventOf(<<j, n>>) = EventOf(<<k, m>>)
      BY <2>1, <3>1 DEF Shape, EventNames
    <3>3. j = k
      BY <3>2 DEF EventOf
    <3>4. j \in DOMAIN all
      BY <3>3
    <3>5. /\ <<j, n>> \notin DOMAIN going
          /\ n <= all[j].stalls + 1
          /\ ~ ToCome(all, j, n)
      BY <2>1, <3>4 DEF Shape, EventsOK
    <3> QED BY <1>2, <1>5, <3>4, <3>5
  <2>2. CASE EventOf(<<j, n>>) = e
    <3>1. Task(e) = "event"
      BY <2>2 DEF EventOf, Task
    <3>2. PICK k \in DOMAIN all, m \in 1..(MaxStalls + 1) :
             /\ e = EventOf(<<k, m>>)
             /\ <<k, m>> \notin DOMAIN going
             /\ m <= all[k].stalls + 1
             /\ ~ ToCome(all, k, m)
      BY <3>1
    <3>3. j = k /\ n = m
      BY <2>2, <3>2 DEF EventOf
    <3> QED BY <1>2, <1>5, <3>2, <3>3
  <2> QED BY <1>2, <2>1, <2>2
<1>9. EventNames(new)
  <2> SUFFICES ASSUME NEW d \in DOMAIN new, Task(d) = "event"
               PROVE  \E j \in DOMAIN new, n \in 1..(MaxStalls + 1) : d = EventOf(<<j, n>>)
    BY DEF EventNames
  <2>1. \E j \in DOMAIN all, n \in 1..(MaxStalls + 1) : d = EventOf(<<j, n>>)
    BY <1>2 DEF Shape, EventNames
  <2> QED BY <1>2, <2>1
<1> QED BY <1>1, <1>4, <1>6, <1>7, <1>8, <1>9 DEF Shape

\* The nth execution of a job that waits begins.
LEMMA TakeKeepsShape ==
    ASSUME NEW all, NEW going, NEW box, NEW v, Shape(all, going, box, v), v \in Nat,
           NEW j \in DOMAIN all, all[j].state = "waiting", NEW w \in Worker
    PROVE  Shape(SetState(all, j, "active"),
                 With(going, <<j, all[j].stalls + 1>>,
                      [worker |-> w, at |-> Head(Tasks[Task(j)]), copy |-> 0, tries |-> 0]),
                 box, v)
<1>1. PICK n : n = all[j].stalls + 1
  OBVIOUS
<1>2. PICK run : run = [worker |-> w, at |-> Head(Tasks[Task(j)]), copy |-> 0, tries |-> 0]
  OBVIOUS
<1>3. PICK new : new = SetState(all, j, "active")
  OBVIOUS
<1>4. PICK gone : gone = With(going, <<j, n>>, run)
  OBVIOUS
<1>5. all[j] \in Job /\ Task(j) \in DOMAIN Tasks
  BY DEF Shape, JobsOK
<1>6. n \in 1..(MaxStalls + 1)
  BY <1>1, <1>5 DEF Job, MaxStalls
<1>7. ToCome(all, j, n)
  BY <1>1 DEF ToCome, Queued
<1>8. <<j, n>> \notin DOMAIN going
  BY <1>7 DEF Shape, RunsOK
<1>9. /\ DOMAIN gone = DOMAIN going \cup {<<j, n>>}
      /\ gone[<<j, n>>] = run
      /\ \A r \in DOMAIN going : gone[r] = going[r]
  BY <1>4, <1>8 DEF With
<1>10. run \in Run(j, v)
  <2>1. Head(Tasks[Task(j)]) \in StepsOf(Task(j))
    BY <1>5, TaskSteps DEF StepsOf
  <2>2. 0 \in 0..(Attempts(Task(j)) - 1) /\ 0 \in 0..(Attempts(j) - 1)
    BY AttemptsType
  <2> QED BY <1>2, <2>1, <2>2 DEF Run
<1>11. Moves(all, new)
  <2>1. "active" \in JobState \ Queued
    BY DEF JobState, Queued
  <2> QED BY <1>3, <2>1, SetStateMoves DEF Shape
<1>12. new[j].state = "active"
  BY <1>3, <1>5 DEF SetState, Job
<1>13. \A k \in DOMAIN all : \A m : ToCome(new, k, m) => ToCome(all, k, m) /\ k # j
  BY <1>11, <1>12 DEF Moves, ToCome, Queued
<1>14. JobsOK(new)
  BY <1>11 DEF Shape, JobsOK, Moves
<1>15. RunsOK(new, gone, v)
  <2> SUFFICES ASSUME NEW r \in DOMAIN gone
               PROVE  \E k \in DOMAIN new, m \in 1..(MaxStalls + 1) :
                         /\ r = <<k, m>> /\ m <= new[k].stalls + 1
                         /\ ~ ToCome(new, k, m) /\ gone[r] \in Run(k, v)
    BY DEF RunsOK
  <2>1. CASE r = <<j, n>>
    <3>1. n <= new[j].stalls + 1
      BY <1>1, <1>5, <1>11 DEF Moves, Job, MaxStalls
    <3>2. ~ ToCome(new, j, n)
      BY <1>13
    <3> QED BY <1>6, <1>9, <1>10, <1>11, <2>1, <3>1, <3>2 DEF Moves
  <2>2. CASE r \in DOMAIN going
    <3>1. PICK k \in DOMAIN all, m \in 1..(MaxStalls + 1) :
             /\ r = <<k, m>> /\ m <= all[k].stalls + 1
             /\ ~ ToCome(all, k, m) /\ going[r] \in Run(k, v)
      BY <2>2 DEF Shape, RunsOK
    <3> QED BY <1>9, <1>11, <1>13, <2>2, <3>1 DEF Moves
  <2> QED BY <1>9, <2>1, <2>2
<1>16. SentOK(new, gone)
  <2>1. ASSUME NEW k \in DOMAIN all, NEW m
        PROVE  /\ SendsLeft(new, gone, k, m) <= SendsLeft(all, going, k, m)
               /\ SendsLeft(all, going, k, m) \in Nat /\ SendsLeft(new, gone, k, m) \in Nat
    <3>1. <<k, m>> \in DOMAIN going => going[<<k, m>>] \in Run(k, v)
      BY RunTyped DEF Shape
    <3>2. <<k, m>> \in DOMAIN gone => gone[<<k, m>>] \in Run(k, v)
      BY <1>15, RunTyped
    <3>3. <<k, m>> \in DOMAIN gone =>
             \/ ToCome(all, k, m)
             \/ /\ <<k, m>> \in DOMAIN going
                /\ gone[<<k, m>>].at \in BeforeSend => going[<<k, m>>].at \in BeforeSend
                /\ gone[<<k, m>>].tries >= going[<<k, m>>].tries
      <4>1. CASE <<k, m>> = <<j, n>>
        BY <1>7, <4>1
      <4>2. CASE <<k, m>> \in DOMAIN going
        BY <1>9, <3>1, <4>2, AttemptsType DEF Run
      <4> QED BY <1>9, <4>1, <4>2
    <3>4. SendsLeft(new, gone, k, m) <= SendsLeft(all, going, k, m)
      BY <1>13, <3>1, <3>2, <3>3, SendsLeftShrinks
    <3> QED BY <3>1, <3>2, <3>4, SendsLeftType
  <2> SUFFICES ASSUME NEW k \in DOMAIN all
               PROVE  new[k].sent + SendsLeft(new, gone, k, 1) + SendsLeft(new, gone, k, 2)
                      <= Allowed(new, k)
    BY <1>11 DEF SentOK, Moves
  <2>2. new[k].sent = all[k].sent /\ Allowed(new, k) = Allowed(all, k)
    BY <1>11 DEF Moves, Allowed
  <2>3. all[k] \in Job
    BY DEF Shape, JobsOK
  <2>4. all[k].sent \in Nat /\ Allowed(all, k) \in Nat
    BY <2>3, AllowedType DEF Job
  <2>5. all[k].sent + SendsLeft(all, going, k, 1) + SendsLeft(all, going, k, 2)
        <= Allowed(all, k)
    BY DEF Shape, SentOK
  <2> QED BY <2>1, <2>2, <2>4, <2>5
<1>17. EventsOK(new, gone)
  <2> SUFFICES ASSUME NEW k \in DOMAIN all, NEW m \in 1..(MaxStalls + 1),
                      EventOf(<<k, m>>) \in DOMAIN all
               PROVE  /\ <<k, m>> \notin DOMAIN gone
                      /\ m <= new[k].stalls + 1
                      /\ ~ ToCome(new, k, m)
    BY <1>11 DEF EventsOK, Moves
  <2>1. /\ <<k, m>> \notin DOMAIN going
        /\ m <= all[k].stalls + 1
        /\ ~ ToCome(all, k, m)
    BY DEF Shape, EventsOK
  <2>2. <<k, m>> # <<j, n>>
    BY <1>7, <2>1
  <2> QED BY <1>9, <1>11, <1>13, <2>1, <2>2 DEF Moves
<1>18. EventNames(new) /\ UnreadOK(new, box) /\ EditsOK(new, v)
  BY <1>11 DEF Shape, EventNames, UnreadOK, EditsOK, Moves
<1> QED BY <1>1, <1>2, <1>3, <1>4, <1>14, <1>15, <1>16, <1>17, <1>18 DEF Shape

\* A job that stalls for the first time waits for its second execution.
LEMMA StallKeepsShape ==
    ASSUME NEW all, NEW going, NEW box, NEW v, Shape(all, going, box, v),
           NEW j \in DOMAIN all, all[j].state = "active", all[j].stalls < MaxStalls
    PROVE  Shape([all EXCEPT ![j].stalls = @ + 1, ![j].state = "waiting"], going, box, v)
<1>1. PICK new : new = [all EXCEPT ![j].stalls = @ + 1, ![j].state = "waiting"]
  OBVIOUS
<1>2. all[j] \in Job
  BY DEF Shape, JobsOK
<1>3. all[j].stalls = 0
  BY <1>2 DEF Job, MaxStalls
<1>4. /\ DOMAIN new = DOMAIN all
      /\ \A k \in DOMAIN all : k # j => new[k] = all[k]
      /\ new[j] = [all[j] EXCEPT !.stalls = @ + 1, !.state = "waiting"]
  BY <1>1
<1>5. /\ new[j] \in Job /\ new[j].stalls = 1 /\ new[j].state = "waiting"
      /\ new[j].sent = all[j].sent
  <2>1. "waiting" \in JobState
    BY DEF JobState, Queued
  <2>2. PICK i : i = all[j].stalls + 1
    OBVIOUS
  <2>3. i = 1 /\ i \in 0..MaxStalls
    BY <1>3, <2>2 DEF MaxStalls
  <2>4. new[j] = [all[j] EXCEPT !.stalls = i, !.state = "waiting"]
    BY <1>4, <2>2
  <2>5. /\ new[j] \in Job /\ new[j].stalls = i /\ new[j].state = "waiting"
        /\ new[j].sent = all[j].sent
    <3>1. PICK job \in Job : job = all[j]
      BY <1>2
    <3>2. PICK state \in JobState : state = "waiting"
      BY <2>1
    <3>3. new[j] = [job EXCEPT !.stalls = i, !.state = state]
      BY <2>4, <3>1, <3>2
    <3>4. /\ [job EXCEPT !.stalls = i, !.state = state] \in Job
          /\ [job EXCEPT !.stalls = i, !.state = state].state = state
          /\ [job EXCEPT !.stalls = i, !.state = state].stalls = i
          /\ [job EXCEPT !.stalls = i, !.state = state].sent = job.sent
      BY <2>3 DEF Job
    <3> QED BY <3>1, <3>2, <3>3, <3>4
  <2> QED BY <2>3, <2>5
<1>6. \A k \in DOMAIN all \ {j} : \A n : ToCome(new, k, n) <=> ToCome(all, k, n)
  BY <1>4 DEF ToCome
<1>7. ~ ToCome(new, j, 1) /\ \A n : ~ ToCome(all, j, n)
  BY <1>3, <1>5 DEF ToCome, Queued
<1>8. <<j, 2>> \notin DOMAIN going
  BY <1>3 DEF Shape, RunsOK
<1>9. JobsOK(new)
  BY <1>4, <1>5 DEF Shape, JobsOK
<1>10. RunsOK(new, going, v)
  <2> SUFFICES ASSUME NEW r \in DOMAIN going
               PROVE  \E k \in DOMAIN new, m \in 1..(MaxStalls + 1) :
                         /\ r = <<k, m>> /\ m <= new[k].stalls + 1
                         /\ ~ ToCome(new, k, m) /\ going[r] \in Run(k, v)
    BY DEF RunsOK
  <2>1. PICK k \in DOMAIN all, m \in 1..(MaxStalls + 1) :
           /\ r = <<k, m>> /\ m <= all[k].stalls + 1
           /\ ~ ToCome(all, k, m) /\ going[r] \in Run(k, v)
    BY DEF Shape, RunsOK
  <2>2. CASE k = j
    <3>1. m = 1
      BY <1>3, <2>1, <2>2 DEF MaxStalls
    <3>2. m <= new[j].stalls + 1 /\ ~ ToCome(new, j, m)
      BY <1>5, <1>7, <3>1
    <3>3. going[r] \in Run(j, v) /\ r = <<j, m>> /\ j \in DOMAIN new
      BY <1>4, <2>1, <2>2
    <3> QED BY <3>2, <3>3
  <2>3. CASE k # j
    BY <1>4, <1>6, <2>1, <2>3
  <2> QED BY <2>2, <2>3
<1>11. SentOK(new, going)
  <2>1. ASSUME NEW k \in DOMAIN all, k # j
        PROVE  new[k].sent + SendsLeft(new, going, k, 1) + SendsLeft(new, going, k, 2)
               <= Allowed(new, k)
    <3>1. \A n : SendsLeft(new, going, k, n) = SendsLeft(all, going, k, n)
      BY <1>6, <2>1 DEF SendsLeft
    <3>2. new[k].sent = all[k].sent /\ Allowed(new, k) = Allowed(all, k)
      BY <1>4, <2>1 DEF Allowed
    <3> QED BY <3>1, <3>2 DEF Shape, SentOK
  <2>2. SendsLeft(new, going, j, 1) = SendsLeft(all, going, j, 1)
    BY <1>7 DEF SendsLeft
  <2>3. SendsLeft(all, going, j, 2) = 0
    BY <1>7, <1>8 DEF SendsLeft
  <2>4. SendsLeft(new, going, j, 2) = Attempts(j)
    BY <1>5 DEF SendsLeft, ToCome, Queued
  <2>5. /\ Allowed(all, j) = Attempts(j) /\ Allowed(new, j) = Attempts(j) + Attempts(j)
        /\ Attempts(j) \in Nat
    BY <1>2, <1>3, <1>5, AllowedType, AttemptsType
  <2>6. all[j].sent \in Nat /\ SendsLeft(all, going, j, 1) \in Nat
    <3>1. RunsOK(all, going, v)
      BY DEF Shape
    <3>2. SendsLeft(all, going, j, 1) \in Nat
      BY <3>1, RunTyped, SendsLeftType
    <3> QED BY <1>2, <3>2 DEF Job
  <2>7. all[j].sent + SendsLeft(all, going, j, 1) + SendsLeft(all, going, j, 2)
        <= Allowed(all, j)
    BY DEF Shape, SentOK
  <2>8. new[j].sent + SendsLeft(new, going, j, 1) + SendsLeft(new, going, j, 2)
        <= Allowed(new, j)
    BY <1>5, <2>2, <2>3, <2>4, <2>5, <2>6, <2>7
  <2> QED BY <1>4, <2>1, <2>8 DEF SentOK
<1>12. EventsOK(new, going)
  <2> SUFFICES ASSUME NEW k \in DOMAIN all, NEW m \in 1..(MaxStalls + 1),
                      EventOf(<<k, m>>) \in DOMAIN all
               PROVE  /\ <<k, m>> \notin DOMAIN going
                      /\ m <= new[k].stalls + 1
                      /\ ~ ToCome(new, k, m)
    BY <1>4 DEF EventsOK
  <2>1. /\ <<k, m>> \notin DOMAIN going
        /\ m <= all[k].stalls + 1
        /\ ~ ToCome(all, k, m)
    BY DEF Shape, EventsOK
  <2>2. CASE k = j
    <3>1. m = 1
      BY <1>3, <2>1, <2>2 DEF MaxStalls
    <3> QED BY <1>5, <1>7, <2>1, <2>2, <3>1
  <2>3. CASE k # j
    BY <1>4, <1>6, <2>1, <2>3
  <2> QED BY <2>2, <2>3
<1>13. EventNames(new) /\ UnreadOK(new, box) /\ EditsOK(new, v)
  BY <1>4 DEF Shape, EventNames, UnreadOK, EditsOK
<1> QED BY <1>1, <1>9, <1>10, <1>11, <1>12, <1>13 DEF Shape

\* The nth execution of a job sends or posts, and goes on to a step that does not, or
\* has one post less.
LEMMA SendKeepsShape ==
    ASSUME NEW all, NEW going, NEW gone, NEW new, NEW box, NEW v,
           Shape(all, going, box, v), NEW arrived \in {0, 1},
           NEW j \in DOMAIN all, NEW n \in 1..(MaxStalls + 1), <<j, n>> \in DOMAIN going,
           going[<<j, n>>].at \in BeforeSend,
           <<j, n>> \in DOMAIN gone /\ gone[<<j, n>>].at \in BeforeSend
               => gone[<<j, n>>].tries = going[<<j, n>>].tries + 1,
           Moves([all EXCEPT ![j].sent = @ + arrived], new), GoesOn(going, gone, v)
    PROVE  Shape(new, gone, box, v)
<1>1. PICK mid : mid = [all EXCEPT ![j].sent = @ + arrived]
  OBVIOUS
<1>2. /\ DOMAIN mid = DOMAIN all
      /\ \A k \in DOMAIN all : k # j => mid[k] = all[k]
      /\ mid[j] = [all[j] EXCEPT !.sent = @ + arrived]
  BY <1>1
<1>3. all[j] \in Job
  BY DEF Shape, JobsOK
<1>4. /\ mid[j].sent = all[j].sent + arrived
      /\ mid[j].stalls = all[j].stalls
      /\ mid[j].state = all[j].state
  BY <1>2, <1>3 DEF Job
<1>5. Moves(mid, new)
  BY <1>1
<1>6. /\ DOMAIN new = DOMAIN all
      /\ \A k \in DOMAIN all :
            /\ new[k] \in Job
            /\ new[k].stalls = all[k].stalls
            /\ new[k].state \in Queued => all[k].state \in Queued
            /\ k # j => new[k].sent = all[k].sent
      /\ new[j].sent = all[j].sent + arrived
  BY <1>2, <1>4, <1>5 DEF Moves
<1>7. \A k \in DOMAIN all : \A m : ToCome(new, k, m) => ToCome(all, k, m)
  BY <1>6 DEF ToCome
<1>8. ASSUME NEW k \in DOMAIN all, NEW m
      PROVE  /\ SendsLeft(new, gone, k, m) <= SendsLeft(all, going, k, m)
             /\ SendsLeft(all, going, k, m) \in Nat /\ SendsLeft(new, gone, k, m) \in Nat
  <2>1. /\ <<k, m>> \in DOMAIN going => going[<<k, m>>] \in Run(k, v)
        /\ <<k, m>> \in DOMAIN gone => gone[<<k, m>>] \in Run(k, v)
    BY RunTyped DEF Shape, GoesOn
  <2>2. SendsLeft(new, gone, k, m) <= SendsLeft(all, going, k, m)
    BY <1>7, <2>1, SendsLeftShrinks DEF GoesOn
  <2> QED BY <2>1, <2>2, SendsLeftType
<1>9. JobsOK(new)
  BY <1>6 DEF Shape, JobsOK
<1>10. RunsOK(new, gone, v)
  <2> SUFFICES ASSUME NEW r \in DOMAIN gone
               PROVE  \E k \in DOMAIN new, m \in 1..(MaxStalls + 1) :
                         /\ r = <<k, m>> /\ m <= new[k].stalls + 1
                         /\ ~ ToCome(new, k, m) /\ gone[r] \in Run(k, v)
    BY DEF RunsOK
  <2>1. PICK k \in DOMAIN all, m \in 1..(MaxStalls + 1) :
           r = <<k, m>> /\ m <= all[k].stalls + 1 /\ ~ ToCome(all, k, m)
    BY DEF Shape, RunsOK, GoesOn
  <2>2. gone[r] \in Run(k, v)
    BY <2>1 DEF GoesOn
  <2> QED BY <1>6, <1>7, <2>1, <2>2
<1>11. SentOK(new, gone)
  <2>1. ~ ToCome(all, j, n) /\ ~ ToCome(new, j, n)
    BY <1>7 DEF Shape, RunsOK
  <2>2. going[<<j, n>>] \in Run(j, v)
    BY RunTyped DEF Shape
  <2>3. SendsLeft(all, going, j, n) = Attempts(j) - going[<<j, n>>].tries
    BY <2>1 DEF SendsLeft
  <2>4. going[<<j, n>>].tries \in 0..(Attempts(j) - 1) /\ Attempts(j) \in Nat
    BY <2>2, AttemptsType DEF Run
  <2>5. SendsLeft(new, gone, j, n) + 1 <= SendsLeft(all, going, j, n)
    <3>1. CASE <<j, n>> \in DOMAIN gone /\ gone[<<j, n>>].at \in BeforeSend
      <4>1. SendsLeft(new, gone, j, n) = Attempts(j) - gone[<<j, n>>].tries
        BY <2>1, <3>1 DEF SendsLeft
      <4> QED BY <2>3, <2>4, <3>1, <4>1
    <3>2. CASE ~ (<<j, n>> \in DOMAIN gone /\ gone[<<j, n>>].at \in BeforeSend)
      <4>1. SendsLeft(new, gone, j, n) = 0
        BY <2>1, <3>2 DEF SendsLeft
      <4> QED BY <2>3, <2>4, <4>1
    <3> QED BY <3>1, <3>2
  <2>6. ASSUME NEW k \in DOMAIN all
        PROVE  /\ all[k].sent \in Nat /\ Allowed(all, k) \in Nat
               /\ Allowed(new, k) = Allowed(all, k)
               /\ all[k].sent + SendsLeft(all, going, k, 1) + SendsLeft(all, going, k, 2)
                  <= Allowed(all, k)
    <3>1. all[k] \in Job
      BY DEF Shape, JobsOK
    <3>2. Allowed(new, k) = Allowed(all, k)
      BY <1>6 DEF Allowed
    <3> QED BY <3>1, <3>2, AllowedType DEF Job, Shape, SentOK
  <2>7. n = 1 \/ n = 2
    BY DEF MaxStalls
  <2>8. new[j].sent + SendsLeft(new, gone, j, 1) + SendsLeft(new, gone, j, 2)
        <= Allowed(new, j)
    <3>1. /\ SendsLeft(new, gone, j, 1) <= SendsLeft(all, going, j, 1)
          /\ SendsLeft(new, gone, j, 2) <= SendsLeft(all, going, j, 2)
          /\ SendsLeft(new, gone, j, 1) \in Nat /\ SendsLeft(all, going, j, 1) \in Nat
          /\ SendsLeft(new, gone, j, 2) \in Nat /\ SendsLeft(all, going, j, 2) \in Nat
      BY <1>8
    <3>2. /\ new[j].sent = all[j].sent + arrived
          /\ all[j].sent \in Nat /\ Allowed(all, j) \in Nat
          /\ Allowed(new, j) = Allowed(all, j)
          /\ all[j].sent + SendsLeft(all, going, j, 1) + SendsLeft(all, going, j, 2)
             <= Allowed(all, j)
      BY <1>6, <2>6
    <3>3. CASE n = 1
      BY <2>5, <3>1, <3>2, <3>3
    <3>4. CASE n = 2
      BY <2>5, <3>1, <3>2, <3>4
    <3> QED BY <2>7, <3>3, <3>4
  <2>9. ASSUME NEW k \in DOMAIN all, k # j
        PROVE  new[k].sent + SendsLeft(new, gone, k, 1) + SendsLeft(new, gone, k, 2)
               <= Allowed(new, k)
    <3>1. /\ SendsLeft(new, gone, k, 1) <= SendsLeft(all, going, k, 1)
          /\ SendsLeft(new, gone, k, 2) <= SendsLeft(all, going, k, 2)
          /\ SendsLeft(new, gone, k, 1) \in Nat /\ SendsLeft(all, going, k, 1) \in Nat
          /\ SendsLeft(new, gone, k, 2) \in Nat /\ SendsLeft(all, going, k, 2) \in Nat
      BY <1>8
    <3> QED BY <1>6, <2>6, <2>9, <3>1
  <2> QED BY <1>6, <2>8, <2>9 DEF SentOK
<1>12. EventsOK(new, gone)
  BY <1>6, <1>7 DEF Shape, EventsOK, GoesOn
<1>13. EventNames(new) /\ UnreadOK(new, box) /\ EditsOK(new, v)
  BY <1>6 DEF Shape, EventNames, UnreadOK, EditsOK
<1> QED BY <1>9, <1>10, <1>11, <1>12, <1>13 DEF Shape

-----------------------------------------------------------------------------
(***************************************************************************)
(* The invariant.                                                          *)
(***************************************************************************)
LEMMA WorkersInit == Init => WorkersInv
<1> SUFFICES ASSUME Init PROVE WorkersInv
  OBVIOUS
<1>1. PICK s \in Scenarios :
         /\ unread = s.unread
         /\ jobs = [j \in s.jobs \cup s.left |->
                       IF j \in s.left THEN [Pushed(Api) EXCEPT !.state = "active"]
                       ELSE Pushed(Api)]
         /\ version = s.version
         /\ thumbnail = s.version
  BY DEF Init
<1>2. /\ version \in 0..Edits
      /\ unread \in Seq(DOMAIN Message)
      /\ \A i, k \in DOMAIN unread : unread[i] = unread[k] => i = k
      /\ s.jobs \subseteq ((DOMAIN Tasks) \ {"event"}) \X {"api"} \X Nat
      /\ s.left \subseteq {LeftJob}
  BY <1>1, ScenarioAssumption
<1>3. ProcessesOK
  BY BoundsAssumption DEF Init, ProcessesOK
<1>4. VersionsOK
  BY <1>1, <1>2, BoundsAssumption DEF VersionsOK
<1>5. runs = << >> /\ DOMAIN runs = {}
  BY DEF Init
<1>6. /\ DOMAIN jobs = s.jobs \cup s.left
      /\ \A j \in DOMAIN jobs :
            \/ jobs[j] = Pushed(Api)
            \/ jobs[j] = [Pushed(Api) EXCEPT !.state = "active"]
  BY <1>1
<1>7. \A j \in DOMAIN jobs : /\ Task(j) \in DOMAIN Tasks
                             /\ Task(j) # "event"
                             /\ j[2] \in {"api", "left"}
  <2>1. "thumbnail" \in DOMAIN Tasks
    BY DEF Tasks
  <2>2. Task(LeftJob) = "thumbnail" /\ LeftJob[2] = "left"
    BY DEF Task, LeftJob
  <2>3. \A j \in s.jobs : Task(j) \in DOMAIN Tasks /\ Task(j) # "event" /\ j[2] = "api"
    BY <1>2 DEF Task
  <2> QED BY <1>2, <1>6, <2>1, <2>2, <2>3
<1>8. \A j \in DOMAIN jobs : /\ jobs[j] \in Job /\ jobs[j].state \in {"pushing", "active"}
                             /\ jobs[j].stalls = 0 /\ jobs[j].sent = 0
  <2>1. /\ Pushed(Api) \in Job /\ Pushed(Api).state = "pushing"
        /\ Pushed(Api).stalls = 0 /\ Pushed(Api).sent = 0
    BY PushedJob
  <2>2. "active" \in JobState
    BY DEF JobState
  <2>3. /\ [Pushed(Api) EXCEPT !.state = "active"] \in Job
        /\ [Pushed(Api) EXCEPT !.state = "active"].state = "active"
        /\ [Pushed(Api) EXCEPT !.state = "active"].stalls = 0
        /\ [Pushed(Api) EXCEPT !.state = "active"].sent = 0
    BY <2>1, <2>2, JobWithState
  <2> QED BY <1>6, <2>1, <2>3
<1>9. JobsOK(jobs)
  BY <1>7, <1>8 DEF JobsOK
<1>10. RunsOK(jobs, runs, version)
  BY <1>5 DEF RunsOK
<1>11. SentOK(jobs, runs)
  <2> SUFFICES ASSUME NEW j \in DOMAIN jobs
               PROVE  jobs[j].sent + SendsLeft(jobs, runs, j, 1) + SendsLeft(jobs, runs, j, 2)
                      <= Allowed(jobs, j)
    BY DEF SentOK
  <2>1. SendsLeft(jobs, runs, j, 2) = 0
    BY <1>5, <1>8 DEF SendsLeft, ToCome
  <2>2. SendsLeft(jobs, runs, j, 1) \in {0, Attempts(j)}
    BY <1>5 DEF SendsLeft
  <2>3. Allowed(jobs, j) = Attempts(j)
    BY <1>8, AllowedType
  <2> QED BY <1>8, <2>1, <2>2, <2>3, AttemptsType
<1>12. EventNames(jobs)
  BY <1>7 DEF EventNames
<1>13. EventsOK(jobs, runs)
  BY <1>7 DEF EventsOK, EventOf, Task
<1>14. UnreadOK(jobs, unread)
  BY <1>2, <1>7 DEF UnreadOK, FreehandJob
<1>15. EditsOK(jobs, version)
  BY <1>7 DEF EditsOK, ThumbnailJob
<1> QED BY <1>3, <1>4, <1>9, <1>10, <1>11, <1>12, <1>13, <1>14, <1>15
     DEF WorkersInv, Shape

\* Steps that leave the processes or the versions alone.
LEMMA ShapeKept ==
    ASSUME WorkersInv, Moves(jobs, jobs'), GoesOn(runs, runs', version),
           unread' = unread, version' = version
    PROVE  Shape(jobs', runs', unread', version')
BY MovesKeepShape DEF WorkersInv

LEMMA RunsKept ==
    ASSUME WorkersInv, runs' = runs, unread' = unread, version' = version,
           Moves(jobs, jobs')
    PROVE  Shape(jobs', runs', unread', version')
<1>1. GoesOn(runs, runs', version)
  BY RunsUnchanged DEF WorkersInv, Shape
<1> QED BY <1>1, ShapeKept

LEMMA AllKept ==
    ASSUME WorkersInv, jobs' = jobs, runs' = runs, unread' = unread, version' = version
    PROVE  Shape(jobs', runs', unread', version')
BY DEF WorkersInv

LEMMA ProcessStepInv ==
    ASSUME WorkersInv, NEW w \in Worker,
           \/ Start(w) \/ InitQueue(w) \/ Shutdown(w) \/ Reject(w) \/ Exit(w)
           \/ HandleErrors(w) \/ Pause(w) \/ HandlePausedState(w)
    PROVE  WorkersInv'
<1>1. JobsOK(jobs) /\ RunsOK(jobs, runs, version)
  BY DEF WorkersInv, Shape
<1>2. CASE Start(w)
  <2>1. ProcessesOK' /\ VersionsOK'
    BY <1>2, BoundsAssumption
       DEF WorkersInv, ProcessesOK, VersionsOK, Start, documentVars
  <2>2. Shape(jobs', runs', unread', version')
    BY <1>2, AllKept DEF Start, documentVars
  <2> QED BY <2>1, <2>2 DEF WorkersInv
<1>3. CASE InitQueue(w)
  <2>1. ProcessesOK' /\ VersionsOK'
    BY <1>3 DEF WorkersInv, ProcessesOK, VersionsOK, InitQueue, documentVars
  <2>2. Moves(jobs, jobs')
    BY <1>1, <1>3, CleanMoves, JobsUnchanged DEF InitQueue
  <2>3. Shape(jobs', runs', unread', version')
    BY <1>3, <2>2, RunsKept DEF InitQueue, documentVars
  <2> QED BY <2>1, <2>3 DEF WorkersInv
<1>4. CASE Shutdown(w)
  <2>1. ProcessesOK' /\ VersionsOK'
    BY <1>4 DEF WorkersInv, ProcessesOK, VersionsOK, Shutdown, documentVars
  <2>2. Moves(jobs, jobs')
    BY <1>1, <1>4, LosePushesMoves DEF Shutdown
  <2>3. Shape(jobs', runs', unread', version')
    BY <1>4, <2>2, RunsKept DEF Shutdown, documentVars
  <2> QED BY <2>1, <2>3 DEF WorkersInv
<1>5. CASE Reject(w)
  <2>1. ProcessesOK' /\ VersionsOK'
    BY <1>5 DEF WorkersInv, ProcessesOK, VersionsOK, Reject, documentVars
  <2>2. Shape(jobs', runs', unread', version')
    BY <1>5, AllKept DEF Reject, documentVars
  <2> QED BY <2>1, <2>2 DEF WorkersInv
<1>6. CASE Exit(w)
  <2>1. ProcessesOK' /\ VersionsOK'
    BY <1>6 DEF WorkersInv, ProcessesOK, VersionsOK, Exit, documentVars
  <2>2. Moves(jobs, jobs')
    BY <1>1, <1>6, LosePushesMoves DEF Exit
  <2>3. GoesOn(runs, runs', version)
    <3>1. DOMAIN runs' \subseteq DOMAIN runs /\ \A q \in DOMAIN runs' : runs'[q] = runs[q]
      BY <1>6 DEF Exit
    <3> QED BY <1>1, <3>1, RunsStay
  <2>4. Shape(jobs', runs', unread', version')
    BY <1>6, <2>2, <2>3, ShapeKept DEF Exit, documentVars
  <2> QED BY <2>1, <2>4 DEF WorkersInv
<1>7. CASE HandleErrors(w)
  <2>1. ProcessesOK' /\ VersionsOK'
    BY <1>7, BoundsAssumption
       DEF WorkersInv, ProcessesOK, VersionsOK, HandleErrors, documentVars
  <2>2. Moves(jobs, jobs')
    BY <1>1, <1>7, LosePushesMoves DEF HandleErrors
  <2>3. Shape(jobs', runs', unread', version')
    BY <1>7, <2>2, RunsKept DEF HandleErrors, documentVars
  <2> QED BY <2>1, <2>3 DEF WorkersInv
<1>8. CASE Pause(w)
  <2>1. ProcessesOK' /\ VersionsOK'
    BY <1>8 DEF WorkersInv, ProcessesOK, VersionsOK, Pause, documentVars
  <2>2. Shape(jobs', runs', unread', version')
    BY <1>8, AllKept DEF Pause, documentVars
  <2> QED BY <2>1, <2>2 DEF WorkersInv
<1>9. CASE HandlePausedState(w)
  <2>1. ProcessesOK' /\ VersionsOK'
    BY <1>9, BoundsAssumption
       DEF WorkersInv, ProcessesOK, VersionsOK, HandlePausedState, documentVars
  <2>2. Shape(jobs', runs', unread', version')
    BY <1>9, AllKept DEF HandlePausedState, documentVars
  <2> QED BY <2>1, <2>2 DEF WorkersInv
<1> QED BY <1>2, <1>3, <1>4, <1>5, <1>6, <1>7, <1>8, <1>9

\* The names of what different callers push differ.
LEMMA NamesDiffer ==
    ASSUME NEW m, NEW v, NEW r
    PROVE  /\ FreehandJob(m) # ThumbnailJob(v)
           /\ FreehandJob(m) # EventOf(r)
           /\ ThumbnailJob(v) # EventOf(r)
           /\ Task(FreehandJob(m)) = "freehand"
           /\ Task(ThumbnailJob(v)) = "thumbnail"
           /\ Task(EventOf(r)) = "event"
BY DEF FreehandJob, ThumbnailJob, EventOf, Task

LEMMA PushDomain ==
    ASSUME NEW all, NEW e, NEW by
    PROVE  DOMAIN Push(all, e, by) = DOMAIN all \cup {e}
BY DEF Push, With

LEMMA ConsumeInv ==
    ASSUME WorkersInv, NEW w \in Worker, Consume(w)
    PROVE  WorkersInv'
<1>1. ProcessesOK' /\ VersionsOK'
  BY DEF WorkersInv, ProcessesOK, VersionsOK, Consume, processVars, documentVars
<1>2. UnreadOK(jobs, unread)
  BY DEF WorkersInv, Shape
<1>3. /\ unread # << >> /\ unread' = Tail(unread) /\ runs' = runs /\ version' = version
      /\ jobs' = IF Message[Head(unread)] = Freehand
                 THEN Push(jobs, FreehandJob(Head(unread)), Child(w))
                 ELSE jobs
  BY DEF Consume, documentVars
<1>4. PICK box \in Seq(DOMAIN Message) : box = unread
  BY <1>2 DEF UnreadOK
<1>5. PICK rest : rest = unread'
  OBVIOUS
<1>6. PICK m : m = Head(unread)
  OBVIOUS
<1>7. /\ rest \in Seq(DOMAIN Message)
      /\ 1 \in DOMAIN box
      /\ m = box[1]
      /\ \A i \in DOMAIN rest : /\ i + 1 \in DOMAIN box /\ i \in Nat
                                /\ rest[i] = box[i + 1] /\ i + 1 # 1
  BY <1>3, <1>4, <1>5, <1>6
<1>8. /\ \A i, k \in DOMAIN rest : rest[i] = rest[k] => i = k
      /\ \A i \in DOMAIN rest : rest[i] # m /\ FreehandJob(rest[i]) \notin DOMAIN jobs
      /\ FreehandJob(m) \notin DOMAIN jobs
  BY <1>2, <1>4, <1>7 DEF UnreadOK
<1>9. UnreadOK(jobs, rest)
  BY <1>7, <1>8 DEF UnreadOK
<1>10. Shape(jobs, runs, rest, version)
  BY <1>9 DEF WorkersInv, Shape
<1>11. CASE Message[m] = Freehand
  <2>1. PICK new : new = jobs'
    OBVIOUS
  <2>2. new = Push(jobs, FreehandJob(m), Child(w))
    BY <1>3, <1>6, <1>11, <2>1
  <2>3. DOMAIN new = DOMAIN jobs \cup {FreehandJob(m)}
    BY <2>2, PushDomain
  <2>4. \A i \in DOMAIN rest : FreehandJob(rest[i]) # FreehandJob(m)
    BY <1>8 DEF FreehandJob
  <2>5. UnreadOK(new, rest)
    BY <1>7, <1>8, <2>3, <2>4 DEF UnreadOK
  <2>6. EditsOK(new, version)
    BY <2>3, NamesDiffer DEF WorkersInv, Shape, EditsOK
  <2>7. RunsOK(jobs, runs, version)
    BY DEF WorkersInv, Shape
  <2>8. Task(FreehandJob(m)) = "freehand" /\ "freehand" \in DOMAIN Tasks
    BY NamesDiffer DEF Tasks
  <2>9. Child(w) \in {Api} \cup (Worker \X {"main", "child"})
    BY DEF Child
  <2>10. Shape(new, runs, rest, version)
    BY <1>8, <1>10, <2>2, <2>5, <2>6, <2>7, <2>8, <2>9, PushKeepsShape
  <2> QED BY <1>1, <1>3, <1>5, <2>1, <2>10 DEF WorkersInv
<1>12. CASE Message[m] # Freehand
  BY <1>1, <1>3, <1>5, <1>6, <1>10, <1>12 DEF WorkersInv
<1> QED BY <1>11, <1>12

LEMMA EditInv ==
    ASSUME WorkersInv, Edit
    PROVE  WorkersInv'
<1>1. /\ version < Edits /\ version' = version + 1
      /\ jobs' = Push(jobs, ThumbnailJob(version + 1), Api)
      /\ runs' = runs /\ unread' = unread /\ thumbnail' = thumbnail
  BY DEF Edit
<1>2. version \in Nat /\ version \in 0..Edits /\ thumbnail \in 0..version
  BY DEF WorkersInv, VersionsOK
<1>3. ProcessesOK'
  BY DEF WorkersInv, ProcessesOK, Edit, processVars
<1>4. VersionsOK'
  BY <1>1, <1>2, BoundsAssumption DEF VersionsOK
<1>5. PICK v : v = version + 1
  OBVIOUS
<1>6. PICK new : new = jobs'
  OBVIOUS
<1>7. DOMAIN new = DOMAIN jobs \cup {ThumbnailJob(v)}
  BY <1>1, <1>5, <1>6, PushDomain
<1>8. ThumbnailJob(v) \notin DOMAIN jobs
  BY <1>2, <1>5 DEF WorkersInv, Shape, EditsOK
<1>9. UnreadOK(new, unread)
  BY <1>7, NamesDiffer DEF WorkersInv, Shape, UnreadOK
<1>10. EditsOK(new, v)
  <2> SUFFICES ASSUME NEW n \in Nat, ThumbnailJob(n) \in DOMAIN new
               PROVE  n <= v
    BY DEF EditsOK
  <2>1. CASE ThumbnailJob(n) \in DOMAIN jobs
    BY <1>2, <1>5, <2>1 DEF WorkersInv, Shape, EditsOK
  <2>2. CASE ThumbnailJob(n) = ThumbnailJob(v)
    BY <1>2, <1>5, <2>2 DEF ThumbnailJob
  <2> QED BY <1>7, <2>1, <2>2
<1>11. RunsOK(jobs, runs, v)
  <2>1. \A j : Run(j, version) \subseteq Run(j, v)
    <3>1. 0..version \subseteq 0..v
      BY <1>2, <1>5
    <3> QED BY <3>1 DEF Run
  <2> QED BY <2>1 DEF WorkersInv, Shape, RunsOK
<1>12. Task(ThumbnailJob(v)) = "thumbnail" /\ "thumbnail" \in DOMAIN Tasks
  BY NamesDiffer DEF Tasks
<1>13. new = Push(jobs, ThumbnailJob(v), Api) /\ Shape(jobs, runs, unread, version)
  BY <1>1, <1>5, <1>6 DEF WorkersInv
<1>14. Shape(new, runs, unread, v)
  BY <1>8, <1>9, <1>10, <1>11, <1>12, <1>13, PushKeepsShape
<1> QED BY <1>1, <1>3, <1>4, <1>5, <1>6, <1>14 DEF WorkersInv

LEMMA JobStepInv ==
    ASSUME WorkersInv, NEW j \in DOMAIN jobs, JobStep(j)
    PROVE  WorkersInv'
<1>1. jobs[j] \in Job /\ JobsOK(jobs) /\ State(j) = jobs[j].state
  BY DEF WorkersInv, Shape, JobsOK, State
<1>2. {"lost", "dropped", "timedOut", "failed"} \subseteq JobState \ Queued
  BY DEF JobState, Over, Queued
<1>3. CASE Add(j)
  <2>1. ProcessesOK' /\ VersionsOK'
    BY <1>3 DEF WorkersInv, ProcessesOK, VersionsOK, Add, processVars, documentVars
  <2>2. DOMAIN jobs' = DOMAIN jobs
    BY <1>3 DEF Add
  <2>3. ASSUME NEW k \in DOMAIN jobs
        PROVE  /\ jobs'[k] \in Job
               /\ jobs'[k].stalls = jobs[k].stalls
               /\ jobs'[k].sent = jobs[k].sent
               /\ jobs'[k].state \in Queued => jobs[k].state \in Queued
    <3>1. jobs[k] \in Job
      BY <1>1 DEF JobsOK
    <3>2. \/ k = j /\ jobs'[k] = [jobs[k] EXCEPT !.state = "waiting"]
          \/ \E s \in {"replaced", "deleted"} : jobs'[k] = [jobs[k] EXCEPT !.state = s]
          \/ jobs'[k] = jobs[k]
      BY <1>3 DEF Add
    <3>3. /\ "waiting" \in JobState /\ {"replaced", "deleted"} \subseteq JobState \ Queued
          /\ jobs[j].state \in Queued
      BY <1>1, <1>3 DEF JobState, Over, Queued, Add
    <3>4. CASE k = j /\ jobs'[k] = [jobs[k] EXCEPT !.state = "waiting"]
      BY <3>1, <3>3, <3>4, JobWithState
    <3>5. ASSUME NEW s \in {"replaced", "deleted"}, jobs'[k] = [jobs[k] EXCEPT !.state = s]
          PROVE  /\ jobs'[k] \in Job
                 /\ jobs'[k].stalls = jobs[k].stalls
                 /\ jobs'[k].sent = jobs[k].sent
                 /\ jobs'[k].state \notin Queued
      BY <3>1, <3>3, <3>5, JobWithState
    <3>6. CASE jobs'[k] = jobs[k]
      BY <3>1, <3>6
    <3> QED BY <3>2, <3>4, <3>5, <3>6
  <2>4. Moves(jobs, jobs')
    BY <2>2, <2>3 DEF Moves
  <2>5. Shape(jobs', runs', unread', version')
    BY <1>3, <2>4, RunsKept DEF Add, documentVars
  <2> QED BY <2>1, <2>5 DEF WorkersInv
<1>4. CASE LosePush(j)
  <2>1. ProcessesOK' /\ VersionsOK'
    BY <1>4 DEF WorkersInv, ProcessesOK, VersionsOK, LosePush, documentVars
  <2>2. Moves(jobs, jobs')
    BY <1>1, <1>2, <1>4, SetStateMoves DEF LosePush
  <2>3. Shape(jobs', runs', unread', version')
    BY <1>4, <2>2, RunsKept DEF LosePush, documentVars
  <2> QED BY <2>1, <2>3 DEF WorkersInv
<1>5. CASE DropPush(j)
  <2>1. ProcessesOK' /\ VersionsOK'
    BY <1>5 DEF WorkersInv, ProcessesOK, VersionsOK, DropPush, processVars, documentVars
  <2>2. Moves(jobs, jobs')
    BY <1>1, <1>2, <1>5, SetStateMoves DEF DropPush
  <2>3. Shape(jobs', runs', unread', version')
    BY <1>5, <2>2, RunsKept DEF DropPush, documentVars
  <2> QED BY <2>1, <2>3 DEF WorkersInv
<1>6. CASE Timeout(j)
  <2>1. ProcessesOK' /\ VersionsOK'
    BY <1>6 DEF WorkersInv, ProcessesOK, VersionsOK, Timeout, documentVars
  <2>2. Moves(jobs, jobs')
    BY <1>1, <1>2, <1>6, EndJobMoves DEF Timeout
  <2>3. Shape(jobs', runs', unread', version')
    BY <1>6, <2>2, RunsKept DEF Timeout, documentVars
  <2> QED BY <2>1, <2>3 DEF WorkersInv
<1>7. CASE Stall(j)
  <2>1. ProcessesOK' /\ VersionsOK'
    BY <1>7 DEF WorkersInv, ProcessesOK, VersionsOK, Stall, documentVars
  <2>2. runs' = runs /\ unread' = unread /\ version' = version
    BY <1>7 DEF Stall, documentVars
  <2>3. Shape(jobs', runs', unread', version')
    <3>1. CASE jobs[j].stalls < MaxStalls
      <4>1. jobs' = [jobs EXCEPT ![j].stalls = @ + 1, ![j].state = "waiting"]
        BY <1>7, <3>1 DEF Stall
      <4>2. jobs[j].state = "active"
        BY <1>1, <1>7 DEF Stall
      <4> QED BY <2>2, <3>1, <4>1, <4>2, StallKeepsShape DEF WorkersInv
    <3>2. CASE ~ (jobs[j].stalls < MaxStalls)
      <4>1. Moves(jobs, jobs')
        BY <1>1, <1>2, <1>7, <3>2, EndJobMoves DEF Stall
      <4> QED BY <2>2, <4>1, RunsKept
    <3> QED BY <3>1, <3>2
  <2> QED BY <2>1, <2>3 DEF WorkersInv
<1> QED BY <1>3, <1>4, <1>5, <1>6, <1>7 DEF JobStep

LEMMA TakeInv ==
    ASSUME WorkersInv, NEW w \in Worker, NEW j \in DOMAIN jobs, Take(w, j)
    PROVE  WorkersInv'
<1>1. ProcessesOK' /\ VersionsOK'
  BY DEF WorkersInv, ProcessesOK, VersionsOK, Take, processVars, documentVars
<1>2. version \in Nat /\ Shape(jobs, runs, unread, version)
  BY DEF WorkersInv, VersionsOK
<1>3. /\ jobs[j].state = "waiting"
      /\ jobs' = SetState(jobs, j, "active")
      /\ runs' = With(runs, <<j, jobs[j].stalls + 1>>,
                      [worker |-> w, at |-> Head(Tasks[Task(j)]), copy |-> 0, tries |-> 0])
      /\ unread' = unread /\ version' = version
  BY DEF Take, State, documentVars
<1>4. Shape(jobs', runs', unread', version')
  BY <1>2, <1>3, TakeKeepsShape
<1> QED BY <1>1, <1>4 DEF WorkersInv

LEMMA EndGoesOn ==
    ASSUME WorkersInv, NEW r \in DOMAIN runs, NEW s \in JobState \ Queued, End(r, s)
    PROVE  Moves(jobs, jobs') /\ GoesOn(runs, runs', version)
<1>1. JobsOK(jobs) /\ RunsOK(jobs, runs, version)
  BY DEF WorkersInv, Shape
<1>2. DOMAIN runs' \subseteq DOMAIN runs /\ \A q \in DOMAIN runs' : runs'[q] = runs[q]
  BY DEF End, WithoutRun
<1>3. Moves(jobs, jobs')
  BY <1>1, SettledMoves DEF End
<1> QED BY <1>1, <1>2, <1>3, RunsStay

LEMMA AdvanceKeepsShape ==
    ASSUME WorkersInv, NEW r \in DOMAIN runs, NEW copy \in 0..version,
           Advance(r, copy, jobs), unread' = unread, version' = version
    PROVE  Shape(jobs', runs', unread', version')
<1>1. JobsOK(jobs) /\ RunsOK(jobs, runs, version)
  BY DEF WorkersInv, Shape
<1>2. Moves(jobs, jobs') /\ GoesOn(runs, runs', version)
  BY <1>1, AdvanceGoesOn
<1> QED BY <1>2, ShapeKept

\* A message or mail is out, or perhaps a mail is not.
LEMMA OutKeepsJobs ==
    ASSUME WorkersInv, NEW r \in DOMAIN runs, runs[r].at \in BeforeSend, NEW arrived \in {0, 1}
    PROVE  /\ JobsOK([jobs EXCEPT ![r[1]].sent = @ + arrived])
           /\ DOMAIN [jobs EXCEPT ![r[1]].sent = @ + arrived] = DOMAIN jobs
<1>1. JobsOK(jobs) /\ RunsOK(jobs, runs, version) /\ SentOK(jobs, runs)
  BY DEF WorkersInv, Shape
<1>2. PICK j \in DOMAIN jobs, n \in 1..(MaxStalls + 1) : r = <<j, n>>
  BY <1>1 DEF RunsOK
<1>3. PICK all : all = [jobs EXCEPT ![j].sent = @ + arrived]
  OBVIOUS
<1>4. jobs[j] \in Job
  BY <1>1 DEF JobsOK
<1>5. jobs[j].sent + arrived \in 0..((MaxStalls + 1) * (Retries + 1))
  <2>1. /\ SendsLeft(jobs, runs, j, 1) \in Nat /\ SendsLeft(jobs, runs, j, 2) \in Nat
        /\ SendsLeft(jobs, runs, j, n) >= 1
    BY <1>1, <1>2, RunTyped, SendsLeftType
  <2>2. n = 1 \/ n = 2
    BY DEF MaxStalls
  <2>3. /\ jobs[j].sent \in Nat /\ Allowed(jobs, j) \in Nat
        /\ Allowed(jobs, j) <= (MaxStalls + 1) * (Retries + 1)
    BY <1>4, AllowedType DEF Job
  <2>4. jobs[j].sent + SendsLeft(jobs, runs, j, 1) + SendsLeft(jobs, runs, j, 2)
        <= Allowed(jobs, j)
    BY <1>1 DEF SentOK
  <2>5. jobs[j].sent + 1 <= Allowed(jobs, j)
    BY <2>1, <2>2, <2>3, <2>4
  <2> QED BY <2>3, <2>5 DEF MaxStalls, Retries
<1>6. PICK job \in Job, i \in 0..((MaxStalls + 1) * (Retries + 1)) :
         job = jobs[j] /\ i = jobs[j].sent + arrived
  BY <1>4, <1>5
<1>7. [job EXCEPT !.sent = i] \in Job
  BY DEF Job
<1>8. /\ DOMAIN all = DOMAIN jobs
      /\ all[j] = [job EXCEPT !.sent = i]
      /\ \A k \in DOMAIN jobs : k # j => all[k] = jobs[k]
  BY <1>3, <1>6
<1>9. JobsOK(all)
  BY <1>1, <1>7, <1>8 DEF JobsOK
<1> QED BY <1>2, <1>3, <1>8, <1>9

LEMMA SendInv ==
    ASSUME WorkersInv, NEW r \in DOMAIN runs, Send(r) \/ Post(r)
    PROVE  WorkersInv'
<1>1. ProcessesOK' /\ VersionsOK'
  BY DEF WorkersInv, ProcessesOK, VersionsOK, Send, Post, processVars, documentVars
<1>2. /\ Shape(jobs, runs, unread, version)
      /\ JobsOK(jobs) /\ RunsOK(jobs, runs, version) /\ 0 \in 0..version
  BY DEF WorkersInv, Shape, VersionsOK
<1>3. PICK j \in DOMAIN jobs, n \in 1..(MaxStalls + 1) : r = <<j, n>>
  BY <1>2 DEF RunsOK
<1>4. /\ \E arrived \in {0, 1} : Advance(r, 0, [jobs EXCEPT ![j].sent = @ + arrived])
      /\ runs[r].at \in {"send", "post"} /\ unread' = unread /\ version' = version
  BY <1>3 DEF Send, Post, documentVars
<1>5. PICK arrived \in {0, 1} : Advance(r, 0, [jobs EXCEPT ![j].sent = @ + arrived])
  BY <1>4
<1>6. PICK all : all = [jobs EXCEPT ![j].sent = @ + arrived]
  OBVIOUS
<1>7. runs[r].at \in BeforeSend
  BY <1>4 DEF BeforeSend
<1>8. JobsOK(all) /\ DOMAIN jobs \subseteq DOMAIN all
  BY <1>3, <1>6, <1>7, OutKeepsJobs
<1>9. /\ Moves(all, jobs')
      /\ GoesOn(runs, runs', version)
      /\ r \in DOMAIN runs' => runs'[r].at \notin BeforeSend
  BY <1>2, <1>4, <1>5, <1>6, <1>8, AdvanceGoesOn
<1>10. Shape(jobs', runs', unread, version)
  BY <1>2, <1>3, <1>6, <1>7, <1>9, SendKeepsShape
<1> QED BY <1>1, <1>4, <1>10 DEF WorkersInv

LEMMA RetryInv ==
    ASSUME WorkersInv, NEW r \in DOMAIN runs, Retry(r)
    PROVE  WorkersInv'
<1>1. ProcessesOK' /\ VersionsOK'
  BY DEF WorkersInv, ProcessesOK, VersionsOK, Retry, processVars, documentVars
<1>2. /\ Shape(jobs, runs, unread, version)
      /\ JobsOK(jobs) /\ RunsOK(jobs, runs, version)
  BY DEF WorkersInv, Shape
<1>3. PICK j \in DOMAIN jobs, n \in 1..(MaxStalls + 1) : r = <<j, n>> /\ runs[r] \in Run(j, version)
  BY <1>2 DEF RunsOK
<1>4. /\ runs[r].at = "post" /\ runs[r].tries < Retries
      /\ runs' = [runs EXCEPT ![r].tries = @ + 1]
      /\ unread' = unread /\ version' = version
  BY DEF Retry, documentVars
<1>5. PICK arrived \in {0, 1} : jobs' = [jobs EXCEPT ![j].sent = @ + arrived]
  BY <1>3 DEF Retry
<1>6. runs[r].at \in BeforeSend
  BY <1>4 DEF BeforeSend
<1>7. Attempts(j) = 1 + Retries
  <2>1. Task(j) \in DOMAIN Tasks
    BY <1>2 DEF JobsOK
  <2>2. Task(j) \in {"mention", "updateEmail"}
    <3>1. runs[r].at \in StepsOf(Task(j))
      BY <1>3 DEF Run
    <3>2. PICK i \in DOMAIN Tasks[Task(j)] : Tasks[Task(j)][i] = "post"
      BY <1>4, <3>1 DEF StepsOf
    <3> QED BY <2>1, <3>2, TaskSteps
  <2> QED BY <2>2 DEF Attempts
<1>8. PICK i : i = runs[r].tries + 1
  OBVIOUS
<1>9. i \in 0..(Attempts(j) - 1) /\ i >= runs[r].tries
  BY <1>3, <1>4, <1>7, <1>8 DEF Run, Retries
<1>10. /\ DOMAIN runs' = DOMAIN runs
       /\ runs'[r] = [runs[r] EXCEPT !.tries = i]
       /\ \A q \in DOMAIN runs : q # r => runs'[q] = runs[q]
  BY <1>4, <1>8
<1>11. /\ runs'[r] \in Run(j, version) /\ runs'[r].at = runs[r].at
       /\ runs'[r].tries = i
  BY <1>3, <1>9, <1>10 DEF Run
<1>12. GoesOn(runs, runs', version)
  <2> SUFFICES ASSUME NEW q \in DOMAIN runs'
               PROVE  /\ runs'[q] \in Run(q[1], version)
                      /\ runs'[q].at \in BeforeSend => runs[q].at \in BeforeSend
                      /\ runs'[q].tries >= runs[q].tries
    BY <1>10 DEF GoesOn
  <2>1. runs[q] \in Run(q[1], version) /\ runs[q].tries >= runs[q].tries
    BY <1>2, <1>10, AttemptsType DEF RunsOK, Run
  <2>2. CASE q = r
    <3>1. q[1] = j
      BY <1>3, <2>2
    <3> QED BY <1>9, <1>11, <2>2, <3>1
  <2>3. CASE q # r
    <3>1. runs'[q] = runs[q]
      BY <1>10, <2>3
    <3> QED BY <2>1, <3>1
  <2> QED BY <2>2, <2>3
<1>13. Moves([jobs EXCEPT ![j].sent = @ + arrived], jobs')
  BY <1>3, <1>5, <1>6, OutKeepsJobs, JobsUnchanged
<1>14. Shape(jobs', runs', unread, version)
  BY <1>2, <1>3, <1>6, <1>8, <1>11, <1>12, <1>13, SendKeepsShape
<1> QED BY <1>1, <1>4, <1>14 DEF WorkersInv

LEMMA AnnounceInv ==
    ASSUME WorkersInv, NEW r \in DOMAIN runs, Announce(r)
    PROVE  WorkersInv'
<1>1. ProcessesOK' /\ VersionsOK'
  BY DEF WorkersInv, ProcessesOK, VersionsOK, Announce, processVars, documentVars
<1>2. /\ Shape(jobs, runs, unread, version)
      /\ JobsOK(jobs) /\ RunsOK(jobs, runs, version) /\ 0 \in 0..version
  BY DEF WorkersInv, Shape, VersionsOK
<1>3. PICK j \in DOMAIN jobs, n \in 1..(MaxStalls + 1) :
         /\ r = <<j, n>> /\ n <= jobs[j].stalls + 1
         /\ ~ ToCome(jobs, j, n) /\ runs[r] \in Run(j, version)
  BY <1>2 DEF RunsOK
<1>4. PICK by : by = Main(runs[r].worker)
  OBVIOUS
<1>5. by \in {Api} \cup (Worker \X {"main", "child"})
  BY <1>3, <1>4 DEF Run, Main
<1>6. PICK all : all = Push(jobs, EventOf(r), by)
  OBVIOUS
<1>7. runs[r].at = "announce" /\ Advance(r, 0, all) /\ unread' = unread /\ version' = version
  BY <1>4, <1>6 DEF Announce, documentVars
<1>8. EventOf(r) \notin DOMAIN jobs
  BY <1>2, <1>3 DEF Shape, EventsOK
<1>9. DOMAIN all = DOMAIN jobs \cup {EventOf(r)}
  BY <1>6, PushDomain
<1>10. Task(EventOf(r)) = "event" /\ "event" \in DOMAIN Tasks
  BY NamesDiffer DEF Tasks
<1>11. JobsOK(all)
  <2>1. all[EventOf(r)] = Pushed(by) /\ \A k \in DOMAIN jobs : all[k] = jobs[k]
    BY <1>6, <1>8 DEF Push, With
  <2> QED BY <1>2, <1>5, <1>9, <1>10, <2>1, PushedJob DEF JobsOK
<1>12. /\ Moves(all, jobs')
       /\ GoesOn(runs, runs', version)
       /\ r \notin DOMAIN runs'
  BY <1>2, <1>7, <1>9, <1>11, AdvanceGoesOn
<1>13. Shape(jobs, runs', unread, version)
  BY <1>2, <1>12, JobsUnchanged, MovesKeepShape
<1>14. UnreadOK(all, unread) /\ EditsOK(all, version)
  BY <1>2, <1>9, NamesDiffer DEF Shape, UnreadOK, EditsOK
<1>15. RunsOK(jobs, runs', version)
  BY <1>13 DEF Shape
<1>16. Shape(all, runs', unread, version)
  BY <1>3, <1>5, <1>6, <1>8, <1>10, <1>12, <1>13, <1>14, <1>15, PushKeepsShape
<1>17. GoesOn(runs', runs', version)
  BY <1>15, RunsUnchanged
<1>18. Shape(jobs', runs', unread, version)
  BY <1>12, <1>16, <1>17, MovesKeepShape
<1> QED BY <1>1, <1>7, <1>18 DEF WorkersInv

LEMMA RunStepInv ==
    ASSUME WorkersInv, NEW r \in DOMAIN runs, RunStep(r) \/ Fail(r)
    PROVE  WorkersInv'
<1>1. /\ RunsOK(jobs, runs, version) /\ version \in Nat
      /\ 0 \in 0..version /\ version \in 0..version
      /\ runs[r].copy \in 0..version
  <2>1. RunsOK(jobs, runs, version) /\ version \in Nat
    BY DEF WorkersInv, Shape, VersionsOK
  <2>2. runs[r].copy \in 0..version
    BY <2>1 DEF RunsOK, Run
  <2> QED BY <2>1, <2>2
<1>2. {"failed", "completed"} \subseteq JobState \ Queued
  BY DEF JobState, Over, Queued
<1>3. CASE Find(r)
  <2>1. ProcessesOK' /\ VersionsOK'
    BY <1>3 DEF WorkersInv, ProcessesOK, VersionsOK, Find, processVars, documentVars
  <2>2. unread' = unread /\ version' = version
    BY <1>3 DEF Find, documentVars
  <2>3. Advance(r, 0, jobs) \/ End(r, "failed") \/ End(r, "completed")
    BY <1>3 DEF Find
  <2>4. Shape(jobs', runs', unread', version')
    BY <1>1, <1>2, <2>2, <2>3, AdvanceKeepsShape, EndGoesOn, ShapeKept
  <2> QED BY <2>1, <2>4 DEF WorkersInv
<1>4. CASE Contents(r)
  <2>1. ProcessesOK' /\ VersionsOK'
    BY <1>4 DEF WorkersInv, ProcessesOK, VersionsOK, Contents, processVars, documentVars
  <2>2. Shape(jobs', runs', unread', version')
    BY <1>1, <1>4, AdvanceKeepsShape DEF Contents, documentVars
  <2> QED BY <2>1, <2>2 DEF WorkersInv
<1>5. CASE Render(r)
  <2>1. ProcessesOK' /\ VersionsOK'
    BY <1>5 DEF WorkersInv, ProcessesOK, VersionsOK, Render, processVars, documentVars
  <2>2. PICK key \in {runs[r].copy, 0} : Advance(r, key, jobs)
    BY <1>5 DEF Render
  <2>3. Shape(jobs', runs', unread', version')
    BY <1>1, <1>5, <2>2, AdvanceKeepsShape DEF Render, documentVars
  <2> QED BY <2>1, <2>3 DEF WorkersInv
<1>6. CASE SaveThumbnail(r)
  <2>1. ProcessesOK'
    BY <1>6 DEF WorkersInv, ProcessesOK, SaveThumbnail, processVars
  <2>2. VersionsOK'
    BY <1>1, <1>6 DEF WorkersInv, VersionsOK, SaveThumbnail
  <2>3. Shape(jobs', runs', unread', version')
    BY <1>1, <1>6, AdvanceKeepsShape DEF SaveThumbnail
  <2> QED BY <2>1, <2>2, <2>3 DEF WorkersInv
<1>7. CASE Save(r)
  <2>1. ProcessesOK' /\ VersionsOK'
    BY <1>7 DEF WorkersInv, ProcessesOK, VersionsOK, Save, processVars, documentVars
  <2>2. Shape(jobs', runs', unread', version')
    BY <1>1, <1>7, AdvanceKeepsShape DEF Save, documentVars
  <2> QED BY <2>1, <2>2 DEF WorkersInv
<1>8. CASE Fail(r)
  <2>1. ProcessesOK' /\ VersionsOK'
    BY <1>8 DEF WorkersInv, ProcessesOK, VersionsOK, Fail, processVars, documentVars
  <2>2. Shape(jobs', runs', unread', version')
    BY <1>2, <1>8, EndGoesOn, ShapeKept DEF Fail, documentVars
  <2> QED BY <2>1, <2>2 DEF WorkersInv
<1> QED BY <1>3, <1>4, <1>5, <1>6, <1>7, <1>8, SendInv, RetryInv, AnnounceInv DEF RunStep

LEMMA WorkersStep ==
    ASSUME WorkersInv, [Next]_vars
    PROVE  WorkersInv'
<1>1. ASSUME NEW w \in Worker, ProcessStep(w)
      PROVE  WorkersInv'
  BY <1>1, ProcessStepInv, ConsumeInv, TakeInv DEF ProcessStep
<1>2. CASE UNCHANGED vars
  BY <1>2 DEF WorkersInv, ProcessesOK, VersionsOK, vars
<1> QED BY <1>1, <1>2, JobStepInv, RunStepInv, EditInv DEF Next

THEOREM WorkersInvariant == Spec => []WorkersInv
<1>1. WorkersInv /\ [Next]_vars => WorkersInv'
  BY WorkersStep
<1> QED BY <1>1, WorkersInit, PTL DEF Spec

\* Every job has a task, a known state and a known pusher, and every execution is of
\* a job that exists, whatever ends, fails or stalls.
THEOREM WorkersTyped == Spec => []TypeOK
<1>1. WorkersInv => TypeOK
  <2> SUFFICES ASSUME WorkersInv PROVE TypeOK
    OBVIOUS
  <2>1. /\ worker \in [Worker -> {"starting", "up", "closing", "dying", "down"}]
        /\ consumer \in [Worker -> {"up", "paused", "down"}]
        /\ ticks \in [Worker -> 0..PauseTicks]
        /\ version \in 0..Edits /\ thumbnail \in 0..version
    BY DEF WorkersInv, ProcessesOK, VersionsOK
  <2>2. \A i \in DOMAIN unread : unread[i] \in DOMAIN Message
    BY DEF WorkersInv, Shape, UnreadOK
  <2>3. \A j \in DOMAIN jobs :
           /\ Task(j) \in DOMAIN Tasks
           /\ jobs[j] \in [state : {"pushing", "stuck", "waiting", "active"} \cup Over,
                           by : {Api} \cup (Worker \X {"main", "child"}),
                           stalls : 0..MaxStalls,
                           sent : 0..((MaxStalls + 1) * (Retries + 1))]
    <3>1. JobState = {"pushing", "stuck", "waiting", "active"} \cup Over
      BY DEF JobState, Queued
    <3> QED BY <3>1 DEF WorkersInv, Shape, JobsOK, Job
  <2>4. DOMAIN runs \subseteq (DOMAIN jobs) \X (1..(MaxStalls + 1))
    BY DEF WorkersInv, Shape, RunsOK
  <2>5. \A r \in DOMAIN runs : runs[r].tries \in 0..Retries
    <3> SUFFICES ASSUME NEW r \in DOMAIN runs PROVE runs[r].tries \in 0..Retries
      OBVIOUS
    <3>1. PICK j, n : r = <<j, n>> /\ runs[r] \in Run(j, version)
      BY DEF WorkersInv, Shape, RunsOK
    <3>2. runs[r].tries \in 0..(Attempts(j) - 1)
      BY <3>1 DEF Run
    <3> QED BY <3>2 DEF Attempts, Retries
  <2> QED BY <2>1, <2>2, <2>3, <2>4, <2>5 DEF TypeOK
<1> QED BY <1>1, WorkersInvariant, PTL

\* A job sends once, a mail as often as its client posts it, and as much again for each
\* time it has stalled: neither a failure, nor a timeout, nor the end of the worker has
\* a job send once more that has not stalled.
THEOREM SendsAreBounded == Spec => []SendsBounded
<1>1. WorkersInv => SendsBounded
  <2> SUFFICES ASSUME WorkersInv, NEW j \in DOMAIN jobs
               PROVE  jobs[j].sent <= (1 + jobs[j].stalls) * Attempts(j)
    BY DEF SendsBounded
  <2>1. jobs[j] \in Job /\ RunsOK(jobs, runs, version)
    BY DEF WorkersInv, Shape, JobsOK
  <2>2. SendsLeft(jobs, runs, j, 1) \in Nat /\ SendsLeft(jobs, runs, j, 2) \in Nat
    BY <2>1, RunTyped, SendsLeftType
  <2>3. jobs[j].sent \in Nat /\ Allowed(jobs, j) \in Nat
    BY <2>1, AllowedType DEF Job
  <2>4. jobs[j].sent + SendsLeft(jobs, runs, j, 1) + SendsLeft(jobs, runs, j, 2)
        <= Allowed(jobs, j)
    BY DEF WorkersInv, Shape, SentOK
  <2>5. jobs[j].sent <= Allowed(jobs, j)
    BY <2>2, <2>3, <2>4
  <2> QED BY <2>5 DEF Allowed
<1> QED BY <1>1, WorkersInvariant, PTL

-----------------------------------------------------------------------------
(***************************************************************************)
(* Thumbnails.  As long as none of their jobs has stalled, failed, timed   *)
(* out, been lost or deleted, at most one of them waits or is active; and  *)
(* when no push and no job waits, the last of them draws the last edit.    *)
(***************************************************************************)
Thumbnails(all) == {j \in DOMAIN all : Task(j) = "thumbnail"}
Bad == {"failed", "timedOut", "lost", "deleted"}
AllWell(all) == \A j \in Thumbnails(all) : all[j].stalls = 0 /\ all[j].state \notin Bad

InQueue(all, j) == all[j].state \in {"waiting", "active"}
OneAtATime(all) ==
    \A j, k \in Thumbnails(all) : InQueue(all, j) /\ InQueue(all, k) => j = k

RunsAreActive(all, going) ==
    \A j \in Thumbnails(all) : \A n : <<j, n>> \in DOMAIN going => all[j].state = "active"

NoneQueued(all) == \A j \in Thumbnails(all) : all[j].state \notin Queued

\* What the run has drawn or saved is nothing, or the last edit.
DrawsLast(run, v, t) ==
    /\ run.at \in {"render", "saveThumbnail"} => run.copy \in {0, v}
    /\ run.at = "announce" => t \in {0, v}

LastDrawn(all, going, v, t) ==
    NoneQueued(all) =>
        /\ \A j \in Thumbnails(all) : \A n :
              <<j, n>> \in DOMAIN going => DrawsLast(going[<<j, n>>], v, t)
        /\ (\A j \in Thumbnails(all) : all[j].state # "active") => t \in {0, v}

ThumbnailsOK(all, going, v, t) ==
    AllWell(all) => /\ OneAtATime(all)
                    /\ RunsAreActive(all, going)
                    /\ LastDrawn(all, going, v, t)

ThumbnailInv == WorkersInv /\ ThumbnailsOK(jobs, runs, version, thumbnail)

\* The jobs and runs of thumbnails stay as they are, or end badly; a push may come to
\* wait for a job that is gone, and go on.
Pushing == {"pushing", "stuck"}
Quiet(all, new, going, gone) ==
    /\ Thumbnails(new) = Thumbnails(all)
    /\ \A j \in Thumbnails(all) :
          /\ \/ new[j].state = all[j].state
             \/ new[j].state \in Bad
             \/ all[j].state \in Pushing /\ new[j].state \in Pushing
          /\ new[j].stalls = 0 => all[j].stalls = 0
          /\ \A n : <<j, n>> \in DOMAIN gone =>
                <<j, n>> \in DOMAIN going /\ gone[<<j, n>>] = going[<<j, n>>]

LEMMA QuietKeeps ==
    ASSUME NEW all, NEW new, NEW going, NEW gone, NEW v, NEW t,
           ThumbnailsOK(all, going, v, t), Quiet(all, new, going, gone)
    PROVE  ThumbnailsOK(new, gone, v, t)
<1> SUFFICES ASSUME AllWell(new)
             PROVE  /\ OneAtATime(new)
                    /\ RunsAreActive(new, gone)
                    /\ LastDrawn(new, gone, v, t)
  BY DEF ThumbnailsOK
<1>1. \A j \in Thumbnails(all) :
         /\ new[j].state \in Queued <=> all[j].state \in Queued
         /\ InQueue(new, j) <=> InQueue(all, j)
         /\ new[j].state = "active" <=> all[j].state = "active"
         /\ all[j].state \notin Bad
  BY DEF Quiet, AllWell, Pushing, Queued, InQueue, Bad
<1>2. AllWell(all) /\ Thumbnails(new) = Thumbnails(all)
  BY <1>1 DEF Quiet, AllWell
<1>3. OneAtATime(all) /\ RunsAreActive(all, going) /\ LastDrawn(all, going, v, t)
  BY <1>2 DEF ThumbnailsOK
<1>4. OneAtATime(new)
  BY <1>1, <1>2, <1>3 DEF OneAtATime
<1>5. RunsAreActive(new, gone)
  BY <1>1, <1>2, <1>3 DEF RunsAreActive, Quiet
<1>6. NoneQueued(new) => NoneQueued(all)
  BY <1>1, <1>2 DEF NoneQueued
<1>7. LastDrawn(new, gone, v, t)
  BY <1>1, <1>2, <1>3, <1>6 DEF LastDrawn, Quiet
<1> QED BY <1>4, <1>5, <1>7

\* The step of a run, by its place in the task.
LEMMA AdvanceTo ==
    ASSUME RunsOK(jobs, runs, version), JobsOK(jobs), NEW r \in DOMAIN runs,
           NEW i \in DOMAIN Tasks[Task(r[1])], runs[r].at = Tasks[Task(r[1])][i],
           NEW copy, NEW all, Advance(r, copy, all)
    PROVE  /\ i = Len(Tasks[Task(r[1])]) =>
                 jobs' = Settled(all, r, "completed") /\ runs' = WithoutRun(r)
           /\ i # Len(Tasks[Task(r[1])]) =>
                 /\ jobs' = all
                 /\ DOMAIN runs' = DOMAIN runs
                 /\ \A q \in DOMAIN runs : q # r => runs'[q] = runs[q]
                 /\ runs'[r].at = Tasks[Task(r[1])][i + 1]
                 /\ runs'[r].copy = copy
<1> DEFINE t == Task(r[1])
<1>1. PICK j \in DOMAIN jobs, n \in 1..(MaxStalls + 1) : r = <<j, n>> /\ runs[r] \in Run(j, version)
  BY DEF RunsOK
<1>2. t \in DOMAIN Tasks
  BY <1>1 DEF JobsOK
<1>3. (CHOOSE k \in DOMAIN Tasks[t] : Tasks[t][k] = runs[r].at) = i
  BY <1>2, PlaceOfStep
<1>4. \/ /\ i = Len(Tasks[t])
         /\ jobs' = Settled(all, r, "completed")
         /\ runs' = WithoutRun(r)
      \/ /\ i # Len(Tasks[t])
         /\ jobs' = all
         /\ runs' = [runs EXCEPT ![r].at = Tasks[t][i + 1], ![r].copy = copy]
  BY <1>3 DEF Advance
<1>5. ASSUME runs' = [runs EXCEPT ![r].at = Tasks[t][i + 1], ![r].copy = copy]
      PROVE  /\ DOMAIN runs' = DOMAIN runs
             /\ \A q \in DOMAIN runs : q # r => runs'[q] = runs[q]
             /\ runs'[r].at = Tasks[t][i + 1]
             /\ runs'[r].copy = copy
  <2>1. PICK a : a = Tasks[t][i + 1]
    OBVIOUS
  <2>2. /\ DOMAIN runs' = DOMAIN runs
        /\ \A q \in DOMAIN runs : q # r => runs'[q] = runs[q]
        /\ runs'[r] = [runs[r] EXCEPT !.at = a, !.copy = copy]
    BY <1>5, <2>1
  <2>3. runs'[r].at = a /\ runs'[r].copy = copy
    BY <1>1, <2>2 DEF Run
  <2> QED BY <2>1, <2>2, <2>3
<1> QED BY <1>4, <1>5

LEMMA ThumbnailSteps ==
    /\ Tasks["thumbnail"] = <<"findLive", "contents", "render", "saveThumbnail", "announce">>
    /\ Len(Tasks["thumbnail"]) = 5 /\ DOMAIN Tasks["thumbnail"] = 1..5
    /\ \A t \in DOMAIN Tasks : "saveThumbnail" \in StepsOf(t) => t = "thumbnail"
    /\ {"findPane", "findRevisions", "compose", "saveSnapshot", "saveMembership", "close",
      "send", "post"}
          \cap StepsOf("thumbnail") = {}
<1>1. /\ Tasks["thumbnail"] = <<"findLive", "contents", "render", "saveThumbnail", "announce">>
      /\ Len(Tasks["thumbnail"]) = 5 /\ DOMAIN Tasks["thumbnail"] = 1..5
  BY DEF Tasks, ThumbnailQueueTask
<1>2. {"findPane", "findRevisions", "compose", "saveSnapshot", "saveMembership", "close",
      "send", "post"}
          \cap StepsOf("thumbnail") = {}
  BY <1>1 DEF StepsOf
<1>3. ASSUME NEW t \in DOMAIN Tasks, t # "thumbnail"
      PROVE  "saveThumbnail" \notin StepsOf(t)
  <2>1. t \in {"snapshot", "panesSnapshot", "lastViewed", "mention",
               "updateEmail", "session", "event", "freehand"}
    BY <1>3 DEF Tasks
  <2> QED BY <2>1 DEF StepsOf, Tasks, SnapshotQueueTask, PanesSnapshotTask,
             UpdateLastViewedTask, MentionQueueTask, UpdateEmailQueueTask,
             DocumentSessionQueueTask, EventBusProducerTask, FreehandUpdateTask
<1> QED BY <1>1, <1>2, <1>3

LEMMA QuietStep ==
    ASSUME ThumbnailInv, Quiet(jobs, jobs', runs, runs'),
           version' = version, thumbnail' = thumbnail
    PROVE  ThumbnailsOK(jobs', runs', version', thumbnail')
BY QuietKeeps DEF ThumbnailInv

LEMMA NothingQuiet ==
    ASSUME NEW all, NEW going PROVE Quiet(all, all, going, going)
BY DEF Quiet

\* What the end of a job does to the others.
LEMMA EndJobStates ==
    ASSUME NEW all, JobsOK(all), NEW j \in DOMAIN all, NEW s \in JobState
    PROVE  /\ DOMAIN EndJob(all, j, s) = DOMAIN all
           /\ EndJob(all, j, s)[j].state = s
           /\ \A k \in DOMAIN all :
                 /\ EndJob(all, j, s)[k].stalls = all[k].stalls
                 /\ k # j => \/ EndJob(all, j, s)[k] = all[k]
                             \/ /\ Task(j) = "thumbnail" /\ all[k].state = "stuck"
                                /\ EndJob(all, j, s)[k].state \in {"pushing", "lost"}
<1>1. PICK new : new = EndJob(all, j, s)
  OBVIOUS
<1>2. DOMAIN new = DOMAIN all
  BY <1>1 DEF EndJob
<1>3. ASSUME NEW k \in DOMAIN all
      PROVE  /\ k = j => new[k].state = s
             /\ new[k].stalls = all[k].stalls
             /\ k # j => \/ new[k] = all[k]
                         \/ /\ Task(j) = "thumbnail" /\ all[k].state = "stuck"
                            /\ new[k].state \in {"pushing", "lost"}
  <2>1. all[k] \in Job
    BY DEF JobsOK
  <2>2. {s, "pushing", "lost"} \subseteq JobState
    BY DEF JobState, Queued, Over
  <2>3. ASSUME NEW t \in JobState, new[k] = [all[k] EXCEPT !.state = t]
        PROVE  new[k].state = t /\ new[k].stalls = all[k].stalls
    BY <2>1, <2>3, JobWithState
  <2>4. \/ k = j /\ new[k] = [all[k] EXCEPT !.state = s]
        \/ /\ k # j /\ Task(j) = "thumbnail" /\ all[k].state = "stuck"
           /\ \/ new[k] = [all[k] EXCEPT !.state = "pushing"]
              \/ new[k] = [all[k] EXCEPT !.state = "lost"]
        \/ k # j /\ new[k] = all[k]
    BY <1>1 DEF EndJob, OtherThumbnails
  <2> QED BY <2>2, <2>3, <2>4
<1> QED BY <1>1, <1>2, <1>3

\* A job ends badly.
LEMMA EndJobQuiet ==
    ASSUME JobsOK(jobs), NEW j \in DOMAIN jobs, NEW s \in Bad, NEW going
    PROVE  Quiet(jobs, EndJob(jobs, j, s), going, going)
<1>1. s \in JobState
  BY DEF Bad, JobState, Over
<1> QED BY <1>1, EndJobStates DEF Quiet, Thumbnails, Bad, Pushing

LEMMA CleanQuiet ==
    ASSUME JobsOK(jobs), NEW old \in SUBSET DOMAIN jobs, Clean(old), NEW going
    PROVE  Quiet(jobs, jobs', going, going)
<1>1. DOMAIN jobs' = DOMAIN jobs
  BY DEF Clean
<1>2. ASSUME NEW k \in DOMAIN jobs
      PROVE  /\ \/ jobs'[k].state = jobs[k].state
                \/ jobs'[k].state \in Bad
                \/ jobs[k].state \in Pushing /\ jobs'[k].state \in Pushing
             /\ jobs'[k].stalls = jobs[k].stalls
  <2>1. jobs[k] \in Job
    BY DEF JobsOK
  <2>2. \/ jobs'[k] = jobs[k]
        \/ jobs'[k] = [jobs[k] EXCEPT !.state = "deleted"]
        \/ jobs[k].state = "pushing" /\ jobs'[k] = [jobs[k] EXCEPT !.state = "stuck"]
    BY DEF Clean, State
  <2>3. {"deleted", "stuck"} \subseteq JobState
    BY DEF JobState, Queued, Over
  <2>4. ASSUME NEW t \in JobState, jobs'[k] = [jobs[k] EXCEPT !.state = t]
        PROVE  jobs'[k].state = t /\ jobs'[k].stalls = jobs[k].stalls
    BY <2>1, <2>4, JobWithState
  <2> QED BY <2>2, <2>3, <2>4 DEF Bad, Pushing
<1> QED BY <1>1, <1>2 DEF Quiet, Thumbnails

LEMMA ProcessStepThumbnails ==
    ASSUME ThumbnailInv, NEW w \in Worker,
           \/ Start(w) \/ InitQueue(w) \/ Shutdown(w) \/ Reject(w) \/ Exit(w)
           \/ HandleErrors(w) \/ Pause(w) \/ HandlePausedState(w) \/ Consume(w)
    PROVE  ThumbnailsOK(jobs', runs', version', thumbnail')
<1>1. version' = version /\ thumbnail' = thumbnail
  BY DEF Start, InitQueue, Shutdown, Reject, Exit, HandleErrors, Pause, HandlePausedState,
         Consume, documentVars
<1>2. CASE jobs' = jobs /\ runs' = runs
  BY <1>1, <1>2, NothingQuiet, QuietStep
<1>3. ASSUME NEW lost, LosePushes(lost), DOMAIN runs' \subseteq DOMAIN runs,
             \A q \in DOMAIN runs' : runs'[q] = runs[q]
      PROVE  ThumbnailsOK(jobs', runs', version', thumbnail')
  <2>1. JobsOK(jobs) /\ "lost" \in JobState
    BY DEF ThumbnailInv, WorkersInv, Shape, JobState, Over
  <2>2. ASSUME NEW k \in DOMAIN jobs
        PROVE  /\ jobs'[k].state = jobs[k].state \/ jobs'[k].state = "lost"
               /\ jobs'[k].stalls = jobs[k].stalls
    <3>1. jobs[k] \in Job
      BY <2>1 DEF JobsOK
    <3>2. jobs'[k] = jobs[k] \/ jobs'[k] = [jobs[k] EXCEPT !.state = "lost"]
      BY <1>3 DEF LosePushes
    <3>3. /\ [jobs[k] EXCEPT !.state = "lost"].state = "lost"
          /\ [jobs[k] EXCEPT !.state = "lost"].stalls = jobs[k].stalls
      BY <2>1, <3>1, JobWithState
    <3> QED BY <3>2, <3>3
  <2>3. DOMAIN jobs' = DOMAIN jobs
    BY <1>3 DEF LosePushes
  <2>4. Quiet(jobs, jobs', runs, runs')
    BY <1>3, <2>2, <2>3 DEF Quiet, Thumbnails, Bad
  <2> QED BY <1>1, <2>4, QuietStep
<1>4. CASE Consume(w)
  <2>1. runs' = runs
    BY <1>4 DEF Consume
  <2>2. PICK m : m = Head(unread)
    OBVIOUS
  <2>3. CASE jobs' = Push(jobs, FreehandJob(m), Child(w))
    <3>1. DOMAIN jobs' = DOMAIN jobs \cup {FreehandJob(m)} /\ Task(FreehandJob(m)) # "thumbnail"
      BY <2>3, PushDomain DEF Task, FreehandJob
    <3>2. Thumbnails(jobs') = Thumbnails(jobs)
      BY <3>1 DEF Thumbnails
    <3>3. \A k \in Thumbnails(jobs) : jobs'[k] = jobs[k]
      BY <2>3, <3>1 DEF Push, With, Thumbnails
    <3>4. Quiet(jobs, jobs', runs, runs')
      BY <2>1, <3>2, <3>3 DEF Quiet
    <3> QED BY <1>1, <3>4, QuietStep
  <2> QED BY <1>2, <1>4, <2>1, <2>2, <2>3 DEF Consume
<1>5. CASE Exit(w)
  BY <1>3, <1>5 DEF Exit
<1>6. CASE Shutdown(w) \/ HandleErrors(w)
  BY <1>3, <1>6 DEF Shutdown, HandleErrors
<1>7. CASE InitQueue(w)
  <2>1. runs' = runs /\ JobsOK(jobs)
    BY <1>7 DEF InitQueue, ThumbnailInv, WorkersInv, Shape
  <2>2. ASSUME NEW old \in SUBSET DOMAIN jobs, Clean(old)
        PROVE  ThumbnailsOK(jobs', runs', version', thumbnail')
    <3>1. Quiet(jobs, jobs', runs, runs)
      BY <2>1, <2>2, CleanQuiet
    <3> QED BY <1>1, <2>1, <3>1, QuietStep
  <2> QED BY <1>2, <1>7, <2>1, <2>2 DEF InitQueue
<1> QED BY <1>2, <1>4, <1>5, <1>6, <1>7
     DEF Start, Reject, Pause, HandlePausedState

\* Thumbnail jobs of which none is queued: one step of the queue on one of the jobs.
LEMMA JobStepThumbnails ==
    ASSUME ThumbnailInv, NEW j \in DOMAIN jobs, JobStep(j)
    PROVE  ThumbnailsOK(jobs', runs', version', thumbnail')
<1>1. /\ JobsOK(jobs) /\ jobs[j] \in Job
      /\ \A k \in DOMAIN jobs : State(k) = jobs[k].state
  BY DEF ThumbnailInv, WorkersInv, Shape, JobsOK, State
<1>2. version' = version /\ thumbnail' = thumbnail /\ runs' = runs
  BY DEF JobStep, Add, LosePush, DropPush, Timeout, Stall, documentVars
<1>3. ASSUME NEW s \in JobState, jobs' = SetState(jobs, j, s)
      PROVE  /\ DOMAIN jobs' = DOMAIN jobs
             /\ jobs'[j].state = s /\ jobs'[j].stalls = jobs[j].stalls
             /\ \A k \in DOMAIN jobs : k # j => jobs'[k] = jobs[k]
  <2>1. /\ DOMAIN jobs' = DOMAIN jobs
        /\ jobs'[j] = [jobs[j] EXCEPT !.state = s]
        /\ \A k \in DOMAIN jobs : k # j => jobs'[k] = jobs[k]
    BY <1>3 DEF SetState
  <2> QED BY <1>1, <2>1, JobWithState
<1>4. ASSUME NEW s \in Bad, jobs' = SetState(jobs, j, s)
      PROVE  ThumbnailsOK(jobs', runs', version', thumbnail')
  <2>1. s \in JobState
    BY DEF Bad, JobState, Over
  <2>2. Quiet(jobs, jobs', runs, runs')
    BY <1>2, <1>3, <1>4, <2>1 DEF Quiet, Thumbnails
  <2> QED BY <1>2, <2>2, QuietStep
<1>5. ASSUME NEW s \in Bad, jobs' = EndJob(jobs, j, s)
      PROVE  ThumbnailsOK(jobs', runs', version', thumbnail')
  BY <1>1, <1>2, <1>5, EndJobQuiet, QuietStep
<1>6. CASE LosePush(j)
  BY <1>4, <1>6 DEF LosePush, Bad
<1>7. CASE Timeout(j)
  BY <1>5, <1>7 DEF Timeout, Bad
<1>8. CASE Stall(j)
  <2>1. CASE jobs' = EndJob(jobs, j, "failed")
    BY <1>5, <2>1 DEF Bad
  <2>2. CASE jobs' = [jobs EXCEPT ![j].stalls = @ + 1, ![j].state = "waiting"]
    <3>1. /\ DOMAIN jobs' = DOMAIN jobs
          /\ jobs'[j] = [jobs[j] EXCEPT !.stalls = @ + 1, !.state = "waiting"]
          /\ \A k \in DOMAIN jobs : k # j => jobs'[k] = jobs[k]
      BY <2>2
    <3>2. jobs'[j].stalls # 0
      BY <1>1, <3>1 DEF Job
    <3>3. CASE Task(j) = "thumbnail"
      <4>1. ~ AllWell(jobs')
        BY <3>1, <3>2, <3>3 DEF AllWell, Thumbnails
      <4> QED BY <4>1 DEF ThumbnailsOK
    <3>4. CASE Task(j) # "thumbnail"
      <4>1. Quiet(jobs, jobs', runs, runs')
        BY <1>2, <3>1, <3>4 DEF Quiet, Thumbnails
      <4> QED BY <1>2, <4>1, QuietStep
    <3> QED BY <3>3, <3>4
  <2> QED BY <1>8, <2>1, <2>2 DEF Stall
<1>9. CASE DropPush(j)
  <2>1. PICK k \in OtherThumbnails(j) : State(k) \in {"pushing", "stuck"}
    BY <1>9 DEF DropPush
  <2>2. /\ k \in DOMAIN jobs /\ k # j /\ Task(k) = "thumbnail"
        /\ jobs[k].state \in {"pushing", "stuck"}
    BY <1>1, <2>1 DEF OtherThumbnails
  <2>3. "dropped" \in JobState /\ jobs' = SetState(jobs, j, "dropped") /\ jobs[j].state = "pushing"
    BY <1>1, <1>9 DEF DropPush, JobState, Over
  <2>4. /\ DOMAIN jobs' = DOMAIN jobs
        /\ jobs'[j].state = "dropped" /\ jobs'[j].stalls = jobs[j].stalls
        /\ \A i \in DOMAIN jobs : i # j => jobs'[i] = jobs[i]
    BY <1>3, <2>3
  <2> SUFFICES ASSUME AllWell(jobs')
               PROVE  /\ OneAtATime(jobs')
                      /\ RunsAreActive(jobs', runs')
                      /\ LastDrawn(jobs', runs', version', thumbnail')
    BY DEF ThumbnailsOK
  <2>5. AllWell(jobs)
    BY <2>3, <2>4 DEF AllWell, Thumbnails, Bad
  <2>6. OneAtATime(jobs) /\ RunsAreActive(jobs, runs)
    BY <2>5 DEF ThumbnailInv, ThumbnailsOK
  <2>7. OneAtATime(jobs')
    BY <2>4, <2>6 DEF OneAtATime, InQueue, Thumbnails
  <2>8. RunsAreActive(jobs', runs')
    BY <1>2, <2>3, <2>4, <2>6 DEF RunsAreActive, Thumbnails
  <2>9. ~ NoneQueued(jobs')
    BY <2>2, <2>4 DEF NoneQueued, Thumbnails, Queued
  <2> QED BY <2>7, <2>8, <2>9 DEF LastDrawn
<1>10. CASE Add(j)
  <2>1. {"waiting", "replaced", "deleted"} \subseteq JobState
    BY DEF JobState, Queued, Over
  <2>2. DOMAIN jobs' = DOMAIN jobs
    BY <1>10 DEF Add
  <2>3. ASSUME NEW k \in DOMAIN jobs
        PROVE  /\ jobs'[k].stalls = jobs[k].stalls
               /\ k = j => jobs'[k].state = "waiting"
               /\ k # j /\ k \in OtherThumbnails(j) =>
                     \/ jobs[k].state = "waiting" /\ jobs'[k].state = "replaced"
                     \/ jobs[k].state = "active" /\ jobs'[k].state = "deleted"
                     \/ /\ ~ InQueue(jobs, k)
                        /\ jobs'[k].state = jobs[k].state
               /\ k # j /\ k \notin OtherThumbnails(j) => jobs'[k].state = jobs[k].state
    <3>1. jobs[k] \in Job
      BY <1>1 DEF JobsOK
    <3>2. jobs'[k] = IF k = j THEN [jobs[k] EXCEPT !.state = "waiting"]
                     ELSE IF k \in OtherThumbnails(j) /\ jobs[k].state = "waiting"
                     THEN [jobs[k] EXCEPT !.state = "replaced"]
                     ELSE IF k \in OtherThumbnails(j) /\ jobs[k].state = "active"
                     THEN [jobs[k] EXCEPT !.state = "deleted"]
                     ELSE jobs[k]
      BY <1>1, <1>10 DEF Add
    <3>3. /\ [jobs[k] EXCEPT !.state = "waiting"].state = "waiting"
          /\ [jobs[k] EXCEPT !.state = "waiting"].stalls = jobs[k].stalls
          /\ [jobs[k] EXCEPT !.state = "replaced"].state = "replaced"
          /\ [jobs[k] EXCEPT !.state = "replaced"].stalls = jobs[k].stalls
          /\ [jobs[k] EXCEPT !.state = "deleted"].state = "deleted"
          /\ [jobs[k] EXCEPT !.state = "deleted"].stalls = jobs[k].stalls
      BY <2>1, <3>1, JobWithState
    <3> QED BY <3>2, <3>3 DEF InQueue
  <2>4. CASE Task(j) # "thumbnail"
    <3>1. OtherThumbnails(j) = {}
      BY <2>4 DEF OtherThumbnails
    <3>2. Quiet(jobs, jobs', runs, runs')
      BY <1>2, <2>2, <2>3, <2>4, <3>1 DEF Quiet, Thumbnails
    <3> QED BY <1>2, <3>2, QuietStep
  <2>5. CASE Task(j) = "thumbnail"
    <3> SUFFICES ASSUME AllWell(jobs')
                 PROVE  /\ OneAtATime(jobs')
                        /\ RunsAreActive(jobs', runs')
                        /\ LastDrawn(jobs', runs', version', thumbnail')
      BY DEF ThumbnailsOK
    <3>1. \A k \in Thumbnails(jobs) : k # j => k \in OtherThumbnails(j)
      BY <2>5 DEF OtherThumbnails, Thumbnails
    <3>2. \A k \in Thumbnails(jobs) : k # j => jobs[k].state # "active"
      BY <2>2, <2>3, <3>1 DEF AllWell, Thumbnails, Bad, InQueue
    <3>3. jobs[j].state = "pushing"
      BY <1>1, <1>10 DEF Add
    <3>4. AllWell(jobs)
      BY <2>2, <2>3, <3>3, <3>1 DEF AllWell, Thumbnails, Bad
    <3>5. RunsAreActive(jobs, runs)
      BY <3>4 DEF ThumbnailInv, ThumbnailsOK
    <3>6. \A k \in Thumbnails(jobs') : k # j => ~ InQueue(jobs', k)
      BY <2>2, <2>3, <3>1, <3>2 DEF InQueue, Thumbnails
    <3>7. OneAtATime(jobs')
      BY <3>6 DEF OneAtATime
    <3>8. RunsAreActive(jobs', runs')
      BY <1>2, <2>2, <3>2, <3>3, <3>5 DEF RunsAreActive, Thumbnails
    <3>9. ~ NoneQueued(jobs')
      BY <2>2, <2>3, <2>5 DEF NoneQueued, Thumbnails, Queued
    <3> QED BY <3>7, <3>8, <3>9 DEF LastDrawn
  <2> QED BY <2>4, <2>5
<1> QED BY <1>6, <1>7, <1>8, <1>9, <1>10 DEF JobStep

LEMMA TakeThumbnails ==
    ASSUME ThumbnailInv, NEW w \in Worker, NEW j \in DOMAIN jobs, Take(w, j)
    PROVE  ThumbnailsOK(jobs', runs', version', thumbnail')
<1>1. /\ jobs[j] \in Job /\ jobs[j].state = "waiting" /\ "active" \in JobState
      /\ Task(j) \in DOMAIN Tasks
      /\ version' = version /\ thumbnail' = thumbnail
  BY DEF ThumbnailInv, WorkersInv, Shape, JobsOK, State, Take, JobState, documentVars
<1>2. PICK n : n = jobs[j].stalls + 1
  OBVIOUS
<1>3. PICK run : run = [worker |-> w, at |-> Head(Tasks[Task(j)]), copy |-> 0, tries |-> 0]
  OBVIOUS
<1>4. /\ DOMAIN runs' = DOMAIN runs \cup {<<j, n>>}
      /\ runs'[<<j, n>>] = run
      /\ \A q \in DOMAIN runs : q # <<j, n>> => runs'[q] = runs[q]
  BY <1>2, <1>3 DEF Take, With
<1>5. /\ DOMAIN jobs' = DOMAIN jobs
      /\ jobs'[j].state = "active" /\ jobs'[j].stalls = jobs[j].stalls
      /\ \A k \in DOMAIN jobs : k # j => jobs'[k] = jobs[k]
  <2>1. /\ DOMAIN jobs' = DOMAIN jobs
        /\ jobs'[j] = [jobs[j] EXCEPT !.state = "active"]
        /\ \A k \in DOMAIN jobs : k # j => jobs'[k] = jobs[k]
    BY DEF Take, SetState
  <2> QED BY <1>1, <2>1, JobWithState
<1>6. CASE Task(j) # "thumbnail"
  <2>1. Quiet(jobs, jobs', runs, runs')
    BY <1>4, <1>5, <1>6 DEF Quiet, Thumbnails
  <2> QED BY <1>1, <2>1, QuietStep
<1>7. CASE Task(j) = "thumbnail"
  <2> SUFFICES ASSUME AllWell(jobs')
               PROVE  /\ OneAtATime(jobs')
                      /\ RunsAreActive(jobs', runs')
                      /\ LastDrawn(jobs', runs', version', thumbnail')
    BY DEF ThumbnailsOK
  <2>1. j \in Thumbnails(jobs) /\ Thumbnails(jobs') = Thumbnails(jobs)
    BY <1>5, <1>7 DEF Thumbnails
  <2>2. AllWell(jobs)
    BY <1>1, <1>5, <2>1 DEF AllWell, Bad, Thumbnails
  <2>3. OneAtATime(jobs) /\ RunsAreActive(jobs, runs)
    BY <2>2 DEF ThumbnailInv, ThumbnailsOK
  <2>4. \A k \in Thumbnails(jobs) : k # j => ~ InQueue(jobs, k)
    BY <1>1, <2>1, <2>3 DEF OneAtATime, InQueue
  <2>5. \A k \in Thumbnails(jobs) : \A m : <<k, m>> \notin DOMAIN runs
    BY <1>1, <2>1, <2>3, <2>4 DEF RunsAreActive, InQueue
  <2>6. OneAtATime(jobs')
    BY <1>5, <2>1, <2>4 DEF OneAtATime, InQueue, Thumbnails
  <2>7. \A k \in Thumbnails(jobs) : \A m : <<k, m>> \in DOMAIN runs' => k = j /\ m = n
    BY <1>4, <2>5
  <2>8. RunsAreActive(jobs', runs')
    BY <1>5, <2>1, <2>7 DEF RunsAreActive
  <2>9. run.at = "findLive"
    BY <1>3, <1>7, ThumbnailSteps
  <2>10. LastDrawn(jobs', runs', version', thumbnail')
    <3>1. \A k \in Thumbnails(jobs') : \A m :
             <<k, m>> \in DOMAIN runs' => DrawsLast(runs'[<<k, m>>], version', thumbnail')
      BY <1>4, <2>1, <2>7, <2>9 DEF DrawsLast
    <3>2. ~ (\A k \in Thumbnails(jobs') : jobs'[k].state # "active")
      BY <1>5, <2>1
    <3> QED BY <3>1, <3>2 DEF LastDrawn
  <2> QED BY <2>6, <2>8, <2>10
<1> QED BY <1>6, <1>7

\* After an edit a push is under way.
LEMMA EditThumbnails ==
    ASSUME ThumbnailInv, Edit
    PROVE  ThumbnailsOK(jobs', runs', version', thumbnail')
<1>1. PICK v : v = version + 1
  OBVIOUS
<1>2. PICK e : e = ThumbnailJob(v)
  OBVIOUS
<1>3. jobs' = Push(jobs, e, Api) /\ runs' = runs
  BY <1>1, <1>2 DEF Edit
<1>4. e \notin DOMAIN jobs
  <2>1. version \in Nat /\ EditsOK(jobs, version)
    BY DEF ThumbnailInv, WorkersInv, Shape, VersionsOK
  <2> QED BY <1>1, <1>2, <2>1 DEF EditsOK
<1>5. /\ DOMAIN jobs' = DOMAIN jobs \cup {e}
      /\ jobs'[e] = Pushed(Api)
      /\ \A k \in DOMAIN jobs : jobs'[k] = jobs[k]
  BY <1>3, <1>4 DEF Push, With
<1>6. jobs'[e].state = "pushing" /\ Task(e) = "thumbnail"
  BY <1>2, <1>5, PushedJob DEF ThumbnailJob, Task
<1>7. Thumbnails(jobs') = Thumbnails(jobs) \cup {e}
  BY <1>5, <1>6 DEF Thumbnails
<1> SUFFICES ASSUME AllWell(jobs')
             PROVE  /\ OneAtATime(jobs')
                    /\ RunsAreActive(jobs', runs')
                    /\ LastDrawn(jobs', runs', version', thumbnail')
  BY DEF ThumbnailsOK
<1>8. AllWell(jobs)
  BY <1>5, <1>7 DEF AllWell, Thumbnails
<1>9. OneAtATime(jobs) /\ RunsAreActive(jobs, runs)
  BY <1>8 DEF ThumbnailInv, ThumbnailsOK
<1>10. OneAtATime(jobs')
  BY <1>5, <1>6, <1>7, <1>9 DEF OneAtATime, InQueue, Thumbnails
<1>11. RunsAreActive(jobs', runs')
  <2>1. \A n : <<e, n>> \notin DOMAIN runs
    BY <1>4 DEF ThumbnailInv, WorkersInv, Shape, RunsOK
  <2> QED BY <1>3, <1>5, <1>7, <1>9, <2>1 DEF RunsAreActive, Thumbnails
<1>12. ~ NoneQueued(jobs')
  BY <1>6, <1>7 DEF NoneQueued, Queued
<1> QED BY <1>10, <1>11, <1>12 DEF LastDrawn

-----------------------------------------------------------------------------
(***************************************************************************)
(* The runs of thumbnail jobs.                                             *)
(***************************************************************************)
\* What the steps of other runs change is not about thumbnails.
LEMMA OtherRunQuiet ==
    ASSUME ThumbnailInv, NEW r \in DOMAIN runs, Task(r[1]) # "thumbnail",
           RunStep(r) \/ Fail(r)
    PROVE  ThumbnailsOK(jobs', runs', version', thumbnail')
<1>1. RunsOK(jobs, runs, version) /\ JobsOK(jobs)
  BY DEF ThumbnailInv, WorkersInv, Shape
<1>2. PICK j \in DOMAIN jobs, n \in 1..(MaxStalls + 1) :
         r = <<j, n>> /\ runs[r] \in Run(j, version) /\ Task(j) \in DOMAIN Tasks
  BY <1>1 DEF RunsOK, JobsOK
<1>3. version' = version /\ thumbnail' = thumbnail
  <2>1. ~ SaveThumbnail(r)
    BY <1>2, ThumbnailSteps DEF SaveThumbnail, Run
  <2> QED BY <2>1 DEF RunStep, Find, Contents, Render, Save, Send, Retry, Post, Announce,
                     Fail, documentVars
\* The jobs by the time the run goes on: those of thumbnails as before.
<1> DEFINE Same(all) == /\ Thumbnails(all) = Thumbnails(jobs)
                        /\ DOMAIN jobs \subseteq DOMAIN all
                        /\ \A k \in Thumbnails(jobs) : all[k] = jobs[k]
<1>4. ASSUME NEW all, Same(all), NEW s,
             jobs' = Settled(all, r, s) \/ jobs' = all,
             DOMAIN runs' \subseteq DOMAIN runs,
             \A q \in DOMAIN runs' : q # r => runs'[q] = runs[q]
      PROVE  ThumbnailsOK(jobs', runs', version', thumbnail')
  <2>1. /\ DOMAIN Settled(all, r, s) = DOMAIN all
        /\ \A k \in DOMAIN all : k # r[1] => Settled(all, r, s)[k] = all[k]
    BY DEF Settled, EndJob, OtherThumbnails
  <2>2. Thumbnails(jobs') = Thumbnails(jobs) /\ \A k \in Thumbnails(jobs) : jobs'[k] = jobs[k]
    BY <1>4, <2>1 DEF Thumbnails
  <2>3. \A k \in Thumbnails(jobs) : \A m : <<k, m>> # r
    BY DEF Thumbnails
  <2>4. Quiet(jobs, jobs', runs, runs')
    BY <1>4, <2>2, <2>3 DEF Quiet
  <2> QED BY <1>3, <2>4, QuietStep
<1>5. Same(jobs)
  OBVIOUS
<1>6. ASSUME NEW s, End(r, s)
      PROVE  ThumbnailsOK(jobs', runs', version', thumbnail')
  <2>1. DOMAIN runs' \subseteq DOMAIN runs /\ \A q \in DOMAIN runs' : q # r => runs'[q] = runs[q]
    BY <1>6 DEF End, WithoutRun
  <2> QED BY <1>4, <1>5, <1>6, <2>1 DEF End
<1>7. ASSUME NEW all, Same(all), NEW copy, Advance(r, copy, all)
      PROVE  ThumbnailsOK(jobs', runs', version', thumbnail')
  <2>1. jobs' = Settled(all, r, "completed") \/ jobs' = all
    BY <1>7 DEF Advance
  <2>2. DOMAIN runs' \subseteq DOMAIN runs /\ \A q \in DOMAIN runs' : q # r => runs'[q] = runs[q]
    BY <1>7 DEF Advance, WithoutRun
  <2> QED BY <1>4, <1>7, <2>1, <2>2
<1>8. CASE Send(r) \/ Post(r) \/ Retry(r)
  <2>1. ASSUME NEW arrived PROVE Same([jobs EXCEPT ![r[1]].sent = @ + arrived])
    BY DEF Thumbnails
  <2>2. CASE Send(r)
    BY <1>7, <2>1, <2>2 DEF Send
  <2>3. CASE Post(r)
    <3>1. PICK arrived : Advance(r, 0, [jobs EXCEPT ![r[1]].sent = @ + arrived])
      BY <2>3 DEF Post
    <3>2. PICK all : all = [jobs EXCEPT ![r[1]].sent = @ + arrived]
      OBVIOUS
    <3>3. Same(all) /\ Advance(r, 0, all)
      BY <2>1, <3>1, <3>2
    <3> QED BY <1>7, <3>3
  <2>4. CASE Retry(r)
    <3>1. PICK arrived : jobs' = [jobs EXCEPT ![r[1]].sent = @ + arrived]
      BY <2>4 DEF Retry
    <3>2. DOMAIN runs' = DOMAIN runs /\ \A q \in DOMAIN runs' : q # r => runs'[q] = runs[q]
      BY <2>4 DEF Retry
    <3>3. Same(jobs')
      BY <2>1, <3>1
    <3> QED BY <1>4, <3>2, <3>3
  <2> QED BY <1>8, <2>2, <2>3, <2>4
<1>9. CASE Announce(r)
  <2>1. ASSUME NEW by PROVE Same(Push(jobs, EventOf(r), by))
    <3>1. PICK e : e = EventOf(r)
      OBVIOUS
    <3>2. Task(e) # "thumbnail"
      BY <3>1 DEF EventOf, Task
    <3> QED BY <3>1, <3>2 DEF Push, With, Thumbnails
  <2> QED BY <1>7, <1>9, <2>1 DEF Announce
<1>10. CASE Find(r) \/ Contents(r) \/ Render(r) \/ SaveThumbnail(r) \/ Save(r)
  BY <1>5, <1>6, <1>7, <1>10 DEF Find, Contents, Render, SaveThumbnail, Save
<1>11. CASE Fail(r)
  BY <1>6, <1>11 DEF Fail
<1> QED BY <1>8, <1>9, <1>10, <1>11 DEF RunStep

LEMMA ThumbnailRunKeeps ==
    ASSUME ThumbnailInv, NEW r \in DOMAIN runs, Task(r[1]) = "thumbnail",
           RunStep(r) \/ Fail(r)
    PROVE  ThumbnailsOK(jobs', runs', version', thumbnail')
<1>1. RunsOK(jobs, runs, version) /\ JobsOK(jobs)
  BY DEF ThumbnailInv, WorkersInv, Shape
<1>2. PICK j \in DOMAIN jobs, n \in 1..(MaxStalls + 1) :
         r = <<j, n>> /\ runs[r] \in Run(j, version) /\ n <= jobs[j].stalls + 1
  BY <1>1 DEF RunsOK
<1>3. /\ j \in Thumbnails(jobs) /\ r[1] = j /\ r[2] = n /\ Task(j) = "thumbnail"
      /\ runs[r].at \in StepsOf("thumbnail") /\ jobs[j] \in Job
  BY <1>1, <1>2 DEF Thumbnails, Run, JobsOK
<1>4. version' = version
  BY DEF RunStep, Find, Contents, Render, SaveThumbnail, Save, Send, Retry, Post, Announce,
         Fail, documentVars
<1>5. ASSUME End(r, "failed"), thumbnail' = thumbnail
      PROVE  ThumbnailsOK(jobs', runs', version', thumbnail')
  <2>1. jobs' = jobs \/ jobs' = EndJob(jobs, j, "failed")
    BY <1>3, <1>5 DEF End, Settled
  <2>2. Quiet(jobs, jobs', runs, runs)
    BY <1>1, <2>1, EndJobQuiet, NothingQuiet DEF Bad
  <2>3. DOMAIN runs' \subseteq DOMAIN runs /\ \A q \in DOMAIN runs' : runs'[q] = runs[q]
    BY <1>5 DEF End, WithoutRun
  <2>4. Quiet(jobs, jobs', runs, runs')
    BY <2>2, <2>3 DEF Quiet
  <2> QED BY <1>4, <1>5, <2>4, QuietStep
<1>6. ASSUME AllWell(jobs)
      PROVE  /\ jobs[j].state = "active" /\ n = 1 /\ jobs[j].stalls = 0
             /\ \A k \in Thumbnails(jobs) : k # j => ~ InQueue(jobs, k)
             /\ \A k \in Thumbnails(jobs) : \A m : <<k, m>> \in DOMAIN runs => <<k, m>> = r
             /\ OneAtATime(jobs) /\ RunsAreActive(jobs, runs)
             /\ NoneQueued(jobs) => DrawsLast(runs[r], version, thumbnail)
  <2>1. OneAtATime(jobs) /\ RunsAreActive(jobs, runs) /\ LastDrawn(jobs, runs, version, thumbnail)
    BY <1>6 DEF ThumbnailInv, ThumbnailsOK
  <2>2. jobs[j].state = "active" /\ jobs[j].stalls = 0
    BY <1>2, <1>3, <1>6, <2>1 DEF RunsAreActive, AllWell
  <2>3. n = 1
    BY <1>2, <2>2 DEF MaxStalls
  <2>4. \A k \in Thumbnails(jobs) : k # j => ~ InQueue(jobs, k)
    BY <1>3, <2>1, <2>2 DEF OneAtATime, InQueue
  <2>5. ASSUME NEW k \in Thumbnails(jobs), NEW m, <<k, m>> \in DOMAIN runs
        PROVE  <<k, m>> = r
    <3>1. k = j
      BY <2>1, <2>4, <2>5 DEF RunsAreActive, InQueue
    <3>2. m \in 1..(MaxStalls + 1) /\ m <= jobs[j].stalls + 1
      BY <1>1, <2>5, <3>1 DEF RunsOK
    <3>3. m = 1
      BY <2>2, <3>2 DEF MaxStalls
    <3> QED BY <1>2, <2>3, <3>1, <3>3
  <2>6. NoneQueued(jobs) => DrawsLast(runs[r], version, thumbnail)
    BY <1>2, <1>3, <2>1 DEF LastDrawn
  <2> QED BY <2>1, <2>2, <2>3, <2>4, <2>5, <2>6
\* A step that is not the last.
<1>7. ASSUME jobs' = jobs, DOMAIN runs' = DOMAIN runs,
             AllWell(jobs) /\ NoneQueued(jobs) => DrawsLast(runs'[r], version, thumbnail')
      PROVE  ThumbnailsOK(jobs', runs', version', thumbnail')
  <2> SUFFICES ASSUME AllWell(jobs)
               PROVE  /\ OneAtATime(jobs)
                      /\ RunsAreActive(jobs, runs')
                      /\ LastDrawn(jobs, runs', version, thumbnail')
    BY <1>4, <1>7 DEF ThumbnailsOK
  <2>1. OneAtATime(jobs) /\ RunsAreActive(jobs, runs')
    BY <1>6, <1>7 DEF RunsAreActive
  <2>2. LastDrawn(jobs, runs', version, thumbnail')
    <3>1. jobs[j].state = "active"
      BY <1>6
    <3>2. \A k \in Thumbnails(jobs) : \A m : <<k, m>> \in DOMAIN runs' => <<k, m>> = r
      BY <1>6, <1>7
    <3> QED BY <1>3, <1>7, <3>1, <3>2 DEF LastDrawn
  <2> QED BY <2>1, <2>2
<1>8. ASSUME NEW i \in 1..5, runs[r].at = Tasks["thumbnail"][i], NEW copy, NEW all,
             Advance(r, copy, all)
      PROVE  /\ i = 5 => jobs' = Settled(all, r, "completed") /\ runs' = WithoutRun(r)
             /\ i # 5 => /\ jobs' = all /\ DOMAIN runs' = DOMAIN runs
                         /\ runs'[r].at = Tasks["thumbnail"][i + 1]
                         /\ runs'[r].copy = copy
  <2>1. /\ i \in DOMAIN Tasks[Task(r[1])] /\ runs[r].at = Tasks[Task(r[1])][i]
        /\ Len(Tasks[Task(r[1])]) = 5
    BY <1>8, ThumbnailSteps
  <2>2. /\ i = Len(Tasks[Task(r[1])]) =>
              jobs' = Settled(all, r, "completed") /\ runs' = WithoutRun(r)
        /\ i # Len(Tasks[Task(r[1])]) =>
              /\ jobs' = all
              /\ DOMAIN runs' = DOMAIN runs
              /\ runs'[r].at = Tasks[Task(r[1])][i + 1]
              /\ runs'[r].copy = copy
    <3>1. PICK k \in DOMAIN Tasks[Task(r[1])] : k = i
      BY <2>1
    <3>2. runs[r].at = Tasks[Task(r[1])][k]
      BY <2>1, <3>1
    <3>3. Advance(r, copy, all)
      BY <1>8
    <3>4. /\ k = Len(Tasks[Task(r[1])]) =>
                jobs' = Settled(all, r, "completed") /\ runs' = WithoutRun(r)
          /\ k # Len(Tasks[Task(r[1])]) =>
                /\ jobs' = all
                /\ DOMAIN runs' = DOMAIN runs
                /\ \A q \in DOMAIN runs : q # r => runs'[q] = runs[q]
                /\ runs'[r].at = Tasks[Task(r[1])][k + 1]
                /\ runs'[r].copy = copy
      BY <1>1, <3>2, <3>3, AdvanceTo
    <3> QED BY <3>1, <3>4
  <2> QED BY <2>1, <2>2
<1>9. CASE Find(r)
  <2>1. runs[r].at = "findLive" /\ thumbnail' = thumbnail
    BY <1>3, <1>9, ThumbnailSteps DEF Find, documentVars
  <2>2. CASE Advance(r, 0, jobs)
    <3>1. 1 \in 1..5 /\ runs[r].at = Tasks["thumbnail"][1] /\ Tasks["thumbnail"][1 + 1] = "contents"
      BY <2>1, ThumbnailSteps
    <3>2. jobs' = jobs /\ DOMAIN runs' = DOMAIN runs /\ runs'[r].at = "contents"
      BY <1>8, <2>2, <3>1
    <3> QED BY <1>7, <3>2 DEF DrawsLast
  <2>3. CASE End(r, "failed")
    BY <1>5, <2>1, <2>3
  <2> QED BY <1>9, <2>1, <2>2, <2>3 DEF Find
<1>10. CASE Contents(r)
  <2>1. 2 \in 1..5 /\ runs[r].at = Tasks["thumbnail"][2] /\ Tasks["thumbnail"][2 + 1] = "render"
    BY <1>10, ThumbnailSteps DEF Contents
  <2>2. /\ jobs' = jobs /\ DOMAIN runs' = DOMAIN runs
        /\ runs'[r].at = "render" /\ runs'[r].copy = version
    BY <1>8, <1>10, <2>1 DEF Contents
  <2> QED BY <1>7, <2>2 DEF DrawsLast
<1>11. CASE Render(r)
  <2>1. PICK i \in 1..5 :
           /\ i # 5 /\ runs[r].at = Tasks["thumbnail"][i] /\ runs[r].at = "render"
           /\ Tasks["thumbnail"][i + 1] = "saveThumbnail"
    <3>1. /\ 3 \in 1..5 /\ 3 # 5 /\ runs[r].at = Tasks["thumbnail"][3] /\ runs[r].at = "render"
          /\ Tasks["thumbnail"][3 + 1] = "saveThumbnail"
      BY <1>11, ThumbnailSteps DEF Render
    <3> QED BY <3>1
  <2>2. PICK key \in {runs[r].copy, 0} : Advance(r, key, jobs)
    BY <1>11 DEF Render
  <2>3. /\ jobs' = jobs /\ DOMAIN runs' = DOMAIN runs
        /\ runs'[r].at = "saveThumbnail" /\ runs'[r].copy = key
    BY <1>8, <2>1, <2>2
  <2>4. AllWell(jobs) /\ NoneQueued(jobs) => key \in {0, version}
    BY <1>6, <2>1, <2>2 DEF DrawsLast
  <2> QED BY <1>7, <2>3, <2>4 DEF DrawsLast
<1>12. CASE SaveThumbnail(r)
  <2>1. PICK i \in 1..5 :
           /\ i # 5 /\ runs[r].at = Tasks["thumbnail"][i] /\ runs[r].at = "saveThumbnail"
           /\ Tasks["thumbnail"][i + 1] = "announce"
    <3>1. /\ 4 \in 1..5 /\ 4 # 5 /\ runs[r].at = Tasks["thumbnail"][4]
          /\ runs[r].at = "saveThumbnail" /\ Tasks["thumbnail"][4 + 1] = "announce"
      BY <1>12, ThumbnailSteps DEF SaveThumbnail
    <3> QED BY <3>1
  <2>2. /\ jobs' = jobs /\ DOMAIN runs' = DOMAIN runs
        /\ runs'[r].at = "announce" /\ thumbnail' = runs[r].copy
    BY <1>8, <1>12, <2>1 DEF SaveThumbnail
  <2>3. AllWell(jobs) /\ NoneQueued(jobs) => runs[r].copy \in {0, version}
    BY <1>6, <2>1 DEF DrawsLast
  <2> QED BY <1>7, <2>2, <2>3 DEF DrawsLast
<1>13. CASE Announce(r)
  <2>1. PICK i \in 1..5 : i = 5 /\ runs[r].at = Tasks["thumbnail"][i]
    <3>1. 5 \in 1..5 /\ runs[r].at = Tasks["thumbnail"][5]
      BY <1>13, ThumbnailSteps DEF Announce
    <3> QED BY <3>1
  <2>announce. runs[r].at = "announce"
    BY <1>13 DEF Announce
  <2>2. PICK e, all, by : /\ e = EventOf(r) /\ by = Main(runs[r].worker)
                          /\ all = Push(jobs, e, by) /\ Advance(r, 0, all)
    BY <1>13 DEF Announce
  <2>3. jobs' = Settled(all, r, "completed") /\ runs' = WithoutRun(r) /\ thumbnail' = thumbnail
    <3>1. jobs' = Settled(all, r, "completed") /\ runs' = WithoutRun(r)
      BY <1>8, <2>1, <2>2
    <3>2. thumbnail' = thumbnail
      BY <1>13 DEF Announce, documentVars
    <3> QED BY <3>1, <3>2
  <2>4. Task(e) = "event"
    BY <2>2 DEF EventOf, Task
  <2>5. Thumbnails(all) = Thumbnails(jobs) /\ \A k \in Thumbnails(jobs) : all[k] = jobs[k]
    BY <2>2, <2>4 DEF Push, With, Thumbnails
  <2>6. j \in DOMAIN all /\ "completed" \in JobState /\ State(j) = jobs[j].state
    BY <1>3, <2>5 DEF Thumbnails, JobState, Over, State
  <2>7. JobsOK(all)
    <3>1. e \notin DOMAIN jobs
      BY <1>2, <2>2 DEF ThumbnailInv, WorkersInv, Shape, EventsOK
    <3>2. DOMAIN all = DOMAIN jobs \cup {e} /\ all[e] = Pushed(by)
          /\ \A k \in DOMAIN jobs : all[k] = jobs[k]
      BY <2>2, <3>1 DEF Push, With
    <3>3. by \in {Api} \cup (Worker \X {"main", "child"}) /\ "event" \in DOMAIN Tasks
      BY <1>2, <2>2 DEF Main, Run, Tasks
    <3> QED BY <1>1, <2>4, <3>2, <3>3, PushedJob DEF JobsOK
  <2>8. /\ Thumbnails(jobs') = Thumbnails(jobs)
        /\ \A k \in Thumbnails(jobs) : jobs'[k].stalls = jobs[k].stalls
        /\ \A k \in Thumbnails(jobs) : k # j =>
              \/ jobs'[k] = jobs[k]
              \/ jobs[k].state = "stuck" /\ jobs'[k].state \in {"pushing", "lost"}
        /\ IF jobs[j].state = "active" /\ n = jobs[j].stalls + 1
           THEN jobs'[j].state = "completed" ELSE jobs'[j] = jobs[j]
    <3>1. jobs' = IF jobs[j].state = "active" /\ n = jobs[j].stalls + 1
                  THEN EndJob(all, j, "completed") ELSE all
      BY <1>3, <2>3, <2>6 DEF Settled
    <3>2. CASE jobs[j].state = "active" /\ n = jobs[j].stalls + 1
      BY <1>3, <2>5, <2>6, <2>7, <3>1, <3>2, EndJobStates DEF Thumbnails
    <3>3. CASE ~ (jobs[j].state = "active" /\ n = jobs[j].stalls + 1)
      BY <1>3, <2>5, <3>1, <3>3
    <3> QED BY <3>2, <3>3
  <2> SUFFICES ASSUME AllWell(jobs')
               PROVE  /\ OneAtATime(jobs')
                      /\ RunsAreActive(jobs', runs')
                      /\ LastDrawn(jobs', runs', version', thumbnail')
    BY DEF ThumbnailsOK
  <2>10. AllWell(jobs)
    <3>1. \A k \in Thumbnails(jobs) : jobs'[k].stalls = 0 /\ jobs'[k].state \notin Bad
      BY <2>8 DEF AllWell
    <3>2. \A k \in Thumbnails(jobs) : jobs[k].state \notin Bad
      BY <2>8, <3>1 DEF Bad
    <3> QED BY <2>8, <3>1, <3>2 DEF AllWell
  <2>11. jobs'[j].state = "completed"
    BY <1>6, <2>8, <2>10
  <2>12. \A k \in Thumbnails(jobs) : k # j =>
            /\ ~ InQueue(jobs', k)
            /\ jobs'[k].state \notin Queued => jobs[k].state \notin Queued
    BY <1>6, <2>8, <2>10 DEF InQueue, Queued, AllWell, Bad
  <2>13. OneAtATime(jobs')
    BY <2>8, <2>11, <2>12 DEF OneAtATime, InQueue
  <2>14. \A k \in Thumbnails(jobs) : \A m : <<k, m>> \notin DOMAIN runs'
    BY <1>6, <2>3, <2>10 DEF WithoutRun
  <2>15. RunsAreActive(jobs', runs')
    BY <2>8, <2>14 DEF RunsAreActive
  <2>16. LastDrawn(jobs', runs', version', thumbnail')
    <3>1. NoneQueued(jobs') => NoneQueued(jobs)
      BY <1>6, <2>8, <2>10, <2>12 DEF NoneQueued, Queued
    <3>2. NoneQueued(jobs') => thumbnail' \in {0, version'}
      BY <1>4, <1>6, <2>announce, <2>3, <2>10, <3>1 DEF DrawsLast
    <3> QED BY <2>8, <2>14, <3>2 DEF LastDrawn
  <2> QED BY <2>13, <2>15, <2>16
<1>14. CASE Fail(r)
  BY <1>5, <1>14 DEF Fail, documentVars
<1>15. ~ Save(r) /\ ~ Send(r) /\ ~ Retry(r) /\ ~ Post(r)
  BY <1>3, ThumbnailSteps DEF Save, Send, Retry, Post
<1> QED BY <1>9, <1>10, <1>11, <1>12, <1>13, <1>14, <1>15 DEF RunStep

LEMMA ThumbnailInvInit == Init => ThumbnailInv
<1> SUFFICES ASSUME Init PROVE ThumbnailsOK(jobs, runs, version, thumbnail)
  BY WorkersInit DEF ThumbnailInv
<1>1. PICK s \in Scenarios :
         /\ jobs = [j \in s.jobs \cup s.left |->
                       IF j \in s.left THEN [Pushed(Api) EXCEPT !.state = "active"]
                       ELSE Pushed(Api)]
         /\ version = s.version /\ thumbnail = s.version
  BY DEF Init
<1>2. \A j \in DOMAIN jobs : j \notin s.left => jobs[j].state = "pushing"
  <2>1. Pushed(Api).state = "pushing"
    BY PushedJob
  <2> QED BY <1>1, <2>1
<1>3. DOMAIN runs = {} /\ thumbnail = version
  BY <1>1 DEF Init
<1>4. OneAtATime(jobs)
  <2>1. s.left \subseteq {LeftJob}
    BY ScenarioAssumption
  <2>2. \A j \in Thumbnails(jobs) : InQueue(jobs, j) => j = LeftJob
    BY <1>2, <2>1 DEF InQueue, Thumbnails
  <2> QED BY <2>2 DEF OneAtATime
<1>5. RunsAreActive(jobs, runs) /\ LastDrawn(jobs, runs, version, thumbnail)
  BY <1>3 DEF RunsAreActive, LastDrawn
<1> QED BY <1>4, <1>5 DEF ThumbnailsOK

LEMMA ThumbnailInvStep ==
    ASSUME ThumbnailInv, [Next]_vars
    PROVE  ThumbnailInv'
<1>1. WorkersInv'
  BY WorkersStep DEF ThumbnailInv
<1>2. ThumbnailsOK(jobs', runs', version', thumbnail')
  <2>1. ASSUME NEW w \in Worker, ProcessStep(w)
        PROVE  ThumbnailsOK(jobs', runs', version', thumbnail')
    BY <2>1, ProcessStepThumbnails, TakeThumbnails DEF ProcessStep
  <2>2. ASSUME NEW r \in DOMAIN runs, RunStep(r) \/ Fail(r)
        PROVE  ThumbnailsOK(jobs', runs', version', thumbnail')
    BY <2>2, OtherRunQuiet, ThumbnailRunKeeps
  <2>3. CASE UNCHANGED vars
    BY <2>3 DEF ThumbnailInv, vars
  <2> QED BY <2>1, <2>2, <2>3, JobStepThumbnails, EditThumbnails DEF Next
<1> QED BY <1>1, <1>2 DEF ThumbnailInv

THEOREM ThumbnailInvariant == Spec => []ThumbnailInv
<1>1. ThumbnailInv /\ [Next]_vars => ThumbnailInv'
  BY ThumbnailInvStep
<1> QED BY <1>1, ThumbnailInvInit, PTL DEF Spec

\* Whatever pushes are dropped and whatever jobs are replaced or waited for: when all
\* thumbnail jobs have ended well, the thumbnail shows the last edit, or there is none.
THEOREM ThumbnailShowsLastEdit == Spec => []ThumbnailFollows
<1>1. ThumbnailInv => ThumbnailFollows
  <2> SUFFICES ASSUME ThumbnailInv,
                      \A j \in Thumbnails(jobs) :
                         /\ jobs[j].state \in {"completed", "dropped", "replaced"}
                         /\ jobs[j].stalls = 0
               PROVE  thumbnail \in {0, version}
    BY DEF ThumbnailFollows, Thumbnails
  <2>1. AllWell(jobs) /\ NoneQueued(jobs) /\ \A j \in Thumbnails(jobs) : jobs[j].state # "active"
    BY DEF AllWell, NoneQueued, Bad, Queued
  <2> QED BY <2>1 DEF ThumbnailInv, ThumbnailsOK, LastDrawn
<1> QED BY <1>1, ThumbnailInvariant, PTL
=============================================================================
