----------------------------- MODULE UniqueJob -----------------------------
(***************************************************************************)
(* addUniqueJob: debounced queue jobs.  At most one delayed job per job id *)
(* (the session of a user on a document, the update email of a document)   *)
(* is kept in Redis.  A call for the same id removes the job, merges its   *)
(* data into its own and adds a new job, under a lock which is also kept   *)
(* in Redis and expires.  A call that does not get the lock drops its      *)
(* data.  This is one job id; every call brings one edit.                  *)
(*                                                                         *)
(* A job's data is the sequence of the edits merged into it: the start of  *)
(* the session (the revision an email begins with) is that of the first,   *)
(* the number of edits is the length.                                      *)
(***************************************************************************)
EXTENDS Naturals, Sequences, SequencesExt

CONSTANTS
    Call,       \* calls of addUniqueJob
    Process,    \* server processes; each has a lock token of its own
    ProcessOf,  \* ProcessOf[c]: the process that runs call c
    None,       \* no call
    Fault       \* "fail": jobs may fail or time out; "crash": processes die

ASSUME CallAssumption ==
    /\ ProcessOf \in [Call -> Process]
    /\ None \notin Call
    /\ Fault \subseteq {"fail", "crash"}

VARIABLES
    lock,      \* the call that took the lock, or None
    pc,        \* pc[c]: the await at which call c stands
    data,      \* data[c]: the edits c carries; none once they are in the queue
    read,      \* read[c]: the data of the job that c found
    job,       \* the job in the queue
    reported,  \* the data of the jobs that completed
    failed,    \* the data of the jobs that failed
    accepted,  \* ghost: the calls that got the lock, in order
    overdue    \* ghost: the calls that went on after their lock had expired

vars == <<lock, pc, data, read, job, reported, failed, accepted, overdue>>

NoJob == [state |-> "none", data |-> << >>]

\* Where the callback under the lock is running.
Inside == {"locked", "found", "adding", "releasing", "rejecting"}
Running == Inside \cup {"listening", "waiting"}

Goto(c, phase) == pc' = [pc EXCEPT ![c] = phase]

\* Mutant: every call gets the lock.
TakeLockAnyway(c) ==
    /\ pc[c] = "idle"
    /\ lock' = c
    /\ Goto(c, "locked")
    /\ accepted' = Append(accepted, c)
    /\ UNCHANGED <<data, read, job, reported, failed, overdue>>

TakeLock(c) ==
    /\ pc[c] = "idle"
    /\ \/ /\ lock = None
          /\ lock' = c
          /\ Goto(c, "locked")
          /\ accepted' = Append(accepted, c)
       \/ /\ lock # None
          /\ Goto(c, "dropped")
          /\ UNCHANGED <<lock, accepted>>
    /\ UNCHANGED <<data, read, job, reported, failed, overdue>>

GetJob(c) ==
    /\ pc[c] = "locked"
    /\ \/ /\ job = NoJob
          /\ Goto(c, "adding")
          /\ UNCHANGED read
       \/ /\ job # NoJob
          /\ Goto(c, "found")
          /\ read' = [read EXCEPT ![c] = job.data]
    /\ UNCHANGED <<lock, data, job, reported, failed, accepted, overdue>>

\* Mutants: what is new comes before what is old, or replaces it.
MergeReversed(old, new) == new \o old
MergeNewOnly(old, new) == new

\* updateJobData: counts are added up, the session start is the old one.
Merge(old, new) == old \o new

\* Only an active job is locked.  Removing a job that is gone by now succeeds,
\* too, and then the data read before is merged.
RemoveJob(c) ==
    /\ pc[c] = "found"
    /\ \/ /\ job.state = "active"
          /\ Goto(c, "listening")
          /\ UNCHANGED <<data, job>>
       \/ /\ job.state # "active"
          /\ Goto(c, "adding")
          /\ data' = [data EXCEPT ![c] = Merge(read[c], @)]
          /\ job' = NoJob
    /\ read' = [read EXCEPT ![c] = << >>]
    /\ UNCHANGED <<lock, reported, failed, accepted, overdue>>

\* job.finished() asks whether the job has ended, and it is told "no" as well of
\* a job that was removed on completion; then it listens for the next end of a
\* job with this id.
Listen(c) ==
    /\ pc[c] = "listening"
    /\ Goto(c, "waiting")
    /\ UNCHANGED <<lock, data, read, job, reported, failed, accepted, overdue>>

\* Adding a job under an id that is taken changes nothing.
Add(c) ==
    /\ pc[c] = "adding"
    /\ Goto(c, "releasing")
    /\ \/ /\ job = NoJob
          /\ job' = [state |-> "delayed", data |-> data[c]]
          /\ data' = [data EXCEPT ![c] = << >>]
       \/ /\ job # NoJob
          /\ UNCHANGED <<job, data>>
    /\ UNCHANGED <<lock, read, reported, failed, accepted, overdue>>

\* The token is that of the process, until the process is started again.
HasToken(c) == lock # None /\ ProcessOf[lock] = ProcessOf[c] /\ pc[lock] # "crashed"

\* finally: also after a rejection, which nobody handles.
Release(c) ==
    /\ pc[c] \in {"releasing", "rejecting"}
    /\ Goto(c, IF pc[c] = "releasing" THEN "done" ELSE "rejected")
    /\ lock' = IF HasToken(c) THEN None ELSE lock
    /\ UNCHANGED <<data, read, job, reported, failed, accepted, overdue>>

-----------------------------------------------------------------------------
\* The delay is over and a worker takes the job.
StartJob ==
    /\ job.state = "delayed"
    /\ job' = [job EXCEPT !.state = "active"]
    /\ UNCHANGED <<lock, pc, data, read, reported, failed, accepted, overdue>>

\* The calls that wait are told, whichever job of this id they listen for.
Wake(phase) ==
    /\ pc' = [c \in Call |-> IF pc[c] = "waiting" THEN phase ELSE pc[c]]
    /\ overdue' = overdue \cup {c \in Call : pc[c] = "waiting" /\ lock # c}

CompleteJob ==
    /\ job.state = "active"
    /\ job' = NoJob
    /\ reported' = reported \cup {job.data}
    /\ Wake("adding")
    /\ UNCHANGED <<lock, data, read, failed, accepted>>

FailJob ==
    /\ "fail" \in Fault
    /\ job.state = "active"
    /\ job' = NoJob
    /\ failed' = failed \cup {job.data}
    /\ Wake("rejecting")
    /\ UNCHANGED <<lock, data, read, reported, accepted>>

-----------------------------------------------------------------------------
\* lockDuration is 30 seconds: only a call that waits for a job takes so long,
\* and one whose process has died.
Expire ==
    /\ lock # None
    /\ pc[lock] \in {"listening", "waiting", "crashed"}
    /\ lock' = None
    /\ UNCHANGED <<pc, data, read, job, reported, failed, accepted, overdue>>

\* A process dies by itself, or exits because of an unhandled rejection.
Exit(p) ==
    /\ "crash" \in Fault \/ \E c \in Call : ProcessOf[c] = p /\ pc[c] = "rejected"
    /\ \E c \in Call : ProcessOf[c] = p /\ pc[c] \in Running
    /\ pc' = [c \in Call |->
                 IF ProcessOf[c] = p /\ pc[c] \in Running THEN "crashed" ELSE pc[c]]
    /\ UNCHANGED <<lock, data, read, job, reported, failed, accepted, overdue>>

-----------------------------------------------------------------------------
Init ==
    /\ lock = None
    /\ pc = [c \in Call |-> "idle"]
    /\ data = [c \in Call |-> <<c>>]
    /\ read = [c \in Call |-> << >>]
    /\ job = NoJob
    /\ reported = {}
    /\ failed = {}
    /\ accepted = << >>
    /\ overdue = {}

\* The steps of a call that was made.
Proceed(c) == GetJob(c) \/ RemoveJob(c) \/ Listen(c) \/ Add(c) \/ Release(c)

\* The steps of the worker process.
Work == StartJob \/ CompleteJob \/ FailJob

Next ==
    \/ \E c \in Call : TakeLock(c) \/ Proceed(c)
    \/ Work
    \/ Expire
    \/ \E p \in Process : Exit(p)

Spec == Init /\ [][Next]_vars

\* The event loop and Redis go on, delays end, a job is run until it completes,
\* fails or times out, and a lock that is held long enough expires.
FairSpec ==
    Spec /\ WF_vars(Work) /\ WF_vars(Expire) /\ \A c \in Call : WF_vars(Proceed(c))

-----------------------------------------------------------------------------
TypeOK ==
    /\ lock \in Call \cup {None}
    /\ pc \in [Call -> Running \cup {"idle", "dropped", "done", "rejected", "crashed"}]
    /\ data \in [Call -> Seq(Call)]
    /\ read \in [Call -> Seq(Call)]
    /\ job \in [state : {"none", "delayed", "active"}, data : Seq(Call)]
    /\ reported \subseteq Seq(Call)
    /\ failed \subseteq Seq(Call)
    /\ accepted \in Seq(Call)
    /\ overdue \subseteq Call

\* The edit of c was put to use, or the job that it was part of failed.
IsOver(c) == \E edits \in reported \cup failed : c \in ToSet(edits)

IsStored(c) == c \in ToSet(job.data) \/ IsOver(c)

\* A call that has not ended, or that ended with its process or with a failed
\* job, takes along the edits it carries.
IsCarried(c) ==
    \E d \in Call : c \in ToSet(data[d]) /\ pc[d] \in Running \cup {"rejected", "crashed"}

\* The lock keeps two calls from replacing the job at once, as long as no call
\* goes on after its lock has expired.
LockExcludes ==
    overdue = {} => \A c, d \in Call : pc[c] \in Inside /\ pc[d] \in Inside => c = d

\* An edit whose call got the lock is not lost between two jobs, although the
\* job is removed and added in two steps while workers take and end jobs; unless
\* a call has gone on after its lock had expired.
AcceptedKept ==
    overdue = {} => \A c \in ToSet(accepted) : IsStored(c) \/ IsCarried(c)

Position(c) == CHOOSE i \in DOMAIN accepted : accepted[i] = c

\* A job begins with the earliest of its edits, and holds none of them twice.
OldestFirst ==
    overdue = {} =>
        \A edits \in reported \cup failed \cup {job.data} :
            \A i, j \in DOMAIN edits : i < j => Position(edits[i]) < Position(edits[j])

\* An edit that got into a job is used eventually, or goes down with a job that
\* failed, or with a call that had removed the job.
EditsEnd ==
    \A c \in Call :
        c \in ToSet(job.data) ~> IsOver(c) \/ overdue # {} \/
              \E d \in Call : c \in ToSet(data[d]) /\ pc[d] = "crashed"

\* The comment of addUniqueJob: a call that finds the job locked waits for it to
\* finish or fail; then it adds its own job.
EndedCallsAdded == \A c \in Call : pc[c] \in {"done", "rejected"} => data[c] = << >>
=============================================================================
