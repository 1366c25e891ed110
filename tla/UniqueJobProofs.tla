-------------------------- MODULE UniqueJobProofs --------------------------
(***************************************************************************)
(* Theorems about UniqueJob, for any calls of addUniqueJob in any          *)
(* processes, whether jobs fail or not and processes die or not.           *)
(***************************************************************************)
EXTENDS UniqueJob, TLAPS

Phase == Running \cup {"idle", "dropped", "done", "rejected", "crashed"}

\* A call that has not added its edit to anything yet: its data is that edit.
Early == {"idle", "dropped", "locked", "found", "listening", "waiting"}

-----------------------------------------------------------------------------
\* Sequences.
LEMMA ToSetFacts ==
    ASSUME NEW S, NEW s \in Seq(S), NEW t \in Seq(S)
    PROVE  /\ ToSet(s) \subseteq S
           /\ ToSet(s \o t) = ToSet(s) \cup ToSet(t)
<1>1. ToSet(s) \subseteq S
  BY DEF ToSet
<1>2. ToSet(s \o t) \subseteq ToSet(s) \cup ToSet(t)
  <2> SUFFICES ASSUME NEW i \in DOMAIN (s \o t)
               PROVE  (s \o t)[i] \in ToSet(s) \cup ToSet(t)
    BY DEF ToSet
  <2>1. CASE i <= Len(s)
    BY <2>1 DEF ToSet
  <2>2. CASE i > Len(s)
    <3>1. (s \o t)[i] = t[i - Len(s)] /\ i - Len(s) \in DOMAIN t
      BY <2>2
    <3> QED BY <3>1 DEF ToSet
  <2> QED BY <2>1, <2>2
<1>3. ToSet(s) \subseteq ToSet(s \o t)
  <2> SUFFICES ASSUME NEW i \in DOMAIN s
               PROVE  s[i] \in ToSet(s \o t)
    BY DEF ToSet
  <2>1. i \in DOMAIN (s \o t) /\ (s \o t)[i] = s[i]
    OBVIOUS
  <2> QED BY <2>1 DEF ToSet
<1>4. ToSet(t) \subseteq ToSet(s \o t)
  <2> SUFFICES ASSUME NEW i \in DOMAIN t
               PROVE  t[i] \in ToSet(s \o t)
    BY DEF ToSet
  <2>1. Len(s) + i \in DOMAIN (s \o t) /\ (s \o t)[Len(s) + i] = t[i]
    OBVIOUS
  <2> QED BY <2>1 DEF ToSet
<1> QED BY <1>1, <1>2, <1>3, <1>4

LEMMA ToSetShort ==
    /\ ToSet(<< >>) = {}
    /\ \A x : ToSet(<<x>>) = {x}
BY DEF ToSet

-----------------------------------------------------------------------------
(***************************************************************************)
(* Type correctness.                                                       *)
(***************************************************************************)
LEMMA TypeInit == Init => TypeOK
<1> SUFFICES ASSUME Init PROVE TypeOK
  OBVIOUS
<1>1. \A c \in Call : <<c>> \in Seq(Call) /\ << >> \in Seq(Call)
  OBVIOUS
<1> QED BY <1>1 DEF Init, TypeOK, NoJob, Running, Inside

LEMMA TypeOfCall ==
    ASSUME TypeOK, NEW c \in Call, TakeLock(c) \/ Proceed(c)
    PROVE  TypeOK'
<1> USE DEF Goto, Running, Inside
<1>1. CASE TakeLock(c)
  <2>1. Append(accepted, c) \in Seq(Call)
    BY DEF TypeOK
  <2> QED BY <1>1, <2>1 DEF TakeLock, TypeOK
<1>2. CASE GetJob(c)
  BY <1>2 DEF GetJob, TypeOK
<1>3. CASE RemoveJob(c)
  <2>1. Merge(read[c], data[c]) \in Seq(Call)
    BY DEF TypeOK, Merge
  <2>2. NoJob \in [state : {"none", "delayed", "active"}, data : Seq(Call)]
    BY DEF NoJob
  <2>3. << >> \in Seq(Call)
    OBVIOUS
  <2> QED BY <1>3, <2>1, <2>2, <2>3 DEF RemoveJob, TypeOK
<1>4. CASE Listen(c)
  BY <1>4 DEF Listen, TypeOK
<1>5. CASE Add(c)
  <2>1. << >> \in Seq(Call) /\ data[c] \in Seq(Call)
    BY DEF TypeOK
  <2>2. job' \in [state : {"none", "delayed", "active"}, data : Seq(Call)]
    BY <1>5, <2>1 DEF Add, TypeOK
  <2>3. data' \in [Call -> Seq(Call)]
    BY <1>5, <2>1 DEF Add, TypeOK
  <2>4. pc' \in [Call -> Phase]
    BY <1>5 DEF Add, TypeOK, Phase
  <2> QED BY <1>5, <2>2, <2>3, <2>4 DEF Add, TypeOK, Phase
<1>6. CASE Release(c)
  BY <1>6 DEF Release, TypeOK
<1> QED BY <1>1, <1>2, <1>3, <1>4, <1>5, <1>6 DEF Proceed

LEMMA TypeNext == TypeOK /\ [Next]_vars => TypeOK'
<1> SUFFICES ASSUME TypeOK, [Next]_vars PROVE TypeOK'
  OBVIOUS
<1>1. NoJob \in [state : {"none", "delayed", "active"}, data : Seq(Call)]
  BY DEF NoJob
<1>2. ASSUME NEW c \in Call, TakeLock(c) \/ Proceed(c) PROVE TypeOK'
  BY <1>2, TypeOfCall
<1>3. CASE StartJob
  BY <1>3 DEF StartJob, TypeOK
<1>4. CASE CompleteJob
  BY <1>1, <1>4 DEF CompleteJob, Wake, TypeOK, Running, Inside
<1>5. CASE FailJob
  BY <1>1, <1>5 DEF FailJob, Wake, TypeOK, Running, Inside
<1>6. CASE Expire
  BY <1>6 DEF Expire, TypeOK
<1>7. ASSUME NEW p \in Process, Exit(p) PROVE TypeOK'
  BY <1>7 DEF Exit, TypeOK
<1>8. CASE UNCHANGED vars
  BY <1>8 DEF vars, TypeOK
<1> QED BY <1>2, <1>3, <1>4, <1>5, <1>6, <1>7, <1>8 DEF Next, Work

-----------------------------------------------------------------------------
(***************************************************************************)
(* What holds whether or not a call goes on without its lock.              *)
(***************************************************************************)
JobShape == job.state = "none" => job = NoJob

\* A call takes the lock once, and whoever has the lock was the last to take it.
AcceptedOnce ==
    /\ \A i, j \in DOMAIN accepted : accepted[i] = accepted[j] => i = j
    /\ \A c \in Call : c \in ToSet(accepted) <=> pc[c] \notin {"idle", "dropped"}
    /\ lock # None => accepted # << >> /\ lock = accepted[Len(accepted)]

\* The edit of an early call is nowhere else.
EarlyCarries ==
    \A c \in Call : pc[c] \in Early =>
        /\ data[c] = <<c>>
        /\ c \notin ToSet(job.data)
        /\ \A d \in Call : c \notin ToSet(read[d]) /\ (d # c => c \notin ToSet(data[d]))

EndedAccepted == \A edits \in reported \cup failed : ToSet(edits) \subseteq ToSet(accepted)

BaseInv == TypeOK /\ JobShape /\ AcceptedOnce /\ EarlyCarries /\ EndedAccepted

LEMMA BaseInit == Init => BaseInv
<1> SUFFICES ASSUME Init PROVE BaseInv
  OBVIOUS
<1>1. TypeOK
  BY TypeInit
<1>2. JobShape /\ EndedAccepted
  BY DEF Init, JobShape, EndedAccepted
<1>3. AcceptedOnce
  BY ToSetShort DEF Init, AcceptedOnce
<1>4. EarlyCarries
  <2>1. ToSet(job.data) = {}
    BY ToSetShort DEF Init, NoJob
  <2>2. \A c \in Call : data[c] = <<c>> /\ ToSet(data[c]) = {c} /\ ToSet(read[c]) = {}
    BY ToSetShort DEF Init
  <2> QED BY <2>1, <2>2 DEF EarlyCarries
<1> QED BY <1>1, <1>2, <1>3, <1>4 DEF BaseInv

LEMMA ShapeNext == TypeOK /\ JobShape /\ [Next]_vars => JobShape'
<1> SUFFICES ASSUME TypeOK, JobShape, [Next]_vars PROVE JobShape'
  OBVIOUS
<1> USE DEF JobShape, TypeOK
<1>1. ASSUME NEW c \in Call, TakeLock(c) \/ GetJob(c) \/ Listen(c) \/ Release(c)
      PROVE  JobShape'
  BY <1>1 DEF TakeLock, GetJob, Listen, Release
<1>2. ASSUME NEW c \in Call, RemoveJob(c) PROVE JobShape'
  BY <1>2 DEF RemoveJob
<1>3. ASSUME NEW c \in Call, Add(c) PROVE JobShape'
  <2>1. job' = job \/ job'.state = "delayed"
    BY <1>3 DEF Add
  <2> QED BY <2>1
<1>4. CASE Work
  BY <1>4 DEF Work, StartJob, CompleteJob, FailJob
<1>5. ASSUME NEW p \in Process, Exit(p) PROVE JobShape'
  BY <1>5 DEF Exit
<1>6. CASE Expire \/ UNCHANGED vars
  BY <1>6 DEF Expire, vars
<1> QED BY <1>1, <1>2, <1>3, <1>4, <1>5, <1>6 DEF Next, Proceed

\* Appending to the calls that were accepted.
LEMMA AppendAccepted ==
    ASSUME TypeOK, NEW c \in Call, accepted' = Append(accepted, c)
    PROVE  /\ accepted' \in Seq(Call) /\ accepted' # << >>
           /\ Len(accepted') = Len(accepted) + 1
           /\ \A i \in DOMAIN accepted : i \in DOMAIN accepted' /\ accepted'[i] = accepted[i]
           /\ \A i \in DOMAIN accepted' : i \in DOMAIN accepted \/ i = Len(accepted')
           /\ accepted'[Len(accepted')] = c
           /\ ToSet(accepted)' = ToSet(accepted) \cup {c}
<1>1. accepted \in Seq(Call)
  BY DEF TypeOK
<1>2. \A i \in DOMAIN accepted : i \in DOMAIN accepted' /\ accepted'[i] = accepted[i]
  BY <1>1
<1>3. \A i \in DOMAIN accepted' : i \in DOMAIN accepted \/ i = Len(accepted')
  BY <1>1
<1>4. /\ Len(accepted') = Len(accepted) + 1 /\ accepted' \in Seq(Call)
      /\ accepted'[Len(accepted')] = c /\ accepted' # << >>
      /\ Len(accepted') \in DOMAIN accepted'
  BY <1>1
<1>5. ToSet(accepted)' = ToSet(accepted) \cup {c}
  BY <1>2, <1>3, <1>4 DEF ToSet
<1> QED BY <1>2, <1>3, <1>4, <1>5

LEMMA AcceptedNext == TypeOK /\ AcceptedOnce /\ [Next]_vars => AcceptedOnce'
<1> SUFFICES ASSUME TypeOK, AcceptedOnce, [Next]_vars PROVE AcceptedOnce'
  OBVIOUS
\* Most steps move calls only among the phases of those that were accepted.
<1>1. ASSUME accepted' = accepted, lock' \in {lock, None},
             \A c \in Call : pc'[c] \in {"idle", "dropped"} <=> pc[c] \in {"idle", "dropped"}
      PROVE  AcceptedOnce'
  BY <1>1 DEF AcceptedOnce
<1> USE DEF Goto, Running, Inside
<1>2. ASSUME NEW c \in Call, TakeLock(c) PROVE AcceptedOnce'
  <2>1. CASE lock = None /\ lock' = c
    <3>1. /\ accepted' = Append(accepted, c) /\ pc' = [pc EXCEPT ![c] = "locked"]
          /\ pc[c] = "idle"
      BY <1>2, <2>1, CallAssumption DEF TakeLock
    <3>2. c \notin ToSet(accepted)
      BY <3>1 DEF AcceptedOnce
    <3>3. \A i, j \in DOMAIN accepted' : accepted'[i] = accepted'[j] => i = j
      <4>1. \A i \in DOMAIN accepted : accepted[i] # c
        BY <3>2 DEF ToSet
      <4> QED BY <3>1, <4>1, AppendAccepted DEF AcceptedOnce
    <3>4. \A d \in Call : d \in ToSet(accepted') <=> pc'[d] \notin {"idle", "dropped"}
      BY <3>1, AppendAccepted DEF AcceptedOnce, TypeOK
    <3> QED BY <2>1, <3>1, <3>3, <3>4, AppendAccepted DEF AcceptedOnce
  <2>2. CASE ~ (lock = None /\ lock' = c)
    <3>1. /\ accepted' = accepted /\ lock' = lock
          /\ pc' = [pc EXCEPT ![c] = "dropped"] /\ pc[c] = "idle"
      BY <1>2, <2>2 DEF TakeLock
    <3> QED BY <1>1, <3>1 DEF TypeOK
  <2> QED BY <2>1, <2>2
<1>3. ASSUME NEW c \in Call, Proceed(c) PROVE AcceptedOnce'
  <2>1. accepted' = accepted
    BY <1>3 DEF Proceed, GetJob, RemoveJob, Listen, Add, Release
  <2>2. lock' \in {lock, None}
    BY <1>3 DEF Proceed, GetJob, RemoveJob, Listen, Add, Release
  <2>3. \A d \in Call : pc'[d] \in {"idle", "dropped"} <=> pc[d] \in {"idle", "dropped"}
    BY <1>3 DEF Proceed, GetJob, RemoveJob, Listen, Add, Release, TypeOK
  <2> QED BY <1>1, <2>1, <2>2, <2>3
<1>4. CASE Work
  <2>1. \A d \in Call : pc'[d] \in {"idle", "dropped"} <=> pc[d] \in {"idle", "dropped"}
    BY <1>4 DEF Work, StartJob, CompleteJob, FailJob, Wake, TypeOK
  <2> QED BY <1>1, <1>4, <2>1 DEF Work, StartJob, CompleteJob, FailJob
<1>5. CASE Expire
  BY <1>1, <1>5 DEF Expire
<1>6. ASSUME NEW p \in Process, Exit(p) PROVE AcceptedOnce'
  <2>1. \A d \in Call : pc'[d] \in {"idle", "dropped"} <=> pc[d] \in {"idle", "dropped"}
    BY <1>6 DEF Exit, TypeOK
  <2> QED BY <1>1, <1>6, <2>1 DEF Exit
<1>7. CASE UNCHANGED vars
  BY <1>1, <1>7 DEF vars
<1> QED BY <1>2, <1>3, <1>4, <1>5, <1>6, <1>7 DEF Next

LEMMA EarlyNext == TypeOK /\ EarlyCarries /\ [Next]_vars => EarlyCarries'
<1> SUFFICES ASSUME TypeOK, EarlyCarries, [Next]_vars PROVE EarlyCarries'
  OBVIOUS
<1> USE DEF Early, Running, Inside
\* A step that only moves calls on, or ends the job.
<1>1. ASSUME data' = data, read' = read, job'.data \in {job.data, << >>},
             \A c \in Call : pc'[c] \in Early => pc[c] \in Early
      PROVE  EarlyCarries'
  <2>1. ToSet(job.data)' \subseteq ToSet(job.data)
    BY <1>1, ToSetShort
  <2> QED BY <1>1, <2>1 DEF EarlyCarries
<1>2. ASSUME NEW c \in Call, TakeLock(c) PROVE EarlyCarries'
  <2>1. \A d \in Call : pc'[d] \in Early => pc[d] \in Early
    BY <1>2 DEF TakeLock, Goto, TypeOK
  <2> QED BY <1>1, <1>2, <2>1 DEF TakeLock
<1>3. ASSUME NEW c \in Call, GetJob(c) PROVE EarlyCarries'
  <2>1. \A d \in Call : pc'[d] \in Early => pc[d] \in Early
    BY <1>3 DEF GetJob, Goto, TypeOK
  <2>2. \A d \in Call : read'[d] \in {read[d], job.data}
    BY <1>3 DEF GetJob, TypeOK
  <2>3. data' = data /\ job' = job
    BY <1>3 DEF GetJob
  <2> QED BY <2>1, <2>2, <2>3 DEF EarlyCarries
<1>4. ASSUME NEW c \in Call, RemoveJob(c) PROVE EarlyCarries'
  <2>1. \A d \in Call : ToSet(read'[d]) \subseteq ToSet(read[d])
    BY <1>4, ToSetShort DEF RemoveJob, TypeOK
  <2>2. CASE data' = data
    <3>1. job' = job \/ job' = NoJob
      BY <1>4 DEF RemoveJob
    <3>2. ToSet(job.data)' \subseteq ToSet(job.data)
      BY <3>1, ToSetShort DEF NoJob
    <3>3. \A d \in Call : pc'[d] \in Early => pc[d] \in Early
      BY <1>4 DEF RemoveJob, Goto, TypeOK
    <3> QED BY <2>1, <2>2, <3>2, <3>3 DEF EarlyCarries
  <2>3. CASE data' # data
    <3>1. /\ data' = [data EXCEPT ![c] = read[c] \o @]
          /\ job' = NoJob
          /\ pc' = [pc EXCEPT ![c] = "adding"]
      BY <1>4, <2>3 DEF RemoveJob, Goto, Merge
    <3>2. ToSet(data'[c]) = ToSet(read[c]) \cup ToSet(data[c])
      BY <3>1, ToSetFacts DEF TypeOK
    <3>3. \A d \in Call : d # c => data'[d] = data[d] /\ pc'[d] = pc[d]
      BY <3>1 DEF TypeOK
    <3>4. pc'[c] \notin Early /\ ToSet(job.data)' = {}
      BY <3>1, ToSetShort DEF TypeOK, NoJob
    <3> QED BY <2>1, <3>2, <3>3, <3>4 DEF EarlyCarries
  <2> QED BY <2>2, <2>3
<1>5. ASSUME NEW c \in Call, Listen(c) \/ Release(c) PROVE EarlyCarries'
  <2>1. \A d \in Call : pc'[d] \in Early => pc[d] \in Early
    BY <1>5 DEF Listen, Release, Goto, TypeOK
  <2> QED BY <1>1, <1>5, <2>1 DEF Listen, Release
<1>6. ASSUME NEW c \in Call, Add(c) PROVE EarlyCarries'
  <2>1. /\ \A d \in Call : d # c => pc'[d] = pc[d] /\ data'[d] = data[d]
        /\ pc'[c] \notin Early
        /\ read' = read
    BY <1>6 DEF Add, Goto, TypeOK
  <2>2. ToSet(data'[c]) \subseteq ToSet(data[c])
    BY <1>6, ToSetShort DEF Add, TypeOK
  <2>3. job' = job \/ job'.data = data[c]
    BY <1>6 DEF Add
  <2>4. ToSet(job.data)' \subseteq ToSet(job.data) \cup ToSet(data[c])
    BY <2>3
  <2> QED BY <2>1, <2>2, <2>4 DEF EarlyCarries
<1>7. CASE StartJob
  <2>1. job'.data = job.data
    BY <1>7 DEF StartJob, TypeOK
  <2> QED BY <1>1, <1>7, <2>1 DEF StartJob
<1>8. CASE CompleteJob \/ FailJob
  <2>1. \A d \in Call : pc'[d] \in Early => pc[d] \in Early
    BY <1>8 DEF CompleteJob, FailJob, Wake, TypeOK
  <2> QED BY <1>1, <1>8, <2>1 DEF CompleteJob, FailJob, NoJob
<1>9. ASSUME NEW p \in Process, Exit(p) PROVE EarlyCarries'
  <2>1. \A d \in Call : pc'[d] \in Early => pc[d] \in Early
    BY <1>9 DEF Exit, TypeOK
  <2> QED BY <1>1, <1>9, <2>1 DEF Exit
<1>10. CASE Expire \/ UNCHANGED vars
  BY <1>1, <1>10 DEF Expire, vars
<1> QED BY <1>2, <1>3, <1>4, <1>5, <1>6, <1>7, <1>8, <1>9, <1>10 DEF Next, Proceed, Work

\* What a job holds was accepted: what was not is still with its early call.
LEMMA HeldAccepted ==
    ASSUME BaseInv
    PROVE  /\ ToSet(job.data) \subseteq ToSet(accepted)
           /\ \A c \in Call :
                 /\ ToSet(read[c]) \subseteq ToSet(accepted)
                 /\ data[c] = <<c>> \/ ToSet(data[c]) \subseteq ToSet(accepted)
<1> USE DEF BaseInv
<1>1. \A d \in Call : d \notin ToSet(accepted) => pc[d] \in {"idle", "dropped"}
  BY DEF AcceptedOnce
<1>2. \A d \in Call : d \notin ToSet(accepted) => pc[d] \in Early
  BY <1>1 DEF Early
<1>3. /\ ToSet(job.data) \subseteq Call
      /\ \A c \in Call : ToSet(read[c]) \subseteq Call /\ ToSet(data[c]) \subseteq Call
  BY ToSetFacts DEF TypeOK
<1> QED BY <1>2, <1>3 DEF EarlyCarries

LEMMA EndedNext == BaseInv /\ [Next]_vars => EndedAccepted'
<1> SUFFICES ASSUME BaseInv, [Next]_vars PROVE EndedAccepted'
  OBVIOUS
<1>1. ToSet(accepted) \subseteq ToSet(accepted)'
  <2>1. accepted' = accepted \/ \E c \in Call : accepted' = Append(accepted, c)
    BY DEF Next, TakeLock, Proceed, GetJob, RemoveJob, Listen, Add, Release, Work, StartJob,
           CompleteJob, FailJob, Expire, Exit, vars
  <2> QED BY <2>1, AppendAccepted DEF BaseInv
<1>2. (reported \cup failed)' \subseteq reported \cup failed \cup {job.data}
  BY DEF Next, TakeLock, Proceed, GetJob, RemoveJob, Listen, Add, Release, Work, StartJob,
         CompleteJob, FailJob, Expire, Exit, vars
<1> QED BY <1>1, <1>2, HeldAccepted DEF EndedAccepted, BaseInv

LEMMA BaseNext == BaseInv /\ [Next]_vars => BaseInv'
<1> SUFFICES ASSUME BaseInv, [Next]_vars PROVE BaseInv'
  OBVIOUS
<1>1. TypeOK' /\ JobShape' /\ AcceptedOnce' /\ EarlyCarries'
  BY TypeNext, ShapeNext, AcceptedNext, EarlyNext DEF BaseInv
<1>2. EndedAccepted'
  BY EndedNext
<1> QED BY <1>1, <1>2 DEF BaseInv

-----------------------------------------------------------------------------
(***************************************************************************)
(* What holds as long as no call goes on without its lock.                 *)
(***************************************************************************)
\* Only the call with the lock is inside, so it knows the job: what it has found
\* is the job still, or that job has ended since.
Handed(c) ==
    /\ pc[c] \in Inside => lock = c
    /\ pc[c] = "adding" => job = NoJob
    /\ pc[c] = "releasing" => data[c] = << >>
    /\ pc[c] = "found" =>
          \/ job.data = read[c]
          \/ job = NoJob /\ read[c] \in reported \cup failed

HandedOver == overdue = {} => \A c \in Call : Handed(c)

LEMMA OverdueGrows == [Next]_vars => overdue \subseteq overdue'
BY DEF Next, TakeLock, Proceed, GetJob, RemoveJob, Listen, Add, Release, Work, StartJob,
       CompleteJob, FailJob, Wake, Expire, Exit, vars

LEMMA HandedNext == BaseInv /\ HandedOver /\ [Next]_vars => HandedOver'
<1> SUFFICES ASSUME BaseInv, HandedOver, [Next]_vars, overdue' = {}, NEW d \in Call
             PROVE  Handed(d)'
  BY DEF HandedOver
<1>1. \A c \in Call : Handed(c)
  BY OverdueGrows DEF HandedOver
<1> USE DEF BaseInv, Goto, Running, Inside
<1>2. \A c \in Call : c # None
  BY CallAssumption
\* The steps of another call, or of d itself.
<1>3. ASSUME NEW c \in Call, TakeLock(c) PROVE Handed(d)'
  BY <1>1, <1>2, <1>3 DEF TakeLock, Handed, TypeOK
<1>4. ASSUME NEW c \in Call, GetJob(c) PROVE Handed(d)'
  <2>1. CASE c = d
    BY <1>1, <1>4, <2>1 DEF GetJob, Handed, TypeOK
  <2>2. CASE c # d
    BY <1>1, <1>4, <2>2 DEF GetJob, Handed, TypeOK
  <2> QED BY <2>1, <2>2
<1>5. ASSUME NEW c \in Call, RemoveJob(c) PROVE Handed(d)'
  <2>1. CASE c = d
    BY <1>1, <1>5, <2>1 DEF RemoveJob, Handed, TypeOK
  <2>2. CASE c # d
    <3>1. pc[d] \notin Inside /\ pc'[d] = pc[d]
      BY <1>1, <1>5, <2>2 DEF RemoveJob, Handed, TypeOK
    <3> QED BY <3>1 DEF Handed
  <2> QED BY <2>1, <2>2
<1>6. ASSUME NEW c \in Call, Listen(c) PROVE Handed(d)'
  BY <1>1, <1>6 DEF Listen, Handed, TypeOK
<1>7. ASSUME NEW c \in Call, Add(c) PROVE Handed(d)'
  <2>1. CASE c = d
    <3>1. job = NoJob /\ lock = c
      BY <1>1, <1>7 DEF Add, Handed
    <3>2. pc'[d] = "releasing" /\ data'[d] = << >> /\ lock' = lock
      BY <1>7, <2>1, <3>1 DEF Add, TypeOK
    <3> QED BY <2>1, <3>1, <3>2 DEF Handed
  <2>2. CASE c # d
    <3>1. pc[d] \notin Inside /\ pc'[d] = pc[d]
      BY <1>1, <1>7, <2>2 DEF Add, Handed, TypeOK
    <3> QED BY <3>1 DEF Handed
  <2> QED BY <2>1, <2>2
<1>8. ASSUME NEW c \in Call, Release(c) PROVE Handed(d)'
  <2>1. pc'[d] \notin Inside
    <3>1. CASE c = d
      BY <1>8, <3>1 DEF Release, TypeOK
    <3>2. CASE c # d
      BY <1>1, <1>8, <3>2 DEF Release, Handed, TypeOK
    <3> QED BY <3>1, <3>2
  <2> QED BY <2>1 DEF Handed
<1>9. CASE StartJob
  <2>1. job # NoJob /\ job'.data = job.data
    BY <1>9 DEF StartJob, NoJob, TypeOK
  <2> QED BY <1>1, <1>9, <2>1 DEF StartJob, Handed
<1>10. CASE CompleteJob \/ FailJob
  <2>1. job.state = "active" /\ job' = NoJob
    BY <1>10 DEF CompleteJob, FailJob
  <2>2. /\ job.data \in (reported \cup failed)'
        /\ reported \cup failed \subseteq (reported \cup failed)'
    BY <1>10 DEF CompleteJob, FailJob
  <2>3. lock' = lock /\ data' = data /\ read' = read
    BY <1>10 DEF CompleteJob, FailJob
  <2>4. CASE pc[d] = "waiting"
    <3>1. lock = d /\ pc'[d] \in {"adding", "rejecting"}
      BY <1>10, <2>4 DEF CompleteJob, FailJob, Wake, TypeOK
    <3> QED BY <2>1, <2>3, <3>1 DEF Handed
  <2>5. CASE pc[d] # "waiting"
    <3>1. pc'[d] = pc[d]
      BY <1>10, <2>5 DEF CompleteJob, FailJob, Wake, TypeOK
    <3>2. pc[d] = "found" => read[d] \in (reported \cup failed)'
      BY <1>1, <2>2 DEF Handed
    <3> QED BY <1>1, <2>1, <2>3, <3>1, <3>2 DEF Handed
  <2> QED BY <2>4, <2>5
<1>11. CASE Expire
  <2>1. pc[d] \notin Inside /\ pc'[d] = pc[d]
    BY <1>1, <1>11 DEF Expire, Handed
  <2> QED BY <2>1 DEF Handed
<1>12. ASSUME NEW p \in Process, Exit(p) PROVE Handed(d)'
  <2>1. pc'[d] \in {pc[d], "crashed"}
    BY <1>12 DEF Exit, TypeOK
  <2> QED BY <1>1, <1>12, <2>1 DEF Exit, Handed
<1>13. CASE UNCHANGED vars
  BY <1>1, <1>13 DEF vars, Handed
<1> QED BY <1>3, <1>4, <1>5, <1>6, <1>7, <1>8, <1>9, <1>10, <1>11, <1>12, <1>13
    DEF Next, Proceed, Work

-----------------------------------------------------------------------------
(***************************************************************************)
(* No accepted edit is lost.                                               *)
(***************************************************************************)
Carrying == Running \cup {"rejected", "crashed"}

Kept(e) == IsStored(e) \/ IsCarried(e)

LEMMA KeptNext ==
    ASSUME BaseInv, HandedOver, AcceptedKept, [Next]_vars
    PROVE  AcceptedKept'
<1> SUFFICES ASSUME overdue' = {}, NEW e \in ToSet(accepted)'
             PROVE  Kept(e)'
  BY DEF AcceptedKept, Kept
<1>1. overdue = {} /\ \A c \in Call : Handed(c)
  BY OverdueGrows DEF HandedOver
<1>2. e \in ToSet(accepted) => Kept(e)
  BY <1>1 DEF AcceptedKept, Kept
<1> USE DEF BaseInv, Goto
<1>3. reported \cup failed \subseteq (reported \cup failed)'
  BY DEF Next, TakeLock, Proceed, GetJob, RemoveJob, Listen, Add, Release, Work, StartJob,
         CompleteJob, FailJob, Expire, Exit, vars
<1>4. IsOver(e) => Kept(e)'
  BY <1>3 DEF IsOver, IsStored, Kept
\* A step that leaves the data alone, and lets no call stop carrying what it has.
<1>5. ASSUME e \in ToSet(accepted), data' = data,
             ToSet(job.data)' = ToSet(job.data) \/ (e \in ToSet(job.data) => IsOver(e)'),
             \A c \in Call : e \in ToSet(data[c]) /\ pc[c] \in Carrying => pc'[c] \in Carrying
      PROVE  Kept(e)'
  BY <1>2, <1>4, <1>5 DEF Kept, IsStored, IsCarried, Carrying
<1> USE DEF Carrying, Running, Inside
<1>6. ASSUME NEW c \in Call, TakeLock(c) PROVE Kept(e)'
  <2>1. CASE e \in ToSet(accepted)
    <3>1. \A d \in Call : pc[d] \in Carrying => pc'[d] \in Carrying
      BY <1>6 DEF TakeLock, TypeOK
    <3> QED BY <1>5, <1>6, <2>1, <3>1 DEF TakeLock
  <2>2. CASE e \notin ToSet(accepted)
    <3>1. accepted' = Append(accepted, c) /\ pc' = [pc EXCEPT ![c] = "locked"] /\ data' = data
      BY <1>6, <2>2 DEF TakeLock
    <3>2. e = c
      BY <2>2, <3>1, AppendAccepted
    <3>3. data[c] = <<c>>
      BY <1>6 DEF TakeLock, EarlyCarries, Early
    <3>4. c \in ToSet(data'[c]) /\ pc'[c] \in Carrying
      BY <3>1, <3>3, ToSetShort DEF TypeOK
    <3> QED BY <3>2, <3>4 DEF Kept, IsCarried
  <2> QED BY <2>1, <2>2
<1>7. CASE accepted' = accepted
  <2>1. e \in ToSet(accepted)
    BY <1>7
  <2>2. ASSUME NEW c \in Call, GetJob(c) \/ Listen(c) PROVE Kept(e)'
    <3>1. \A d \in Call : pc[d] \in Carrying => pc'[d] \in Carrying
      BY <2>2 DEF GetJob, Listen, TypeOK
    <3> QED BY <1>5, <2>1, <2>2, <3>1 DEF GetJob, Listen
  <2>3. ASSUME NEW c \in Call, RemoveJob(c) PROVE Kept(e)'
    <3>1. \A d \in Call : pc[d] \in Carrying => pc'[d] \in Carrying
      BY <2>3 DEF RemoveJob, TypeOK
    <3>2. CASE job.state = "active"
      BY <1>5, <2>1, <2>3, <3>1, <3>2 DEF RemoveJob
    <3>3. CASE job.state # "active"
      <4>1. /\ data' = [data EXCEPT ![c] = read[c] \o @]
            /\ job' = NoJob
            /\ pc' = [pc EXCEPT ![c] = "adding"]
            /\ pc[c] = "found"
        BY <2>3, <3>3 DEF RemoveJob, Merge
      <4>2. ToSet(data'[c]) = ToSet(read[c]) \cup ToSet(data[c])
        BY <4>1, ToSetFacts DEF TypeOK
      <4>3. \A d \in Call : ToSet(data[d]) \subseteq ToSet(data'[d])
        BY <4>1, <4>2 DEF TypeOK
      <4>4. IsCarried(e) => IsCarried(e)'
        BY <3>1, <4>3 DEF IsCarried
      <4>5. ToSet(job.data) \subseteq ToSet(data'[c])
        BY <1>1, <4>1, <4>2, ToSetShort DEF Handed, NoJob
      <4>6. pc'[c] \in Carrying
        BY <4>1 DEF TypeOK
      <4>7. e \in ToSet(job.data) => IsCarried(e)'
        BY <4>5, <4>6 DEF IsCarried
      <4> QED BY <1>2, <1>4, <2>1, <4>4, <4>7 DEF Kept, IsStored
    <3> QED BY <3>2, <3>3
  <2>4. ASSUME NEW c \in Call, Add(c) PROVE Kept(e)'
    <3>1. /\ job = NoJob
          /\ job' = [state |-> "delayed", data |-> data[c]]
          /\ data' = [data EXCEPT ![c] = << >>]
          /\ pc' = [pc EXCEPT ![c] = "releasing"]
      BY <1>1, <2>4 DEF Add, Handed
    <3>2. e \notin ToSet(job.data)
      BY <3>1, ToSetShort DEF NoJob
    <3>3. job'.data = data[c]
      BY <3>1
    <3>4. e \in ToSet(data[c]) => Kept(e)'
      BY <3>3 DEF Kept, IsStored
    <3>5. ASSUME NEW d \in Call, d # c, e \in ToSet(data[d]), pc[d] \in Carrying PROVE Kept(e)'
      <4>1. data'[d] = data[d] /\ pc'[d] = pc[d]
        BY <3>1, <3>5 DEF TypeOK
      <4> QED BY <3>5, <4>1 DEF Kept, IsCarried
    <3> QED BY <1>2, <1>4, <2>1, <3>2, <3>4, <3>5 DEF Kept, IsStored, IsCarried
  <2>5. ASSUME NEW c \in Call, Release(c) PROVE Kept(e)'
    <3>1. pc[c] = "releasing" => ToSet(data[c]) = {}
      BY <1>1, ToSetShort DEF Handed
    <3>2. \A d \in Call : e \in ToSet(data[d]) /\ pc[d] \in Carrying => pc'[d] \in Carrying
      BY <2>5, <3>1 DEF Release, TypeOK
    <3> QED BY <1>5, <2>1, <2>5, <3>2 DEF Release
  <2>6. CASE StartJob
    <3>1. job'.data = job.data
      BY <2>6 DEF StartJob, TypeOK
    <3> QED BY <1>5, <2>1, <2>6, <3>1 DEF StartJob
  <2>7. CASE CompleteJob \/ FailJob
    <3>1. \A d \in Call : pc[d] \in Carrying => pc'[d] \in Carrying
      BY <2>7 DEF CompleteJob, FailJob, Wake, TypeOK
    <3>2. job.data \in (reported \cup failed)'
      BY <2>7 DEF CompleteJob, FailJob
    <3>3. e \in ToSet(job.data) => IsOver(e)'
      BY <3>2 DEF IsOver
    <3> QED BY <1>5, <2>1, <2>7, <3>1, <3>3 DEF CompleteJob, FailJob
  <2>8. ASSUME NEW p \in Process, Exit(p) PROVE Kept(e)'
    <3>1. \A d \in Call : pc[d] \in Carrying => pc'[d] \in Carrying
      BY <2>8 DEF Exit, TypeOK
    <3> QED BY <1>5, <2>1, <2>8, <3>1 DEF Exit
  <2>9. CASE Expire \/ UNCHANGED vars
    BY <1>5, <2>1, <2>9 DEF Expire, vars
  <2> QED BY <1>6, <2>2, <2>3, <2>4, <2>5, <2>6, <2>7, <2>8, <2>9 DEF Next, Proceed, Work
<1>8. accepted' = accepted \/ \E c \in Call : TakeLock(c)
  BY DEF Next, Proceed, GetJob, RemoveJob, Listen, Add, Release, Work, StartJob,
         CompleteJob, FailJob, Expire, Exit, vars
<1> QED BY <1>6, <1>7, <1>8

-----------------------------------------------------------------------------
(***************************************************************************)
(* The edits of a job are in the order in which they were accepted.        *)
(***************************************************************************)
Place(order, c) == CHOOSE i \in DOMAIN order : order[i] = c

Ordered(order, edits) ==
    \A i, j \in DOMAIN edits : i < j => Place(order, edits[i]) < Place(order, edits[j])

Once(order) == \A i, j \in DOMAIN order : order[i] = order[j] => i = j

AllOrdered ==
    /\ \A edits \in reported \cup failed \cup {job.data} : Ordered(accepted, edits)
    /\ \A c \in Call : Ordered(accepted, data[c]) /\ Ordered(accepted, read[c])

InOrder == overdue = {} => AllOrdered

LEMMA PlaceOf ==
    ASSUME NEW order, Once(order), NEW i \in DOMAIN order
    PROVE  Place(order, order[i]) = i
BY DEF Place, Once

LEMMA ShortOrdered == \A order, x : Ordered(order, << >>) /\ Ordered(order, <<x>>)
BY DEF Ordered

\* Edits stay in order when another call is accepted.
LEMMA OrderedLater ==
    ASSUME NEW order \in Seq(Call), NEW c \in Call, NEW s \in Seq(Call),
           Once(order), Once(Append(order, c)),
           Ordered(order, s), ToSet(s) \subseteq ToSet(order)
    PROVE  Ordered(Append(order, c), s)
<1> DEFINE later == Append(order, c)
<1>1. \A i \in DOMAIN order : i \in DOMAIN later /\ later[i] = order[i]
  OBVIOUS
<1> HIDE DEF later
<1>2. ASSUME NEW x \in ToSet(order) PROVE Place(later, x) = Place(order, x)
  <2>1. PICK i \in DOMAIN order : order[i] = x
    BY DEF ToSet
  <2>2. Place(order, x) = i
    BY <2>1, PlaceOf
  <2>3. Place(later, x) = i
    BY <1>1, <2>1, PlaceOf DEF later
  <2> QED BY <2>2, <2>3
<1>3. \A i \in DOMAIN s : s[i] \in ToSet(order)
  BY DEF ToSet
<1>4. Ordered(later, s)
  BY <1>2, <1>3 DEF Ordered
<1> QED BY <1>4 DEF later

\* Earlier edits before the edit of the call that was accepted last.
LEMMA OrderedWithLast ==
    ASSUME NEW order \in Seq(Call), NEW s \in Seq(Call), Once(order), order # << >>,
           NEW c, c = order[Len(order)],
           Ordered(order, s), ToSet(s) \subseteq ToSet(order), c \notin ToSet(s)
    PROVE  Ordered(order, s \o <<c>>)
<1>1. Len(order) \in DOMAIN order
  OBVIOUS
<1>2. Place(order, c) = Len(order)
  BY <1>1, PlaceOf
<1>3. ASSUME NEW i \in DOMAIN s PROVE Place(order, s[i]) < Len(order)
  <2>1. PICK k \in DOMAIN order : order[k] = s[i]
    BY DEF ToSet
  <2>2. k # Len(order)
    BY <2>1 DEF ToSet
  <2>3. Place(order, s[i]) = k
    BY <2>1, PlaceOf
  <2> QED BY <2>2, <2>3
<1>4. SUFFICES ASSUME NEW i \in DOMAIN (s \o <<c>>), NEW j \in DOMAIN (s \o <<c>>), i < j
               PROVE  Place(order, (s \o <<c>>)[i]) < Place(order, (s \o <<c>>)[j])
  BY DEF Ordered
<1>5. i \in DOMAIN s /\ (s \o <<c>>)[i] = s[i]
  BY <1>4
<1>6. CASE j \in DOMAIN s
  <2>1. (s \o <<c>>)[j] = s[j]
    BY <1>6
  <2> QED BY <1>4, <1>5, <1>6, <2>1 DEF Ordered
<1>7. CASE j \notin DOMAIN s
  <2>1. (s \o <<c>>)[j] = c
    BY <1>7
  <2> QED BY <1>2, <1>3, <1>5, <2>1
<1> QED BY <1>6, <1>7

LEMMA InOrderNext ==
    ASSUME BaseInv, BaseInv', HandedOver, InOrder, [Next]_vars
    PROVE  InOrder'
<1> SUFFICES ASSUME overdue' = {} PROVE AllOrdered'
  BY DEF InOrder
<1>1. overdue = {} /\ \A c \in Call : Handed(c)
  BY OverdueGrows DEF HandedOver
<1>2. AllOrdered
  BY <1>1 DEF InOrder
<1>3. Once(accepted) /\ Once(accepted')
  BY DEF BaseInv, AcceptedOnce, Once
<1> USE DEF BaseInv, AllOrdered
\* Only TakeLock changes the order.
<1>4. ASSUME NEW c \in Call, accepted' = Append(accepted, c),
             UNCHANGED <<data, read, job, reported, failed>> PROVE AllOrdered'
  <2>1. \A s \in Seq(Call) : Ordered(accepted, s) /\ ToSet(s) \subseteq ToSet(accepted)
                               => Ordered(accepted', s)
    BY <1>3, <1>4, OrderedLater DEF TypeOK
  <2>2. \A edits \in reported \cup failed \cup {job.data} :
           edits \in Seq(Call) /\ ToSet(edits) \subseteq ToSet(accepted)
    BY HeldAccepted DEF TypeOK, EndedAccepted
  <2>3. \A d \in Call : read[d] \in Seq(Call) /\ ToSet(read[d]) \subseteq ToSet(accepted)
    BY HeldAccepted DEF TypeOK
  <2>4. \A d \in Call : \/ data[d] = <<d>>
                        \/ data[d] \in Seq(Call) /\ ToSet(data[d]) \subseteq ToSet(accepted)
    BY HeldAccepted DEF TypeOK
  <2>5. \A d \in Call : Ordered(accepted', data[d])
    BY <1>2, <2>1, <2>4, ShortOrdered
  <2> QED BY <1>2, <1>4, <2>1, <2>2, <2>3, <2>5
\* Otherwise what is new is empty, or the data of a call, a job or what was read.
<1>5. ASSUME accepted' = accepted,
             \A edits \in (reported \cup failed \cup {job.data})' : Ordered(accepted, edits),
             \A d \in Call : Ordered(accepted, data'[d]) /\ Ordered(accepted, read'[d])
      PROVE  AllOrdered'
  BY <1>5
<1>6. Ordered(accepted, NoJob.data)
  BY ShortOrdered DEF NoJob
<1>7. ASSUME NEW c \in Call, TakeLock(c) PROVE AllOrdered'
  BY <1>2, <1>4, <1>5, <1>7 DEF TakeLock
<1>8. ASSUME NEW c \in Call, GetJob(c) PROVE AllOrdered'
  <2>1. \A d \in Call : read'[d] \in {read[d], job.data}
    BY <1>8 DEF GetJob, TypeOK
  <2> QED BY <1>2, <1>5, <1>8, <2>1 DEF GetJob
<1>9. ASSUME NEW c \in Call, RemoveJob(c) PROVE AllOrdered'
  <2>1. lock = c /\ data[c] = <<c>> /\ c \notin ToSet(read[c])
    BY <1>1, <1>9 DEF RemoveJob, Handed, Inside, EarlyCarries, Early
  <2>2. accepted # << >> /\ c = accepted[Len(accepted)]
    BY <2>1, CallAssumption DEF AcceptedOnce
  <2>3. Ordered(accepted, read[c] \o <<c>>)
    BY <1>2, <1>3, <2>1, <2>2, HeldAccepted, OrderedWithLast DEF TypeOK
  <2>4. \A d \in Call : data'[d] \in {data[d], read[d] \o data[d]} /\ (d # c => data'[d] = data[d])
    BY <1>9 DEF RemoveJob, Merge, TypeOK
  <2>5. \A d \in Call : Ordered(accepted, data'[d])
    BY <1>2, <2>1, <2>3, <2>4
  <2>6. \A d \in Call : read'[d] \in {read[d], << >>}
    BY <1>9 DEF RemoveJob, TypeOK
  <2>7. job' = job \/ job' = NoJob
    BY <1>9 DEF RemoveJob
  <2> QED BY <1>2, <1>5, <1>6, <1>9, <2>5, <2>6, <2>7, ShortOrdered DEF RemoveJob
<1>10. ASSUME NEW c \in Call, Listen(c) \/ Release(c) PROVE AllOrdered'
  BY <1>2, <1>5, <1>10 DEF Listen, Release
<1>11. ASSUME NEW c \in Call, Add(c) PROVE AllOrdered'
  <2>1. job' = job \/ job'.data = data[c]
    BY <1>11 DEF Add
  <2>2. \A d \in Call : data'[d] \in {data[d], << >>}
    BY <1>11 DEF Add, TypeOK
  <2>3. Ordered(accepted, job'.data)
    BY <1>2, <2>1
  <2> QED BY <1>2, <1>5, <1>11, <2>2, <2>3, ShortOrdered DEF Add
<1>12. CASE Work
  <2>1. job' = NoJob \/ job'.data = job.data
    BY <1>12 DEF Work, StartJob, CompleteJob, FailJob, TypeOK
  <2>2. Ordered(accepted, job'.data)
    BY <1>2, <1>6, <2>1
  <2>3. /\ (reported \cup failed)' \subseteq reported \cup failed \cup {job.data}
        /\ UNCHANGED <<data, read, accepted>>
    BY <1>12 DEF Work, StartJob, CompleteJob, FailJob
  <2> QED BY <1>2, <1>5, <2>2, <2>3
<1>13. CASE Expire \/ (\E p \in Process : Exit(p)) \/ UNCHANGED vars
  BY <1>2, <1>5, <1>13 DEF Expire, Exit, vars
<1> QED BY <1>7, <1>8, <1>9, <1>10, <1>11, <1>12, <1>13 DEF Next, Proceed

-----------------------------------------------------------------------------
(***************************************************************************)
(* The theorems.                                                           *)
(***************************************************************************)
UniqueJobInv == BaseInv /\ HandedOver /\ AcceptedKept /\ InOrder

LEMMA InvInit == Init => UniqueJobInv
<1> SUFFICES ASSUME Init PROVE UniqueJobInv
  OBVIOUS
<1>1. BaseInv
  BY BaseInit
<1>2. HandedOver
  BY DEF Init, HandedOver, Handed, Inside
<1>3. AcceptedKept
  BY ToSetShort DEF Init, AcceptedKept
<1>4. InOrder
  BY ShortOrdered DEF Init, InOrder, AllOrdered, NoJob
<1> QED BY <1>1, <1>2, <1>3, <1>4 DEF UniqueJobInv

\* What holds of every reachable state: the lock is with the only call inside, what
\* that call has found is the job or has ended, no accepted edit is missing, and
\* everything that holds edits holds them in order.
THEOREM UniqueJobInvariant == Spec => []UniqueJobInv
<1>1. UniqueJobInv /\ [Next]_vars => UniqueJobInv'
  BY BaseNext, HandedNext, KeptNext, InOrderNext DEF UniqueJobInv
<1> QED BY InvInit, <1>1, PTL DEF Spec

\* As long as no call goes on after its lock has expired, two calls are never
\* between taking the lock and giving it back (acquireLock around the callback of addUniqueJob).
THEOREM LockIsExclusive == Spec => []LockExcludes
<1>1. UniqueJobInv => LockExcludes
  BY DEF UniqueJobInv, HandedOver, Handed, LockExcludes
<1> QED BY UniqueJobInvariant, <1>1, PTL

\* As long as no call goes on after its lock has expired, the edit of every call
\* that got the lock is in the job, in a job that has ended, or with a call.
THEOREM AcceptedNotLost == Spec => []AcceptedKept
<1>1. UniqueJobInv => AcceptedKept
  BY DEF UniqueJobInv
<1> QED BY UniqueJobInvariant, <1>1, PTL

\* As long as no call goes on after its lock has expired, every job holds its edits
\* in the order in which their calls got the lock, and none of them twice.
THEOREM MergedInOrder == Spec => []OldestFirst
<1>1. UniqueJobInv => OldestFirst
  BY DEF UniqueJobInv, InOrder, AllOrdered, Ordered, Place, OldestFirst, Position
<1> QED BY UniqueJobInvariant, <1>1, PTL
=============================================================================
