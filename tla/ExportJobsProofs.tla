--------------------------- MODULE ExportJobsProofs ---------------------------
(***************************************************************************)
(* The safety properties of ExportJobs, for any number of jobs, workers    *)
(* and losses.                                                             *)
(***************************************************************************)
EXTENDS ExportJobs, FiniteSetTheorems, TLAPS

-----------------------------------------------------------------------------
(* The inductive invariant.                                                *)

\* A worker has a job exactly while it is not idle, and has found its row once
\* it is past the first load; a row is there exactly when its request has
\* committed.
ControlInv ==
    /\ \A w \in Workers : phase[w] \in {"mark", "upload", "reload", "complete"}
                            => status[job[w]] # "absent"
    /\ \A w \in Workers : phase[w] = "idle" <=> job[w] = NoJob
    /\ \A j \in Jobs : status[j] = "absent" <=> request[j] # "committed"

\* Past the upload the object is there.
StoredInv ==
    /\ \A w \in Workers : phase[w] \in {"reload", "complete"} => stored[job[w]]
    /\ CompletedCanBeFetched

\* Without a loss every task is delivered once: the message is either in the
\* broker or with one worker, and what has been done of the job is in the place
\* of that worker, or in its result.
Waiting(j) ==
    /\ request[j] # "none"
    /\ result[j] = "none"
    /\ status[j] \in {"absent", "pending"}
    /\ \A w \in Workers : job[w] # j

Working(w) ==
    /\ queue[job[w]] = 0
    /\ request[job[w]] # "none"
    /\ \A v \in Workers \ {w} : job[v] # job[w]
    /\ phase[w] # "ack" <=> result[job[w]] = "none"
    /\ phase[w] = "load" => status[job[w]] \in {"absent", "pending"}
    /\ phase[w] = "mark" => seen[w] = "pending" /\ status[job[w]] = "pending"
    /\ phase[w] \in {"upload", "reload"} => status[job[w]] = "processing"
    /\ phase[w] = "complete" => seen[w] = "processing" /\ status[job[w]] = "processing"

Accounted(j) ==
    /\ request[j] = "none" => queue[j] = 0 /\ result[j] = "none" /\ \A w \in Workers : job[w] # j
    /\ result[j] = "none" /\ (\A w \in Workers : job[w] # j) => status[j] \in {"absent", "pending"}
    /\ result[j] = "key" => status[j] \in {"completed", "failed"}
    /\ result[j] = "no_job" => status[j] \in {"absent", "pending"}
    /\ result[j] = "failed" => status[j] \in {"absent", "pending", "processing"}

Queued(j) == queue[j] \in {0, 1} /\ (queue[j] = 1 => Waiting(j))

OnceInv ==
    crashes = 0 =>
        /\ \A j \in Jobs : Queued(j)
        /\ \A w \in Workers : phase[w] # "idle" => Working(w)
        /\ \A j \in Jobs : Accounted(j)

\* Before its request a job has no message, and no more than it is owed later.
DeliveryInv ==
    /\ DeliveriesAreBounded
    /\ \A j \in Jobs : request[j] = "none" => queue[j] = 0 /\ \A w \in Workers : job[w] # j

Inv == TypeOK /\ ControlInv /\ StoredInv /\ OnceInv /\ DeliveryInv

-----------------------------------------------------------------------------
(* The steps of the invariant's first parts.                               *)

\* Every step keeps the types.
LEMMA TypeStep == TypeOK /\ ControlInv /\ [Next]_vars => TypeOK'
<1> SUFFICES ASSUME TypeOK, ControlInv, [Next]_vars PROVE TypeOK'
    OBVIOUS
<1> USE ExportAssumption DEF ExportAssumption, TypeOK, rowVars, workerVars, JobStatus, Phases, Goto, Return
<1>1. CASE UNCHANGED vars
    BY <1>1 DEF vars
<1>2. ASSUME NEW j \in Jobs, RequestExport(j) \/ EndRequest(j) \/ Expire(j)
      PROVE  TypeOK'
    <2>1. CASE RequestExport(j)
        BY <2>1 DEF RequestExport
    <2>2. CASE CommitRequest(j)
        BY <2>2 DEF CommitRequest
    <2>3. CASE RollbackRequest(j)
        BY <2>3 DEF RollbackRequest
    <2>4. CASE Expire(j)
        BY <2>4 DEF Expire
    <2> QED
        BY <1>2, <2>1, <2>2, <2>3, <2>4 DEF EndRequest
<1>3. CASE CleanupExports
    BY <1>3 DEF CleanupExports
<1>4. ASSUME NEW w \in Workers, Receive(w)
      PROVE  TypeOK'
    BY <1>4 DEF Receive
<1>5. ASSUME NEW w \in Workers, phase[w] # "idle"
      PROVE  job[w] \in Jobs
    BY <1>5 DEF ControlInv
<1>6. ASSUME NEW w \in Workers, LoadJob(w) \/ Upload(w) \/ BodyRaises(w)
      PROVE  TypeOK'
    <2>1. CASE LoadJob(w) /\ status[job[w]] = "absent"
        BY <1>5, <2>1 DEF LoadJob
    <2>2. CASE LoadJob(w) /\ status[job[w]] # "absent"
        <3>1. job[w] \in Jobs
            BY <1>5, <2>2 DEF LoadJob
        <3>2. phase' \in [Workers -> Phases] /\ seen' \in [Workers -> JobStatus]
            BY <2>2, <3>1 DEF LoadJob
        <3> QED
            BY <2>2, <3>2 DEF LoadJob
    <2>3. CASE Upload(w)
        BY <1>5, <2>3 DEF Upload
    <2>4. CASE BodyRaises(w)
        BY <1>5, <2>4 DEF BodyRaises, InBody
    <2> QED
        BY <1>6, <2>1, <2>2, <2>3, <2>4
<1>7. ASSUME NEW w \in Workers, MarkProcessing(w) \/ CompleteJob(w)
      PROVE  TypeOK'
    <2>1. job[w] \in Jobs
        BY <1>5, <1>7 DEF MarkProcessing, CompleteJob
    <2>2. ASSUME NEW s \in JobStatus, WriteStatus(w, s)
          PROVE  status' \in [Jobs -> JobStatus]
        BY <2>1, <2>2 DEF WriteStatus
    <2>3. status' \in [Jobs -> JobStatus]
        BY <1>7, <2>2 DEF MarkProcessing, CompleteJob
    <2> QED
        BY <1>7, <2>1, <2>3 DEF MarkProcessing, CompleteJob
<1>8. ASSUME NEW w \in Workers, Acknowledge(w)
      PROVE  TypeOK'
    BY <1>8 DEF Acknowledge, BecomeIdle
<1>9. ASSUME NEW w \in Workers, WorkerLost(w) \/ ConnectionLost(w)
      PROVE  TypeOK'
    BY <1>5, <1>9 DEF WorkerLost, ConnectionLost, BecomeIdle
<1> QED
    BY <1>1, <1>2, <1>3, <1>4, <1>6, <1>7, <1>8, <1>9 DEF Next, WorkerStep

\* Every step keeps the place of the workers, the rows and the objects in step.
LEMMA ControlStep == TypeOK /\ ControlInv /\ StoredInv /\ [Next]_vars => ControlInv' /\ StoredInv'
<1> SUFFICES ASSUME TypeOK, ControlInv, StoredInv, [Next]_vars PROVE ControlInv' /\ StoredInv'
    OBVIOUS
<1> USE ExportAssumption DEF ExportAssumption, TypeOK, ControlInv, StoredInv, CompletedCanBeFetched,
        rowVars, workerVars, Goto, Return
<1>1. CASE UNCHANGED vars
    BY <1>1 DEF vars
<1>2. ASSUME NEW j \in Jobs, RequestExport(j) \/ EndRequest(j) \/ Expire(j)
      PROVE  ControlInv' /\ StoredInv'
    BY <1>2 DEF RequestExport, EndRequest, CommitRequest, RollbackRequest, Expire
<1>3. CASE CleanupExports
    BY <1>3 DEF CleanupExports
<1>4. ASSUME NEW w \in Workers, Receive(w)
      PROVE  ControlInv' /\ StoredInv'
    BY <1>4 DEF Receive
<1>5. ASSUME NEW w \in Workers, LoadJob(w)
      PROVE  ControlInv' /\ StoredInv'
    BY <1>5 DEF LoadJob
<1>6. ASSUME NEW w \in Workers, MarkProcessing(w)
      PROVE  ControlInv' /\ StoredInv'
    <2>1. job[w] \in Jobs /\ status[job[w]] # "absent"
        BY <1>6 DEF MarkProcessing
    <2> QED
        BY <1>6, <2>1 DEF MarkProcessing, WriteStatus
<1>7. ASSUME NEW w \in Workers, Upload(w)
      PROVE  ControlInv' /\ StoredInv'
    BY <1>7 DEF Upload
<1>8. ASSUME NEW w \in Workers, CompleteJob(w)
      PROVE  ControlInv' /\ StoredInv'
    <2>1. job[w] \in Jobs /\ status[job[w]] # "absent"
        BY <1>8 DEF CompleteJob
    <2> QED
        BY <1>8, <2>1 DEF CompleteJob, WriteStatus
<1>9. ASSUME NEW w \in Workers, Acknowledge(w)
      PROVE  ControlInv' /\ StoredInv'
    BY <1>9 DEF Acknowledge, BecomeIdle
<1>10. ASSUME NEW w \in Workers, BodyRaises(w) \/ WorkerLost(w) \/ ConnectionLost(w)
       PROVE  ControlInv' /\ StoredInv'
    BY <1>10 DEF BodyRaises, InBody, WorkerLost, ConnectionLost, BecomeIdle
<1> QED
    BY <1>1, <1>2, <1>3, <1>4, <1>5, <1>6, <1>7, <1>8, <1>9, <1>10 DEF Next, WorkerStep

-----------------------------------------------------------------------------
(* Without a loss, every task is accounted for.                            *)

Counted == (\A j \in Jobs : Queued(j) /\ Accounted(j))
           /\ \A w \in Workers : phase[w] # "idle" => Working(w)

\* As long as nothing is lost, the message, the worker and the row of a job
\* stay in step.
LEMMA OnceStep == TypeOK /\ ControlInv /\ OnceInv /\ [Next]_vars => OnceInv'
<1> SUFFICES ASSUME TypeOK, ControlInv, OnceInv, [Next]_vars, crashes' = 0 PROVE Counted'
    BY DEF OnceInv, Counted
<1>1. Counted
    <2>1. crashes' = crashes \/ crashes' = crashes + 1
        BY DEF Next, vars, RequestExport, EndRequest, CommitRequest, RollbackRequest, Expire,
            CleanupExports,
           WorkerStep, Receive, LoadJob, MarkProcessing, Upload, CompleteJob, Acknowledge, BodyRaises,
           WorkerLost, ConnectionLost
    <2> QED
        BY <2>1, ExportAssumption DEF ExportAssumption, OnceInv, Counted, TypeOK
<1> USE <1>1 DEF Counted, TypeOK, ControlInv, Queued, Waiting, Working, Accounted, rowVars, workerVars,
        JobStatus, Phases, Goto, Return
<1>2. CASE UNCHANGED vars
    BY <1>2 DEF vars
<1>3. ASSUME NEW j \in Jobs, RequestExport(j)
      PROVE  Counted'
    BY <1>3 DEF RequestExport
<1>4. ASSUME NEW j \in Jobs, CommitRequest(j)
      PROVE  Counted'
    BY <1>4 DEF CommitRequest
<1>5. ASSUME NEW j \in Jobs, RollbackRequest(j)
      PROVE  Counted'
    BY <1>5 DEF RollbackRequest
<1>6. ASSUME NEW j \in Jobs, Expire(j)
      PROVE  Counted'
    BY <1>6 DEF Expire
<1>7. CASE CleanupExports
    BY <1>7 DEF CleanupExports
<1>8. ASSUME NEW w \in Workers, Receive(w)
      PROVE  Counted'
    <2>1. PICK j \in Jobs : /\ queue[j] > 0
                           /\ queue' = [queue EXCEPT ![j] = @ - 1]
                           /\ job' = [job EXCEPT ![w] = j]
        BY <1>8 DEF Receive
    <2>2. queue[j] = 1 /\ Waiting(j)
        BY <2>1
    <2>3. job[w] = NoJob
        BY <1>8 DEF Receive
    <2>4. \A i \in Jobs : Queued(i)'
        BY <1>8, <2>1, <2>2, <2>3 DEF Receive
    <2>5. ASSUME NEW i \in Jobs PROVE Accounted(i)'
        <3>1. CASE i = j
            BY <1>8, <2>1, <2>2, <3>1 DEF Receive
        <3>2. CASE i # j
            <4>1. (\A v \in Workers : job'[v] # i) <=> (\A v \in Workers : job[v] # i)
                BY <2>1, <2>3, <3>2, ExportAssumption DEF ExportAssumption
            <4> QED
                BY <1>8, <2>1, <3>2, <4>1 DEF Receive
        <3> QED
            BY <3>1, <3>2
    <2>6. \A v \in Workers : phase'[v] # "idle" => Working(v)'
        BY <1>8, <2>1, <2>2, <2>3, ExportAssumption DEF Receive, ExportAssumption
    <2> QED
        BY <2>4, <2>5, <2>6
<1>9. ASSUME NEW w \in Workers, LoadJob(w)
      PROVE  Counted'
    BY <1>9 DEF LoadJob, Return, Goto
<1>10. ASSUME NEW w \in Workers, MarkProcessing(w)
      PROVE  Counted'
    BY <1>10 DEF MarkProcessing, WriteStatus
<1>11. ASSUME NEW w \in Workers, Upload(w)
      PROVE  Counted'
    BY <1>11 DEF Upload
<1>12. ASSUME NEW w \in Workers, CompleteJob(w)
      PROVE  Counted'
    BY <1>12 DEF CompleteJob, WriteStatus
<1>13. ASSUME NEW w \in Workers, Acknowledge(w)
      PROVE  Counted'
    <2>1. job[w] \in Jobs /\ Working(w) /\ result[job[w]] # "none"
        BY <1>13 DEF Acknowledge
    <2>2. \A j \in Jobs : Queued(j)'
        BY <1>13, <2>1, ExportAssumption DEF Acknowledge, BecomeIdle, ExportAssumption
    <2>3. ASSUME NEW j \in Jobs PROVE Accounted(j)'
        <3>1. CASE j = job[w]
            BY <1>13, <2>1, <3>1 DEF Acknowledge, BecomeIdle
        <3>2. CASE j # job[w]
            <4>1. (\A v \in Workers : job'[v] # j) <=> (\A v \in Workers : job[v] # j)
                BY <1>13, <3>2, ExportAssumption DEF ExportAssumption, Acknowledge, BecomeIdle
            <4> QED
                BY <1>13, <3>2, <4>1 DEF Acknowledge, BecomeIdle
        <3> QED
            BY <3>1, <3>2
    <2>4. \A v \in Workers : phase'[v] # "idle" => Working(v)'
        BY <1>13, <2>1, ExportAssumption DEF Acknowledge, BecomeIdle, ExportAssumption
    <2> QED
        BY <2>2, <2>3, <2>4
<1>14. ASSUME NEW w \in Workers, BodyRaises(w)
      PROVE  Counted'
    <2>1. job[w] \in Jobs /\ Working(w) /\ phase[w] # "ack"
        BY <1>14 DEF BodyRaises, InBody
    <2>2. status[job[w]] \in {"absent", "pending", "processing"}
        BY <1>14, <2>1 DEF BodyRaises, InBody
    <2>3. \A j \in Jobs : Queued(j)'
        BY <1>14, <2>1 DEF BodyRaises
    <2>4. \A j \in Jobs : Accounted(j)'
        BY <1>14, <2>1, <2>2 DEF BodyRaises
    <2>5. \A v \in Workers : phase'[v] # "idle" => Working(v)'
        BY <1>14, <2>1 DEF BodyRaises
    <2> QED
        BY <2>3, <2>4, <2>5
<1>15. ASSUME NEW w \in Workers, WorkerLost(w) \/ ConnectionLost(w)
      PROVE  FALSE
    BY <1>15, ExportAssumption DEF ExportAssumption, WorkerLost, ConnectionLost
<1> QED
    BY <1>2, <1>3, <1>4, <1>5, <1>6, <1>7, <1>8, <1>9, <1>10, <1>11, <1>12, <1>13, <1>14,
        <1>15 DEF Next, WorkerStep, EndRequest

-----------------------------------------------------------------------------
(* The deliveries of a task.                                               *)

\* The workers on a job are finitely many.
LEMMA AtWorkIsFinite ==
    ASSUME NEW j \in Jobs
    PROVE  IsFiniteSet(AtWork(j)) /\ Cardinality(AtWork(j)) \in Nat
<1>1. AtWork(j) \subseteq Workers /\ IsFiniteSet(Workers)
    BY ExportAssumption DEF ExportAssumption, AtWork
<1> QED
    BY <1>1, FS_Subset, FS_CardinalityType

\* A worker that leaves a job is one less on it.
LEMMA LeavesAJob ==
    ASSUME NEW j \in Jobs, NEW w \in Workers, TypeOK, job[w] = j, job' = [job EXCEPT ![w] = NoJob]
    PROVE  /\ Cardinality(AtWork(j)') = Cardinality(AtWork(j)) - 1
           /\ \A i \in Jobs \ {j} : AtWork(i)' = AtWork(i)
<1>1. w \in AtWork(j) /\ AtWork(j)' = AtWork(j) \ {w}
    BY ExportAssumption DEF ExportAssumption, TypeOK, AtWork
<1>2. \A i \in Jobs \ {j} : AtWork(i)' = AtWork(i)
    BY ExportAssumption DEF ExportAssumption, TypeOK, AtWork
<1> QED
    BY <1>1, <1>2, AtWorkIsFinite, FS_RemoveElement

\* An idle worker that takes a message is one more on its job.
LEMMA TakesAJob ==
    ASSUME NEW j \in Jobs, NEW w \in Workers, TypeOK, job[w] = NoJob, job' = [job EXCEPT ![w] = j]
    PROVE  /\ Cardinality(AtWork(j)') = Cardinality(AtWork(j)) + 1
           /\ \A i \in Jobs \ {j} : AtWork(i)' = AtWork(i)
<1>1. w \notin AtWork(j) /\ AtWork(j)' = AtWork(j) \cup {w}
    BY ExportAssumption DEF ExportAssumption, TypeOK, AtWork
<1>2. \A i \in Jobs \ {j} : AtWork(i)' = AtWork(i)
    BY ExportAssumption DEF ExportAssumption, TypeOK, AtWork
<1> QED
    BY <1>1, <1>2, AtWorkIsFinite, FS_AddElement

\* Taking a message moves a delivery, an acknowledgement ends one, and only a
\* request or a loss adds one.
LEMMA DeliveryStep == TypeOK /\ ControlInv /\ DeliveryInv /\ [Next]_vars => DeliveryInv'
<1> SUFFICES ASSUME TypeOK, ControlInv, DeliveryInv, [Next]_vars PROVE DeliveryInv'
    OBVIOUS
<1> USE DEF TypeOK, DeliveryInv, DeliveriesAreBounded, Deliveries, rowVars, workerVars
<1>1. \A j \in Jobs : /\ queue[j] \in Nat /\ Cardinality(AtWork(j)) \in Nat
                     /\ queue[j] + Cardinality(AtWork(j)) <= 1 + crashes
    BY AtWorkIsFinite
<1>2. crashes \in Nat
    BY ExportAssumption DEF ExportAssumption
<1>3. ASSUME UNCHANGED <<queue, job, crashes>>,
             \A j \in Jobs : request'[j] = "none" => request[j] = "none"
      PROVE  DeliveryInv'
    BY <1>3 DEF AtWork
<1>4. CASE UNCHANGED vars \/ CleanupExports
    BY <1>3, <1>4 DEF vars, CleanupExports
<1>5. ASSUME NEW j \in Jobs, RequestExport(j)
      PROVE  DeliveryInv'
    <2>1. AtWork(j) = {} /\ queue[j] = 0
        BY <1>5 DEF RequestExport, AtWork
    <2>2. Cardinality(AtWork(j)) = 0
        BY <2>1, FS_EmptySet
    <2>3. \A i \in Jobs : AtWork(i)' = AtWork(i)
        BY <1>5 DEF RequestExport, AtWork
    <2>4. queue'[j] \in {0, 1} /\ \A i \in Jobs \ {j} : queue'[i] = queue[i]
        BY <1>5, <2>1 DEF RequestExport
    <2>5. crashes' = crashes
        BY <1>5 DEF RequestExport
    <2>6. ASSUME NEW i \in Jobs PROVE Deliveries(i)' <= 1 + crashes'
        BY <1>1, <1>2, <2>2, <2>3, <2>4, <2>5
    <2> QED
        BY <1>5, <2>6 DEF RequestExport
<1>6. ASSUME NEW j \in Jobs, EndRequest(j) \/ Expire(j)
      PROVE  DeliveryInv'
    BY <1>3, <1>6 DEF EndRequest, CommitRequest, RollbackRequest, Expire
<1>7. ASSUME NEW w \in Workers, LoadJob(w) \/ MarkProcessing(w) \/ Upload(w) \/ CompleteJob(w) \/ BodyRaises(w)
      PROVE  DeliveryInv'
    BY <1>3, <1>7 DEF LoadJob, MarkProcessing, Upload, CompleteJob, BodyRaises, Return, Goto
<1>8. ASSUME NEW w \in Workers, Receive(w)
      PROVE  DeliveryInv'
    <2>1. PICK j \in Jobs : /\ queue[j] > 0
                           /\ queue' = [queue EXCEPT ![j] = @ - 1]
                           /\ job' = [job EXCEPT ![w] = j]
        BY <1>8 DEF Receive
    <2>2. job[w] = NoJob
        BY <1>8 DEF Receive, ControlInv
    <2>3. /\ Cardinality(AtWork(j)') = Cardinality(AtWork(j)) + 1
          /\ \A i \in Jobs \ {j} : AtWork(i)' = AtWork(i)
        BY <2>1, <2>2, TakesAJob
    <2>4. UNCHANGED <<request, crashes>>
        BY <1>8 DEF Receive
    <2>5. DeliveriesAreBounded'
        BY <1>1, <1>2, <2>1, <2>3, <2>4
    <2>6. request[j] # "none"
        BY <2>1
    <2> QED
        BY <2>1, <2>4, <2>5, <2>6
<1>9. ASSUME NEW w \in Workers, Acknowledge(w)
      PROVE  DeliveryInv'
    <2>1. PICK j \in Jobs : job[w] = j
        BY <1>9 DEF Acknowledge, ControlInv
    <2>2. job' = [job EXCEPT ![w] = NoJob] /\ UNCHANGED <<queue, request, crashes>>
        BY <1>9 DEF Acknowledge, BecomeIdle
    <2>3. /\ Cardinality(AtWork(j)') = Cardinality(AtWork(j)) - 1
          /\ \A i \in Jobs \ {j} : AtWork(i)' = AtWork(i)
        BY <2>1, <2>2, LeavesAJob
    <2>4. DeliveriesAreBounded'
        BY <1>1, <1>2, <2>2, <2>3
    <2> QED
        BY <2>2, <2>4, ExportAssumption DEF ExportAssumption
<1>10. ASSUME NEW w \in Workers, WorkerLost(w)
       PROVE  DeliveryInv'
    <2>1. PICK j \in Jobs : job[w] = j
        BY <1>10 DEF WorkerLost, ControlInv
    <2>2. /\ job' = [job EXCEPT ![w] = NoJob] /\ queue' = [queue EXCEPT ![j] = @ + 1]
          /\ UNCHANGED request /\ crashes' = crashes + 1
        BY <1>10, <2>1 DEF WorkerLost, BecomeIdle
    <2>3. /\ Cardinality(AtWork(j)') = Cardinality(AtWork(j)) - 1
          /\ \A i \in Jobs \ {j} : AtWork(i)' = AtWork(i)
        BY <2>1, <2>2, LeavesAJob
    <2>4. DeliveriesAreBounded'
        BY <1>1, <1>2, <2>2, <2>3
    <2>5. request[j] # "none"
        BY <2>1
    <2> QED
        BY <2>2, <2>4, <2>5, ExportAssumption DEF ExportAssumption
<1>11. ASSUME NEW w \in Workers, ConnectionLost(w)
       PROVE  DeliveryInv'
    <2>1. /\ job[w] \in Jobs /\ queue' = [queue EXCEPT ![job[w]] = @ + 1]
          /\ UNCHANGED <<request, job>> /\ crashes' = crashes + 1
        BY <1>11 DEF ConnectionLost, ControlInv
    <2>2. \A i \in Jobs : AtWork(i)' = AtWork(i)
        BY <2>1 DEF AtWork
    <2>3. DeliveriesAreBounded'
        BY <1>1, <1>2, <2>1, <2>2
    <2> QED
        BY <2>1, <2>3
<1> QED
    BY <1>4, <1>5, <1>6, <1>7, <1>8, <1>9, <1>10, <1>11 DEF Next, WorkerStep

-----------------------------------------------------------------------------
(* The theorems.                                                           *)

\* The invariant holds at first.
LEMMA InitInv == Init => Inv
<1> SUFFICES ASSUME Init PROVE Inv
    OBVIOUS
<1>1. TypeOK /\ ControlInv /\ StoredInv /\ OnceInv
    BY ExportAssumption DEF ExportAssumption, Init, TypeOK, ControlInv, StoredInv,
        CompletedCanBeFetched,
       OnceInv, Queued, Waiting, Working, Accounted, JobStatus, Phases
<1>2. \A j \in Jobs : AtWork(j) = {} /\ queue[j] = 0 /\ \A w \in Workers : job[w] # j
    BY ExportAssumption DEF ExportAssumption, Init, AtWork
<1>3. DeliveryInv
    BY <1>2, FS_EmptySet DEF Init, DeliveryInv, DeliveriesAreBounded, Deliveries
<1> QED
    BY <1>1, <1>3 DEF Inv

\* The invariant is inductive.
THEOREM Invariance == Spec => []Inv
<1>1. Inv /\ [Next]_vars => Inv'
    BY TypeStep, ControlStep, OnceStep, DeliveryStep DEF Inv
<1> QED
    BY InitInv, <1>1, PTL DEF Spec

\* Every variable keeps its type.
THEOREM TypeCorrect == Spec => []TypeOK
<1>1. Inv => TypeOK
    BY DEF Inv
<1> QED
    BY Invariance, <1>1, PTL

\* A completed job has its object and its key, whatever is lost or delivered
\* again.
THEOREM CompletedIsFetchable == Spec => []CompletedCanBeFetched
<1>1. Inv => CompletedCanBeFetched
    BY DEF Inv, StoredInv
<1> QED
    BY Invariance, <1>1, PTL

\* Without a loss, a job that nothing works on any more is finished or shows
\* why it is not.
THEOREM LeftoversAreExplained == Spec => []UnfinishedJobsHaveACause
<1>1. Inv => UnfinishedJobsHaveACause
    <2> SUFFICES ASSUME Inv, crashes = 0, NEW j \in Jobs, ~InFlight(j)
                 PROVE  /\ status[j] = "processing" => result[j] = "failed"
                        /\ status[j] = "pending" => result[j] # "key"
                        /\ result[j] = "key" => status[j] \in {"completed", "failed"}
        BY DEF UnfinishedJobsHaveACause
    <2>1. Accounted(j) /\ \A w \in Workers : job[w] # j
        BY DEF Inv, OnceInv, InFlight
    <2> QED
        BY <2>1 DEF Inv, TypeOK, Accounted
<1> QED
    BY Invariance, <1>1, PTL

\* Without a loss, no step takes a finished job back.
THEOREM FinishedIsFinal == Spec => FinishedStaysFinished
<1> DEFINE Kept == \A j \in Jobs : crashes' = 0 =>
              /\ status[j] = "completed" => status'[j] \in {"completed", "failed"}
              /\ status[j] = "failed" => status'[j] = "failed"
<1>1. Inv /\ [Next]_vars => Kept
    <2> SUFFICES ASSUME Inv, [Next]_vars, crashes' = 0 PROVE Kept
        OBVIOUS
    <2>1. CASE UNCHANGED vars
        BY <2>1 DEF vars, rowVars
    <2>2. ASSUME NEW j \in Jobs, RequestExport(j) \/ RollbackRequest(j) \/ Expire(j)
          PROVE  Kept
        BY <2>2 DEF RequestExport, RollbackRequest, Expire, rowVars
    <2>3. ASSUME NEW j \in Jobs, CommitRequest(j)
          PROVE  Kept
        BY <2>3 DEF CommitRequest, Inv, TypeOK, ControlInv
    <2>4. CASE CleanupExports
        BY <2>4 DEF CleanupExports
    <2>5. ASSUME NEW w \in Workers, MarkProcessing(w) \/ CompleteJob(w)
          PROVE  Kept
        <3>1. crashes = 0 /\ job[w] \in Jobs /\ Working(w)
            BY <2>5 DEF MarkProcessing, CompleteJob, Inv, TypeOK, ControlInv, OnceInv
        <3>2. status[job[w]] \in {"pending", "processing"}
            BY <2>5, <3>1 DEF MarkProcessing, CompleteJob, Working
        <3> QED
            BY <2>5, <3>1, <3>2 DEF MarkProcessing, CompleteJob, WriteStatus, Inv, TypeOK
    <2>6. ASSUME NEW w \in Workers, \/ Receive(w) \/ LoadJob(w) \/ Upload(w) \/ Acknowledge(w)
                                   \/ BodyRaises(w) \/ WorkerLost(w) \/ ConnectionLost(w)
          PROVE  Kept
        BY <2>6 DEF Receive, LoadJob, Upload, Acknowledge, BodyRaises, WorkerLost,
            ConnectionLost, rowVars
    <2> QED
        BY <2>1, <2>2, <2>3, <2>4, <2>5, <2>6 DEF Next, EndRequest, WorkerStep
<1> QED
    BY Invariance, <1>1, PTL DEF Spec, FinishedStaysFinished

\* Whatever is lost, a task has no more copies than its request and the losses
\* have given it.
THEOREM DeliveriesAreCounted == Spec => []DeliveriesAreBounded
<1>1. Inv => DeliveriesAreBounded
    BY DEF Inv, DeliveryInv
<1> QED
    BY Invariance, <1>1, PTL

-----------------------------------------------------------------------------
(* The refinement of ExportLifecycle.                                      *)

\* At first nothing is listed.
LEMMA LifecycleInit == Init => Lifecycle!ExportInit
BY DEF Init, Lifecycle!ExportInit

\* Every step is a step of the lifecycle or unseen by the client: without a
\* loss a worker finds the row as its own place says, after one it may reopen it.
LEMMA LifecycleStep == Inv /\ [Next]_vars => [Lifecycle!ExportNext]_(Lifecycle!exportVars)
<1> SUFFICES ASSUME Inv, [Next]_vars
             PROVE  Lifecycle!ExportNext \/ UNCHANGED Lifecycle!exportVars
    OBVIOUS
<1> USE DEF Inv, rowVars, workerVars, Lifecycle!exportVars, Lifecycle!Advance, Lifecycle!Reopen
<1>1. CASE UNCHANGED vars
    BY <1>1 DEF vars
<1>2. ASSUME NEW j \in Jobs, RequestExport(j) \/ RollbackRequest(j) \/ Expire(j)
      PROVE  UNCHANGED Lifecycle!exportVars
    BY <1>2 DEF RequestExport, RollbackRequest, Expire
<1>3. ASSUME NEW j \in Jobs, CommitRequest(j)
      PROVE  Lifecycle!Create(j)
    BY <1>3 DEF CommitRequest, ControlInv, Lifecycle!Create
<1>4. CASE CleanupExports
    <2> DEFINE old == {j \in Jobs : expired[j] /\ status[j] = "completed"}
    <2>1. old \in SUBSET {j \in Jobs : status[j] = "completed"}
        OBVIOUS
    <2>2. status' = [j \in Jobs |-> IF j \in old THEN "failed" ELSE status[j]]
        BY <1>4 DEF CleanupExports
    <2> QED
        BY <1>4, <2>1, <2>2 DEF CleanupExports, Lifecycle!ExportNext, Lifecycle!Lapse
<1>5. ASSUME NEW w \in Workers, Receive(w) \/ LoadJob(w) \/ Acknowledge(w) \/ BodyRaises(w)
      PROVE  UNCHANGED Lifecycle!exportVars
    BY <1>5 DEF Receive, LoadJob, Acknowledge, BodyRaises
<1>6. ASSUME NEW w \in Workers, phase[w] \in {"mark", "upload", "complete"}
      PROVE  /\ job[w] \in Jobs /\ status[job[w]] # "absent"
             /\ crashes > 0 \/ Working(w)
    <2>1. crashes \in Nat
        BY ExportAssumption DEF ExportAssumption, TypeOK
    <2>2. crashes = 0 => Working(w)
        BY <1>6 DEF OnceInv
    <2> QED
        BY <1>6, <2>1, <2>2 DEF ControlInv, TypeOK
<1>7. ASSUME NEW w \in Workers, MarkProcessing(w)
      PROVE  Lifecycle!Build(job[w]) \/ UNCHANGED Lifecycle!exportVars
    <2>1. phase[w] = "mark"
        BY <1>7 DEF MarkProcessing
    <2>2. CASE seen[w] = "processing"
        BY <1>7, <2>2 DEF MarkProcessing, WriteStatus
    <2>3. CASE seen[w] # "processing"
        BY <1>6, <1>7, <2>1, <2>3 DEF MarkProcessing, WriteStatus, Working, Lifecycle!Build
    <2> QED
        BY <2>2, <2>3
<1>8. ASSUME NEW w \in Workers, Upload(w)
      PROVE  Lifecycle!Store(job[w])
    BY <1>6, <1>8 DEF Upload, Lifecycle!Store
<1>9. ASSUME NEW w \in Workers, CompleteJob(w)
      PROVE  Lifecycle!Complete(job[w])
    <2>1. phase[w] = "complete" /\ stored[job[w]]
        BY <1>9 DEF CompleteJob, StoredInv
    <2>2. CASE seen[w] = "completed"
        <3>1. crashes > 0 /\ status[job[w]] # "absent"
            BY <1>6, <2>1, <2>2 DEF Working
        <3>2. status' = [status EXCEPT ![job[w]] = status[job[w]]]
            BY <1>9, <2>2 DEF CompleteJob, WriteStatus, TypeOK
        <3> QED
            BY <1>9, <2>1, <3>1, <3>2 DEF CompleteJob, Lifecycle!Complete
    <2>3. CASE seen[w] # "completed"
        BY <1>6, <1>9, <2>1, <2>3 DEF CompleteJob, WriteStatus, Working, Lifecycle!Complete
    <2> QED
        BY <2>2, <2>3
<1>10. ASSUME NEW w \in Workers, WorkerLost(w) \/ ConnectionLost(w)
       PROVE  Lifecycle!Lose
    BY <1>10 DEF WorkerLost, ConnectionLost, Lifecycle!Lose
<1>11. \A w \in Workers : MarkProcessing(w) \/ Upload(w) \/ CompleteJob(w) => job[w] \in Jobs
    BY <1>6 DEF MarkProcessing, Upload, CompleteJob
<1> QED
    BY <1>1, <1>2, <1>3, <1>4, <1>5, <1>7, <1>8, <1>9, <1>10, <1>11
       DEF Next, WorkerStep, EndRequest, Lifecycle!ExportNext

\* The exports implement ExportLifecycle, for any number of jobs, workers and
\* losses: only a loss ever takes a listed job back.
THEOREM ExportsFollowTheLifecycle == Spec => JobsFollowTheLifecycle
<1> QED
    BY Invariance, LifecycleInit, LifecycleStep, PTL
       DEF Spec, JobsFollowTheLifecycle, Lifecycle!ExportSpec
=============================================================================
