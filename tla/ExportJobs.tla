----------------------------- MODULE ExportJobs ------------------------------
(***************************************************************************)
(* Exports: a request creates a job row and publishes its task before it   *)
(* commits, a worker builds the report and stores it in S3 between two     *)
(* transactions on the row, and a periodic cleanup expires old jobs.       *)
(*                                                                         *)
(* A worker's transaction loads the row in one step and commits in another:*)
(* the session emits an UPDATE only for what it has changed against what   *)
(* it loaded.                                                              *)
(***************************************************************************)
EXTENDS Naturals, FiniteSets

CONSTANTS
    Jobs,        \* ids (UUIDs) of Export rows; one request creates one job
    Workers,     \* processes of the `exports` queue's worker pool
    MaxCrashes,  \* bound on the processes and connections lost
    NoJob        \* what an idle worker executes

ASSUME ExportAssumption == MaxCrashes \in Nat /\ NoJob \notin Jobs /\ IsFiniteSet(Workers)

VARIABLES
    request,     \* the transaction that creates the job
    status,      \* ExportStatusEnum of the row, "absent" before the commit
    hasKey,      \* storage_key is set
    expired,     \* expires_at has passed
    stored,      \* the object is in the bucket
    queue,       \* messages of the job in the broker
    result,      \* what the result backend says of the task
    job, phase, seen,  \* a worker: its message, its place, the status loaded
    crashes

rowVars    == <<status, hasKey>>
workerVars == <<job, phase, seen>>
vars == <<request, rowVars, expired, stored, queue, result, workerVars, crashes>>

JobStatus == {"absent", "pending", "processing", "completed", "failed"}
Phases    == {"idle", "load", "mark", "upload", "reload", "complete", "ack"}

TypeOK ==
    /\ request \in [Jobs -> {"none", "open", "committed", "rolled_back"}]
    /\ status \in [Jobs -> JobStatus]
    /\ hasKey \in [Jobs -> BOOLEAN]
    /\ expired \in [Jobs -> BOOLEAN]
    /\ stored \in [Jobs -> BOOLEAN]
    /\ queue \in [Jobs -> Nat]
    /\ result \in [Jobs -> {"none", "key", "no_job", "failed"}]
    /\ job \in [Workers -> Jobs \cup {NoJob}]
    /\ phase \in [Workers -> Phases]
    /\ seen \in [Workers -> JobStatus]
    /\ crashes \in 0..MaxCrashes

Init ==
    /\ request = [j \in Jobs |-> "none"]
    /\ status = [j \in Jobs |-> "absent"]
    /\ hasKey = [j \in Jobs |-> FALSE]
    /\ expired = [j \in Jobs |-> FALSE]
    /\ stored = [j \in Jobs |-> FALSE]
    /\ queue = [j \in Jobs |-> 0]
    /\ result = [j \in Jobs |-> "none"]
    /\ job = [w \in Workers |-> NoJob]
    /\ phase = [w \in Workers |-> "idle"]
    /\ seen = [w \in Workers |-> "absent"]
    /\ crashes = 0

-----------------------------------------------------------------------------
(* The request and the passing of time.                                    *)

\* create_job, then delay(...): a broker that is down is ignored.
RequestExport(j) ==
    /\ request[j] = "none"
    /\ request' = [request EXCEPT ![j] = "open"]
    /\ \/ queue' = [queue EXCEPT ![j] = @ + 1]
       \/ UNCHANGED queue
    /\ UNCHANGED <<rowVars, expired, stored, result, workerVars, crashes>>

\* Faulty variant: the job begins with a stage of the analysis.
CommitRequestQueued(j) ==
    /\ request[j] = "open"
    /\ request' = [request EXCEPT ![j] = "committed"]
    /\ status' = [status EXCEPT ![j] = "queued"]
    /\ UNCHANGED <<hasKey, expired, stored, queue, result, workerVars, crashes>>

\* The endpoint's db.commit() makes the row visible, as PENDING.
CommitRequest(j) ==
    /\ request[j] = "open"
    /\ request' = [request EXCEPT ![j] = "committed"]
    /\ status' = [status EXCEPT ![j] = "pending"]
    /\ UNCHANGED <<hasKey, expired, stored, queue, result, workerVars, crashes>>

\* An error after the task was published; the task stays.
RollbackRequest(j) ==
    /\ request[j] = "open"
    /\ request' = [request EXCEPT ![j] = "rolled_back"]
    /\ UNCHANGED <<rowVars, expired, stored, queue, result, workerVars, crashes>>

\* Seven days go by.
Expire(j) ==
    /\ request[j] = "committed" /\ ~expired[j]
    /\ expired' = [expired EXCEPT ![j] = TRUE]
    /\ UNCHANGED <<request, rowVars, stored, queue, result, workerVars, crashes>>

\* Faulty variant: the WHERE clause asks for the date alone.
CleanupExportsByDate ==
    /\ \E j \in Jobs : expired[j] /\ status[j] # "absent"
    /\ status' = [j \in Jobs |->
                    IF expired[j] /\ status[j] # "absent" THEN "failed" ELSE status[j]]
    /\ UNCHANGED <<request, hasKey, expired, stored, queue, result, workerVars, crashes>>

\* _cleanup_exports, one UPDATE: completed jobs past their date become FAILED
\* with the message "expired". Key and object stay.
CleanupExports ==
    /\ \E j \in Jobs : expired[j] /\ status[j] = "completed"
    /\ status' = [j \in Jobs |->
                    IF expired[j] /\ status[j] = "completed" THEN "failed" ELSE status[j]]
    /\ UNCHANGED <<request, hasKey, expired, stored, queue, result, workerVars, crashes>>

-----------------------------------------------------------------------------
(* The task: export_repository_report.                                     *)

Goto(w, p) == phase' = [phase EXCEPT ![w] = p]

Return(w, outcome) ==
    /\ result' = [result EXCEPT ![job[w]] = outcome]
    /\ Goto(w, "ack")

\* A worker process takes a message; it is acknowledged only at the end.
Receive(w) ==
    /\ phase[w] = "idle"
    /\ \E j \in Jobs :
          /\ queue[j] > 0
          /\ queue' = [queue EXCEPT ![j] = @ - 1]
          /\ job' = [job EXCEPT ![w] = j]
    /\ Goto(w, "load")
    /\ UNCHANGED <<request, rowVars, expired, stored, result, seen, crashes>>

\* Both transactions of _build load the row first; without it nothing is done.
LoadJob(w) ==
    /\ phase[w] \in {"load", "reload"}
    /\ IF status[job[w]] = "absent"
       THEN Return(w, "no_job") /\ UNCHANGED seen
       ELSE /\ seen' = [seen EXCEPT ![w] = status[job[w]]]
            /\ Goto(w, IF phase[w] = "load" THEN "mark" ELSE "complete")
            /\ UNCHANGED result
    /\ UNCHANGED <<request, rowVars, expired, stored, queue, job, crashes>>

\* The session writes a status only if it differs from the one it loaded.
WriteStatus(w, new) ==
    status' = IF seen[w] = new THEN status ELSE [status EXCEPT ![job[w]] = new]

\* The first commit of _build.
MarkProcessing(w) ==
    /\ phase[w] = "mark"
    /\ WriteStatus(w, "processing")
    /\ Goto(w, "upload")
    /\ UNCHANGED <<request, hasKey, expired, stored, queue, result, job, seen, crashes>>

\* upload_stream. The key is that of the job, so a second upload replaces it.
Upload(w) ==
    /\ phase[w] = "upload"
    /\ stored' = [stored EXCEPT ![job[w]] = TRUE]
    /\ Goto(w, "reload")
    /\ UNCHANGED <<request, rowVars, expired, queue, result, job, seen, crashes>>

\* COMPLETED, the key, the size and the time in one commit.
CompleteJob(w) ==
    /\ phase[w] = "complete"
    /\ WriteStatus(w, "completed")
    /\ hasKey' = [hasKey EXCEPT ![job[w]] = TRUE]
    /\ Return(w, "key")
    /\ UNCHANGED <<request, expired, stored, queue, job, seen, crashes>>

BecomeIdle(w) ==
    /\ job' = [job EXCEPT ![w] = NoJob]
    /\ seen' = [seen EXCEPT ![w] = "absent"]
    /\ Goto(w, "idle")

\* task_acks_late.
Acknowledge(w) ==
    /\ phase[w] = "ack"
    /\ BecomeIdle(w)
    /\ UNCHANGED <<request, rowVars, expired, stored, queue, result, crashes>>

InBody(w) == phase[w] \notin {"idle", "ack"}

\* Faulty variant: the failed task is published again.
BodyRaisesAndRetries(w) ==
    /\ InBody(w)
    /\ queue' = [queue EXCEPT ![job[w]] = @ + 1]
    /\ Goto(w, "ack")
    /\ UNCHANGED <<request, rowVars, expired, stored, result, job, seen, crashes>>

\* Faulty variant: the task swallows the exception.
BodyRaisesSwallowed(w) ==
    /\ InBody(w)
    /\ Return(w, "no_job")
    /\ UNCHANGED <<request, rowVars, expired, stored, queue, job, seen, crashes>>

\* S3, the database or a time limit ends the body. The task has no retry, and
\* nothing is written to the row.
BodyRaises(w) ==
    /\ InBody(w)
    /\ Return(w, "failed")
    /\ UNCHANGED <<request, rowVars, expired, stored, queue, job, seen, crashes>>

\* The message of a lost process is delivered again.
WorkerLost(w) ==
    /\ phase[w] # "idle"
    /\ crashes < MaxCrashes
    /\ crashes' = crashes + 1
    /\ queue' = [queue EXCEPT ![job[w]] = @ + 1]
    /\ BecomeIdle(w)
    /\ UNCHANGED <<request, rowVars, expired, stored, result>>

\* A worker that loses its connection to the broker works on, but can no
\* longer acknowledge: the message is delivered again meanwhile.
ConnectionLost(w) ==
    /\ phase[w] # "idle"
    /\ crashes < MaxCrashes
    /\ crashes' = crashes + 1
    /\ queue' = [queue EXCEPT ![job[w]] = @ + 1]
    /\ UNCHANGED <<request, rowVars, expired, stored, result, workerVars>>

-----------------------------------------------------------------------------
EndRequest(j) == CommitRequest(j) \/ RollbackRequest(j)

WorkerStep(w) ==
    \/ Receive(w) \/ LoadJob(w) \/ MarkProcessing(w) \/ Upload(w)
    \/ CompleteJob(w) \/ Acknowledge(w)

Next ==
    \/ \E j \in Jobs : RequestExport(j) \/ EndRequest(j) \/ Expire(j)
    \/ CleanupExports
    \/ \E w \in Workers : \/ WorkerStep(w) \/ BodyRaises(w)
                         \/ WorkerLost(w) \/ ConnectionLost(w)

Spec == Init /\ [][Next]_vars

\* Requests end, live workers go on. Time, the cleanup and faults owe nothing.
Fairness ==
    /\ \A j \in Jobs : WF_vars(EndRequest(j))
    /\ \A w \in Workers : WF_vars(WorkerStep(w))

FairSpec == Spec /\ Fairness

-----------------------------------------------------------------------------
(* Properties.                                                             *)

\* A completed job can be fetched: its object was stored and its row names
\* it, also when several deliveries of the task and the cleanup interleave.
CompletedCanBeFetched ==
    \A j \in Jobs : status[j] = "completed" => stored[j] /\ hasKey[j]

\* As long as no process or connection is lost, a finished job is never reopened: it
\* stays completed until it expires, and expired after that.
FinishedStaysFinished ==
    [][\A j \in Jobs : crashes' = 0 =>
          /\ status[j] = "completed" => status'[j] \in {"completed", "failed"}
          /\ status[j] = "failed" => status'[j] = "failed"]_vars

InFlight(j) == queue[j] > 0 \/ \E w \in Workers : job[w] = j

\* What is left when nothing of the job is in flight and none was lost:
\* a job still PROCESSING had its build fail, one still PENDING was never
\* built (never published, failed early, or its task overtook the commit).
UnfinishedJobsHaveACause ==
    crashes = 0 => \A j \in Jobs : ~InFlight(j) =>
        /\ status[j] = "processing" => result[j] = "failed"
        /\ status[j] = "pending" => result[j] # "key"
        /\ result[j] = "key" => status[j] \in {"completed", "failed"}

\* A task is delivered once for its request and once more for each loss: the
\* copies of its message, waiting or at work, are never more than that.
AtWork(j) == {w \in Workers : job[w] = j}

Deliveries(j) == queue[j] + Cardinality(AtWork(j))

DeliveriesAreBounded == \A j \in Jobs : Deliveries(j) <= 1 + crashes

\* However the requests, the workers and the cleanup interleave, what a client
\* sees of its jobs is what ExportLifecycle allows.
Lifecycle == INSTANCE ExportLifecycle WITH
    row    <- status,
    named  <- hasKey,
    object <- stored,
    losses <- crashes

JobsFollowTheLifecycle == Lifecycle!ExportSpec

\* Every task comes to an end.
ExportsEnd == \A j \in Jobs : InFlight(j) ~> ~InFlight(j)
=============================================================================
