-------------------------- MODULE AnalysisPipeline --------------------------
(***************************************************************************)
(* The repository analysis pipeline of RepoInfo-backend: the API requests  *)
(* that create analysis runs, the Celery broker that carries one task per  *)
(* run, the worker processes that execute `analyze_repository`, and the    *)
(* Postgres tables all of them share.                                      *)
(*                                                                         *)
(* One action is one database transaction (or one broker or service call). *)
(* A request's transaction stays open from its first flush to the commit   *)
(* of its endpoint, and the task is published in between; a worker runs    *)
(* every `db_session_ctx` block as a transaction of its own.               *)
(***************************************************************************)
EXTENDS Naturals

CONSTANTS
    Repos,       \* ids (UUIDs) of repository rows
    Runs,        \* ids of RepositoryAnalysis rows; one request creates one run
    Workers,     \* processes of the `analysis` queue's worker pool
    MaxRetries,  \* max_retries of the task
    MaxCrashes,  \* bound on the processes and connections lost
    NoRepo,      \* the target of a run nobody has asked for yet
    NoTask       \* what an idle worker executes

Messages == [run : Runs, retries : 0..MaxRetries]

ASSUME BoundsAssumption == MaxRetries \in Nat /\ MaxCrashes \in Nat
ASSUME NullsAssumption  == NoRepo \notin Repos /\ NoTask \notin Messages

-----------------------------------------------------------------------------
(* ProcessingStageEnum, as the `sequence` numbers create_run gives to the  *)
(* steps of PROCESSING_SEQUENCE. FAILED is an enum value without a step.   *)

QUEUED == 0
CLONING == 1
INDEXING == 2
STRUCTURE == 3
DEPENDENCIES == 4
SECURITY == 5
EMBEDDINGS == 6
GRAPH == 7
COMPLETED == 8
FAILED == 9

PROCESSING_SEQUENCE == QUEUED..COMPLETED
Stages == PROCESSING_SEQUENCE \cup {FAILED}

StepStatus    == {"pending", "in_progress", "completed", "failed"}
RequestStates == {"none", "open", "committed", "rolled_back"}
RequestKinds  == {"none", "add", "reprocess"}
RepoRows      == {"absent", "live", "deleted"}
SearchDocs    == {"none", "without_language", "with_language"}
Results       == {"none", "ok", "failed"}
Phases        == {"idle", "load", "start", "work", "search_index", "finish",
                  "clone_failed", "publish", "ack"}

VARIABLES
    \* requests, indexed by the run they create
    request, kind, target, rowWritten,
    \* rows of the repository and of its runs
    repoRow, repoStage, lastAnalyzed, runStage, completedAt, steps,
    \* what the pipeline produces for a repository
    fileSets, architecture, dependencies, reports, metrics,
    embedJobs, searchDoc,
    \* the broker and the result backend
    queue, result,
    \* worker processes
    task, phase, stage, sawLanguage, crashes

requestVars  == <<request, kind, target, rowWritten>>
progressVars == <<repoStage, lastAnalyzed, runStage, completedAt, steps>>
artefactVars == <<fileSets, architecture, dependencies, reports, metrics,
                  embedJobs, searchDoc>>
brokerVars   == <<queue, result>>
workerVars   == <<task, phase, stage, sawLanguage>>
vars == <<requestVars, repoRow, progressVars, artefactVars, brokerVars,
          workerVars, crashes>>

TypeOK ==
    /\ request \in [Runs -> RequestStates]
    /\ kind \in [Runs -> RequestKinds]
    /\ target \in [Runs -> Repos \cup {NoRepo}]
    /\ rowWritten \in [Runs -> BOOLEAN]
    /\ repoRow \in [Repos -> RepoRows]
    /\ repoStage \in [Repos -> Stages]
    /\ lastAnalyzed \in [Repos -> BOOLEAN]
    /\ runStage \in [Runs -> Stages]
    /\ completedAt \in [Runs -> BOOLEAN]
    /\ steps \in [Runs -> [PROCESSING_SEQUENCE -> StepStatus]]
    /\ fileSets \in [Repos -> Nat]
    /\ architecture \in [Repos -> BOOLEAN]
    /\ dependencies \in [Repos -> BOOLEAN]
    /\ reports \in [Repos -> Nat]
    /\ metrics \in [Repos -> BOOLEAN]
    /\ embedJobs \in [Repos -> Nat]
    /\ searchDoc \in [Repos -> SearchDocs]
    /\ queue \in [Messages -> Nat]
    /\ result \in [Runs -> Results]
    /\ task \in [Workers -> Messages \cup {NoTask}]
    /\ phase \in [Workers -> Phases]
    /\ stage \in [Workers -> PROCESSING_SEQUENCE]
    /\ sawLanguage \in [Workers -> BOOLEAN]
    /\ crashes \in 0..MaxCrashes

Init ==
    /\ request = [a \in Runs |-> "none"]
    /\ kind = [a \in Runs |-> "none"]
    /\ target = [a \in Runs |-> NoRepo]
    /\ rowWritten = [a \in Runs |-> FALSE]
    /\ repoRow = [r \in Repos |-> "absent"]
    /\ repoStage = [r \in Repos |-> QUEUED]
    /\ lastAnalyzed = [r \in Repos |-> FALSE]
    /\ runStage = [a \in Runs |-> QUEUED]
    /\ completedAt = [a \in Runs |-> FALSE]
    /\ steps = [a \in Runs |-> [s \in PROCESSING_SEQUENCE |-> "pending"]]
    /\ fileSets = [r \in Repos |-> 0]
    /\ architecture = [r \in Repos |-> FALSE]
    /\ dependencies = [r \in Repos |-> FALSE]
    /\ reports = [r \in Repos |-> 0]
    /\ metrics = [r \in Repos |-> FALSE]
    /\ embedJobs = [r \in Repos |-> 0]
    /\ searchDoc = [r \in Repos |-> "none"]
    /\ queue = [m \in Messages |-> 0]
    /\ result = [a \in Runs |-> "none"]
    /\ task = [w \in Workers |-> NoTask]
    /\ phase = [w \in Workers |-> "idle"]
    /\ stage = [w \in Workers |-> QUEUED]
    /\ sawLanguage = [w \in Workers |-> FALSE]
    /\ crashes = 0

-----------------------------------------------------------------------------
(* API requests.                                                           *)

\* A request that has issued UPDATE repositories holds the row's lock until
\* its transaction ends.
RowLocked(r) == \E a \in Runs : target[a] = r /\ rowWritten[a]

\* analyze_repository.delay(...): with the broker down the exception is
\* swallowed and the request goes on without a task.
Delay(a) ==
    \/ queue' = [queue EXCEPT ![[run |-> a, retries |-> 0]] = @ + 1]
    \/ UNCHANGED queue

OpenRequest(a, k, r, wrote) ==
    /\ request[a] = "none"
    /\ request' = [request EXCEPT ![a] = "open"]
    /\ kind' = [kind EXCEPT ![a] = k]
    /\ target' = [target EXCEPT ![a] = r]
    /\ rowWritten' = [rowWritten EXCEPT ![a] = wrote]

\* RepositoryService.add: a row with a fresh id, its first run, the task.
AddRepository(a, r) ==
    /\ \A b \in Runs : target[b] # r
    /\ OpenRequest(a, "add", r, FALSE)
    /\ Delay(a)
    /\ UNCHANGED <<repoRow, progressVars, artefactVars, result, workerVars, crashes>>

\* RepositoryService.reprocess: processing_stage goes back to QUEUED (an
\* UPDATE only if it was something else), a new run, the task.
Reprocess(a, r) ==
    /\ repoRow[r] = "live"
    /\ repoStage[r] # QUEUED => ~RowLocked(r)
    /\ OpenRequest(a, "reprocess", r, repoStage[r] # QUEUED)
    /\ Delay(a)
    /\ UNCHANGED <<repoRow, progressVars, artefactVars, result, workerVars, crashes>>

\* The endpoint's db.commit(): the rows of the request become visible. A
\* request that has updated the repository row cannot get here: the UPDATE
\* expires updated_at, and _to_out, which runs outside SQLAlchemy's greenlet,
\* raises when it reads it.
CommitRequest(a) ==
    /\ request[a] = "open"
    /\ ~rowWritten[a]
    /\ request' = [request EXCEPT ![a] = "committed"]
    /\ repoRow' = IF kind[a] = "add"
                  THEN [repoRow EXCEPT ![target[a]] = "live"]
                  ELSE repoRow
    /\ UNCHANGED <<kind, target, rowWritten, progressVars, artefactVars,
                   brokerVars, workerVars, crashes>>

\* An exception after the task was published (in the response's own queries,
\* its serialisation, the commit): get_db rolls back, the task stays.
RollbackRequest(a) ==
    /\ request[a] = "open"
    /\ request' = [request EXCEPT ![a] = "rolled_back"]
    /\ rowWritten' = [rowWritten EXCEPT ![a] = FALSE]
    /\ UNCHANGED <<kind, target, repoRow, progressVars, artefactVars,
                   brokerVars, workerVars, crashes>>

\* RepositoryService.delete: soft deletion; the rows stay.
DeleteRepository(r) ==
    /\ repoRow[r] = "live"
    /\ ~RowLocked(r)
    /\ repoRow' = [repoRow EXCEPT ![r] = "deleted"]
    /\ UNCHANGED <<requestVars, progressVars, artefactVars, brokerVars, workerVars, crashes>>

-----------------------------------------------------------------------------
(* Helpers of the task body.                                               *)

Run(w)  == task[w].run
Repo(w) == target[Run(w)]

At(w, s, p) == phase[w] = p /\ stage[w] = s

Goto(w, s, p) ==
    /\ phase' = [phase EXCEPT ![w] = p]
    /\ stage' = [stage EXCEPT ![w] = s]
    /\ UNCHANGED <<task, sawLanguage>>

BecomeIdle(w) ==
    /\ phase' = [phase EXCEPT ![w] = "idle"]
    /\ stage' = [stage EXCEPT ![w] = QUEUED]
    /\ task' = [task EXCEPT ![w] = NoTask]
    /\ sawLanguage' = [sawLanguage EXCEPT ![w] = FALSE]

\* `_advance_step` finds the row of (analysis, stage).
HasStep(a, s) == request[a] = "committed" /\ s \in PROCESSING_SEQUENCE

\* `_advance_step`: without the row it returns early; with it the step, the
\* run and the repository move together in one transaction.
AdvanceStep(a, s, status) ==
    IF ~HasStep(a, s)
    THEN UNCHANGED progressVars
    ELSE LET r == target[a] IN
         /\ repoStage[r] # s \/ s = COMPLETED => ~RowLocked(r)
         /\ steps' = [steps EXCEPT ![a][s] = status]
         /\ runStage' = [runStage EXCEPT ![a] = s]
         /\ completedAt' = [completedAt EXCEPT
                ![a] = @ \/ (s = COMPLETED /\ status = "completed")]
         /\ repoStage' = [repoStage EXCEPT ![r] = s]
         /\ lastAnalyzed' = [lastAnalyzed EXCEPT ![r] = @ \/ s = COMPLETED]

\* The task body returns or raises; the message is still unacknowledged.
Return(w, outcome) ==
    /\ result' = [result EXCEPT ![Run(w)] = outcome]
    /\ Goto(w, QUEUED, "ack")

\* Faulty variant: the retry is published, but the body goes on.
RetryWithoutRaise(w) ==
    LET n == task[w].retries IN
    IF n < MaxRetries
    THEN /\ queue' = [queue EXCEPT ![[run |-> Run(w), retries |-> n + 1]] = @ + 1]
         /\ Goto(w, CLONING, "start")
         /\ UNCHANGED result
    ELSE /\ Return(w, "failed")
         /\ UNCHANGED queue

\* Faulty variant: the retry is published without counting it.
RetryUncounted(w) ==
    /\ queue' = [queue EXCEPT ![task[w]] = @ + 1]
    /\ Goto(w, QUEUED, "ack")
    /\ UNCHANGED result

\* Any exception reaches analyze_repository: self.retry publishes the next
\* attempt of the same task, or fails it once the retries are used up.
Retry(w) ==
    LET n == task[w].retries IN
    IF n < MaxRetries
    THEN /\ queue' = [queue EXCEPT ![[run |-> Run(w), retries |-> n + 1]] = @ + 1]
         /\ Goto(w, QUEUED, "ack")
         /\ UNCHANGED result
    ELSE /\ Return(w, "failed")
         /\ UNCHANGED queue

-----------------------------------------------------------------------------
(* The task body: _run_pipeline.                                           *)

\* A worker process receives a message (acknowledged only when it is done).
Receive(w) ==
    /\ phase[w] = "idle"
    /\ \E m \in Messages :
          /\ queue[m] > 0
          /\ queue' = [queue EXCEPT ![m] = @ - 1]
          /\ task' = [task EXCEPT ![w] = m]
    /\ phase' = [phase EXCEPT ![w] = "load"]
    /\ UNCHANGED <<stage, sawLanguage, requestVars, repoRow, progressVars,
                   artefactVars, result, crashes>>

\* Faulty variant: the missing repository row is not noticed.
LoadRepositoryUnchecked(w) ==
    /\ phase[w] = "load"
    /\ Goto(w, CLONING, "start")
    /\ UNCHANGED <<requestVars, repoRow, progressVars, artefactVars, brokerVars, crashes>>

\* The repository row is loaded once; without one the task returns quietly.
\* The object it loads is used again by the search index at the end.
LoadRepository(w) ==
    /\ phase[w] = "load"
    /\ IF repoRow[Repo(w)] = "absent"
       THEN Return(w, "ok")
       ELSE /\ phase' = [phase EXCEPT ![w] = "start"]
            /\ stage' = [stage EXCEPT ![w] = CLONING]
            /\ sawLanguage' = [sawLanguage EXCEPT ![w] = fileSets[Repo(w)] > 0]
            /\ UNCHANGED <<task, result>>
    /\ UNCHANGED <<requestVars, repoRow, progressVars, artefactVars, queue, crashes>>

\* _advance_step(stage, IN_PROGRESS). BUILDING_GRAPH has no work of its own.
StartStage(w) ==
    /\ phase[w] = "start"
    /\ AdvanceStep(Run(w), stage[w], "in_progress")
    /\ Goto(w, stage[w], IF stage[w] = GRAPH THEN "finish" ELSE "work")
    /\ UNCHANGED <<requestVars, repoRow, artefactVars, brokerVars, crashes>>

\* Faulty variant: the loop over the stages runs one stage too far.
FinishStageOffByOne(w) ==
    /\ phase[w] = "finish"
    /\ AdvanceStep(Run(w), stage[w], "completed")
    /\ Goto(w, stage[w] + 1, IF stage[w] = GRAPH THEN "work" ELSE "start")
    /\ UNCHANGED <<requestVars, repoRow, artefactVars, brokerVars, crashes>>

\* Faulty variant: the metrics are forgotten after BUILDING_GRAPH.
FinishStageWithoutMetrics(w) ==
    /\ phase[w] = "finish"
    /\ AdvanceStep(Run(w), stage[w], "completed")
    /\ CASE stage[w] = COMPLETED -> Goto(w, COMPLETED, "publish")
         [] stage[w] = GRAPH     -> Goto(w, COMPLETED, "search_index")
         [] OTHER                -> Goto(w, stage[w] + 1, "start")
    /\ UNCHANGED <<requestVars, repoRow, artefactVars, brokerVars, crashes>>

\* _advance_step(stage, COMPLETED), then the next stage. COMPLETED itself is
\* never started: after BUILDING_GRAPH come the metrics.
FinishStage(w) ==
    /\ phase[w] = "finish"
    /\ AdvanceStep(Run(w), stage[w], "completed")
    /\ CASE stage[w] = COMPLETED -> Goto(w, COMPLETED, "publish")
         [] stage[w] = GRAPH     -> Goto(w, COMPLETED, "work")
         [] OTHER                -> Goto(w, stage[w] + 1, "start")
    /\ UNCHANGED <<requestVars, repoRow, artefactVars, brokerVars, crashes>>

\* The clone into the work directory succeeds.
Clone(w) ==
    /\ At(w, CLONING, "work")
    /\ Goto(w, CLONING, "finish")
    /\ UNCHANGED <<requestVars, repoRow, progressVars, artefactVars, brokerVars, crashes>>

\* GitCommandError: the stage is marked FAILED ...
CloneFails(w) ==
    /\ At(w, CLONING, "work")
    /\ AdvanceStep(Run(w), CLONING, "failed")
    /\ Goto(w, CLONING, "clone_failed")
    /\ UNCHANGED <<requestVars, repoRow, artefactVars, brokerVars, crashes>>

\* ... then the FAILED stage, which has no step, and the task returns.
ReportFailure(w) ==
    /\ phase[w] = "clone_failed"
    /\ AdvanceStep(Run(w), FAILED, "failed")
    /\ Return(w, "ok")
    /\ UNCHANGED <<requestVars, repoRow, artefactVars, queue, crashes>>

\* INDEXING inserts one row per file and directory. branch_id is NULL, so the
\* unique constraint on the path never rejects a second set of rows.
WriteFiles(w) ==
    /\ At(w, INDEXING, "work")
    /\ fileSets' = [fileSets EXCEPT ![Repo(w)] = @ + 1]
    /\ Goto(w, INDEXING, "finish")
    /\ UNCHANGED <<requestVars, repoRow, progressVars, architecture, dependencies,
                   reports, metrics, embedJobs, searchDoc, brokerVars, crashes>>

\* Faulty variant: the architecture row is replaced instead of inserted.
WriteArchitectureUpsert(w) ==
    /\ At(w, STRUCTURE, "work")
    /\ architecture' = [architecture EXCEPT ![Repo(w)] = TRUE]
    /\ Goto(w, STRUCTURE, "finish")
    /\ UNCHANGED <<requestVars, repoRow, progressVars, fileSets, dependencies,
                   reports, metrics, embedJobs, searchDoc, brokerVars, crashes>>

\* Faulty variant: a conflict is taken to mean that the analysis is done, and
\* the task skips to the search index.
WriteArchitectureSkipsToEnd(w) ==
    /\ At(w, STRUCTURE, "work")
    /\ architecture' = [architecture EXCEPT ![Repo(w)] = TRUE]
    /\ IF architecture[Repo(w)]
       THEN Goto(w, COMPLETED, "search_index")
       ELSE Goto(w, STRUCTURE, "finish")
    /\ UNCHANGED <<requestVars, repoRow, progressVars, fileSets, dependencies,
                   reports, metrics, embedJobs, searchDoc, brokerVars, crashes>>

\* Faulty variant: a conflict is swallowed and the task returns quietly.
WriteArchitectureGivesUp(w) ==
    /\ At(w, STRUCTURE, "work")
    /\ architecture' = [architecture EXCEPT ![Repo(w)] = TRUE]
    /\ IF architecture[Repo(w)]
       THEN Return(w, "ok")
       ELSE Goto(w, STRUCTURE, "finish") /\ UNCHANGED result
    /\ UNCHANGED <<requestVars, repoRow, progressVars, fileSets, dependencies,
                   reports, metrics, embedJobs, searchDoc, queue, crashes>>

\* ANALYZING_STRUCTURE inserts the architecture row, unique per repository: a
\* second insert raises IntegrityError.
WriteArchitecture(w) ==
    /\ At(w, STRUCTURE, "work")
    /\ IF architecture[Repo(w)]
       THEN Retry(w) /\ UNCHANGED architecture
       ELSE /\ architecture' = [architecture EXCEPT ![Repo(w)] = TRUE]
            /\ Goto(w, STRUCTURE, "finish")
            /\ UNCHANGED brokerVars
    /\ UNCHANGED <<requestVars, repoRow, progressVars, fileSets, dependencies,
                   reports, metrics, embedJobs, searchDoc, crashes>>

\* ANALYZING_DEPENDENCIES inserts what the manifests name, possibly nothing;
\* the rows are unique per (repository, name, ecosystem).
WriteDependencies(w) ==
    /\ At(w, DEPENDENCIES, "work")
    /\ \E found \in BOOLEAN :
          IF found /\ dependencies[Repo(w)]
          THEN Retry(w) /\ UNCHANGED dependencies
          ELSE /\ dependencies' = [dependencies EXCEPT ![Repo(w)] = @ \/ found]
               /\ Goto(w, DEPENDENCIES, "finish")
               /\ UNCHANGED brokerVars
    /\ UNCHANGED <<requestVars, repoRow, progressVars, fileSets, architecture,
                   reports, metrics, embedJobs, searchDoc, crashes>>

\* ANALYZING_SECURITY inserts a report with is_latest = TRUE; no code clears
\* the flag of an older one.
WriteReport(w) ==
    /\ At(w, SECURITY, "work")
    /\ reports' = [reports EXCEPT ![Repo(w)] = @ + 1]
    /\ Goto(w, SECURITY, "finish")
    /\ UNCHANGED <<requestVars, repoRow, progressVars, fileSets, architecture,
                   dependencies, metrics, embedJobs, searchDoc, brokerVars, crashes>>

\* GENERATING_EMBEDDINGS publishes another task; a broker error is swallowed.
ScheduleEmbeddings(w) ==
    /\ At(w, EMBEDDINGS, "work")
    /\ \/ embedJobs' = [embedJobs EXCEPT ![Repo(w)] = @ + 1]
       \/ UNCHANGED embedJobs
    /\ Goto(w, EMBEDDINGS, "finish")
    /\ UNCHANGED <<requestVars, repoRow, progressVars, fileSets, architecture,
                   dependencies, reports, metrics, searchDoc, brokerVars, crashes>>

\* The metrics row, unique per repository as well.
WriteMetrics(w) ==
    /\ At(w, COMPLETED, "work")
    /\ IF metrics[Repo(w)]
       THEN Retry(w) /\ UNCHANGED metrics
       ELSE /\ metrics' = [metrics EXCEPT ![Repo(w)] = TRUE]
            /\ Goto(w, COMPLETED, "search_index")
            /\ UNCHANGED brokerVars
    /\ UNCHANGED <<requestVars, repoRow, progressVars, fileSets, architecture,
                   dependencies, reports, embedJobs, searchDoc, crashes>>

\* The Elasticsearch document is built from the repository object loaded at
\* the start, so its language is the one known then; errors are swallowed.
IndexForSearch(w) ==
    /\ phase[w] = "search_index"
    /\ \/ searchDoc' = [searchDoc EXCEPT ![Repo(w)] =
              IF sawLanguage[w] THEN "with_language" ELSE "without_language"]
       \/ UNCHANGED searchDoc
    /\ Goto(w, COMPLETED, "finish")
    /\ UNCHANGED <<requestVars, repoRow, progressVars, fileSets, architecture,
                   dependencies, reports, metrics, embedJobs, brokerVars, crashes>>

\* The last tick on the progress channel, then the task returns.
PublishCompleted(w) ==
    /\ phase[w] = "publish"
    /\ Return(w, "ok")
    /\ UNCHANGED <<requestVars, repoRow, progressVars, artefactVars, queue, crashes>>

\* task_acks_late: the message goes away after the body has ended.
Acknowledge(w) ==
    /\ phase[w] = "ack"
    /\ BecomeIdle(w)
    /\ UNCHANGED <<requestVars, repoRow, progressVars, artefactVars, brokerVars, crashes>>

-----------------------------------------------------------------------------
(* Failures.                                                               *)

InBody(w) == phase[w] \notin {"idle", "ack"}

\* Any other exception of the body: Postgres or Redis unreachable, a publish
\* that fails, an error of the scanners, the soft time limit.
BodyRaises(w) ==
    /\ InBody(w)
    /\ Retry(w)
    /\ UNCHANGED <<requestVars, repoRow, progressVars, artefactVars, crashes>>

\* The hard time limit kills the body; the message is acknowledged.
HardTimeLimit(w) ==
    /\ InBody(w)
    /\ result' = [result EXCEPT ![Run(w)] = "failed"]
    /\ BecomeIdle(w)
    /\ UNCHANGED <<requestVars, repoRow, progressVars, artefactVars, queue, crashes>>

\* task_reject_on_worker_lost: the message of a lost process is delivered
\* again, with the retries it had, also when only the acknowledgement was
\* missing.
WorkerLost(w) ==
    /\ phase[w] # "idle"
    /\ crashes < MaxCrashes
    /\ crashes' = crashes + 1
    /\ queue' = [queue EXCEPT ![task[w]] = @ + 1]
    /\ BecomeIdle(w)
    /\ UNCHANGED <<requestVars, repoRow, progressVars, artefactVars, result>>

\* A worker that loses its connection to the broker works on but can no longer
\* acknowledge: the message is delivered again while the body still runs.
ConnectionLost(w) ==
    /\ phase[w] # "idle"
    /\ crashes < MaxCrashes
    /\ crashes' = crashes + 1
    /\ queue' = [queue EXCEPT ![task[w]] = @ + 1]
    /\ UNCHANGED <<requestVars, repoRow, progressVars, artefactVars, result, workerVars>>

-----------------------------------------------------------------------------
EndRequest(a) == CommitRequest(a) \/ RollbackRequest(a)

Body(w) ==
    \/ LoadRepository(w) \/ StartStage(w) \/ FinishStage(w)
    \/ Clone(w) \/ WriteFiles(w) \/ WriteArchitecture(w) \/ WriteDependencies(w)
    \/ WriteReport(w) \/ ScheduleEmbeddings(w) \/ WriteMetrics(w)
    \/ IndexForSearch(w) \/ PublishCompleted(w) \/ ReportFailure(w)

WorkerStep(w) == Receive(w) \/ Body(w) \/ Acknowledge(w)

WorkerFault(w) ==
    \/ CloneFails(w) \/ BodyRaises(w) \/ HardTimeLimit(w)
    \/ WorkerLost(w) \/ ConnectionLost(w)

Next ==
    \/ \E a \in Runs, r \in Repos : AddRepository(a, r) \/ Reprocess(a, r)
    \/ \E a \in Runs : EndRequest(a)
    \/ \E r \in Repos : DeleteRepository(r)
    \/ \E w \in Workers : WorkerStep(w) \/ WorkerFault(w)

Spec == Init /\ [][Next]_vars

\* A request that has been accepted ends, and a live worker process keeps
\* taking messages and running its body. Nothing makes a user send a request
\* or a fault happen.
Fairness ==
    /\ \A a \in Runs : WF_vars(EndRequest(a))
    /\ \A w \in Workers : WF_vars(WorkerStep(w))

FairSpec == Spec /\ Fairness

-----------------------------------------------------------------------------
(* Safety.                                                                 *)

\* A repository never has two security reports flagged is_latest, so that
\* latest_with_findings, which takes any one of them without an order, has
\* no choice to make. No code clears the flag: what keeps the reports apart
\* is the unique architecture row every attempt has to insert first.
SingleLatestReport == \A r \in Repos : reports[r] <= 1

\* A run whose completed_at is set has everything the read endpoints serve:
\* architecture, security report, metrics, a file tree and last_analyzed_at.
CompletedRunHasResults ==
    \A a \in Runs : completedAt[a] =>
        LET r == target[a] IN
        /\ architecture[r] /\ reports[r] = 1 /\ metrics[r]
        /\ fileSets[r] > 0 /\ lastAnalyzed[r]

\* Of all the runs of a repository at most one ever completes, however many
\* times the user reprocesses it and the broker redelivers it.
OneCompletedRun ==
    \A a, b \in Runs : completedAt[a] /\ completedAt[b] /\ target[a] = target[b] => a = b

\* The steps of an added repository's run are reported in order, without a
\* gap: when one of them has left PENDING, so have all that come before it.
\* The row of the repository and the rows of its run are committed together,
\* so a task that finds the first never has a report dropped. (A reprocess
\* gives no such guarantee: its task may overtake the commit.)
AddedRunReportsInOrder ==
    \A a \in Runs : kind[a] = "add" =>
        \A i, j \in CLONING..COMPLETED :
            i < j /\ steps[a][j] # "pending" => steps[a][i] # "pending"

InFlight(a) ==
    \/ \E m \in Messages : m.run = a /\ queue[m] > 0
    \/ \E w \in Workers : phase[w] # "idle" /\ Run(w) = a

\* As long as no process or connection is lost, a task of an added repository that
\* Celery reports as successful, with nothing of it left in flight, has
\* completed its run or recorded that the clone failed; the one exception is
\* the task that found no repository row because it overtook the commit, and
\* then no step has moved at all.
SuccessIsAccountedFor ==
    crashes = 0 => \A a \in Runs :
        /\ kind[a] = "add" /\ request[a] = "committed"
        /\ result[a] = "ok" /\ ~InFlight(a)
        => \/ completedAt[a]
           \/ steps[a][CLONING] = "failed"
           \/ \A s \in PROCESSING_SEQUENCE : steps[a][s] = "pending"

\* As long as no process or connection is lost, one run is never executed by two
\* workers at once and has at most one message waiting: retries hand over.
NoDuplicateWithoutCrash ==
    crashes = 0 =>
        /\ \A v, w \in Workers : InBody(v) /\ InBody(w) /\ Run(v) = Run(w) => v = w
        /\ \A m \in Messages :
              queue[m] > 0 =>
                 /\ queue[m] = 1
                 /\ \A w \in Workers : InBody(w) => Run(w) # m.run
                 /\ \A n \in Messages : queue[n] > 0 /\ n.run = m.run => n = m

-----------------------------------------------------------------------------
(* The inductive invariant behind SingleLatestReport and the refinement.   *)

\* Where an attempt stands with respect to the three artefacts it inserts.
PastArchitecture(w) ==
    InBody(w) /\ (stage[w] > STRUCTURE \/ At(w, STRUCTURE, "finish"))
PastReport(w) ==
    InBody(w) /\ (stage[w] > SECURITY \/ At(w, SECURITY, "finish"))
PastMetrics(w) ==
    InBody(w) /\ stage[w] = COMPLETED /\ phase[w] # "work"

\* The program counter of a worker is one the task body has.
ControlInv ==
    \A w \in Workers :
        /\ phase[w] \in {"idle", "load", "ack"} => stage[w] = QUEUED
        /\ phase[w] = "clone_failed" => stage[w] = CLONING
        /\ phase[w] = "start" => stage[w] \in CLONING..GRAPH
        /\ phase[w] \in {"work", "finish"} => stage[w] \in CLONING..COMPLETED
        /\ phase[w] \in {"search_index", "publish"} => stage[w] = COMPLETED

\* Messages and attempts belong to runs somebody has asked for.
OwnedInv ==
    /\ \A a \in Runs : request[a] = "none" => target[a] = NoRepo
    /\ \A m \in Messages : queue[m] > 0 => target[m.run] \in Repos
    /\ \A w \in Workers : phase[w] # "idle" =>
          task[w] \in Messages /\ target[task[w].run] \in Repos

\* The artefact rows stand in the order of the stages, and one attempt alone
\* is past the architecture; it finds the later rows exactly as it left them.
SlotInv ==
    /\ \A r \in Repos :
          /\ reports[r] <= 1
          /\ reports[r] = 1 => architecture[r]
          /\ metrics[r] => reports[r] = 1
    /\ \A w \in Workers : PastArchitecture(w) =>
          /\ architecture[Repo(w)]
          /\ reports[Repo(w)] = IF PastReport(w) THEN 1 ELSE 0
          /\ metrics[Repo(w)] <=> PastMetrics(w)
    /\ \A v, w \in Workers :
          PastArchitecture(v) /\ PastArchitecture(w) /\ Repo(v) = Repo(w) => v = w

ArtefactInv == ControlInv /\ OwnedInv /\ SlotInv

-----------------------------------------------------------------------------
(* Refinement: the artefact tables behave like AnalysisArtefacts.          *)

Artefacts == INSTANCE AnalysisArtefacts WITH
    shelf <- [r \in Repos |-> [architecture |-> architecture[r],
                               reports |-> reports[r],
                               metrics |-> metrics[r]]]

\* The pipeline implements the promise to readers: in whatever order runs,
\* retries and redeliveries interleave, the artefacts of a repository appear
\* once and in the order of the stages.
ArtefactsPublishedOnce == Artefacts!Spec

\* The search document of a repository is written at most once and never
\* refreshed, because a second attempt cannot get past the architecture.
SearchDocWrittenOnce ==
    [][\A r \in Repos : searchDoc[r] # "none" => searchDoc'[r] = searchDoc[r]]_vars

\* The places an attempt has before it, from where it stands.
PlacesLeft(p, s) ==
    CASE p = "load"                        -> 28
      [] p = "start"                       -> 30 - 3 * s
      [] p = "work"                        -> 29 - 3 * s
      [] p = "finish" /\ s # COMPLETED     -> 28 - 3 * s
      [] p = "clone_failed"                -> 25
      [] p = "search_index"                -> 4
      [] p = "finish" /\ s = COMPLETED     -> 3
      [] p = "publish"                     -> 2
      [] p = "ack"                         -> 1
      [] p = "idle"                        -> 0

AttemptLeft(w) == PlacesLeft(phase[w], stage[w])

\* A message that is published is a new request's, the next try of an attempt
\* that ends with it, or the message of an attempt that was lost.
HasACause(m) ==
    \/ m.retries = 0 /\ request[m.run] = "none" /\ request'[m.run] = "open"
    \/ \E w \in Workers :
          /\ InBody(w) /\ phase'[w] = "ack"
          /\ task[w].run = m.run /\ task[w].retries + 1 = m.retries
    \/ \E w \in Workers : phase[w] # "idle" /\ task[w] = m /\ crashes' = crashes + 1

\* No attempt and no task goes on for ever: every move of a worker leaves its
\* attempt fewer places until it is idle, and no message comes from nothing,
\* however requests, retries and redeliveries interleave.
AttemptsAreCounted ==
    [][/\ \A w \in Workers :
             phase[w] # "idle" /\ <<phase[w], stage[w]>>' # <<phase[w], stage[w]>>
                 => AttemptLeft(w)' \in 0..(AttemptLeft(w) - 1)
       /\ \A m \in Messages : queue'[m] > queue[m] =>
             queue'[m] = queue[m] + 1 /\ HasACause(m)]_vars

-----------------------------------------------------------------------------
(* Liveness, under Fairness.                                               *)

\* Every task comes to an end: with bounded retries and finitely many lost
\* processes, no run stays in the broker or on a worker for ever.
TasksEnd == \A a \in Runs : InFlight(a) ~> ~InFlight(a)

-----------------------------------------------------------------------------
(* What the repository says of itself and the code does not do.            *)

\* "a single stage failing marks that stage as FAILED": when the task has
\* failed for good, no stage of its run is still shown as running.
FailedTaskMarksItsStage ==
    \A a \in Runs : result[a] = "failed" =>
        \A s \in PROCESSING_SEQUENCE : steps[a][s] # "in_progress"

\* "users still get partial results instead of a silent nothing": a task that
\* Celery reports as successful has left a mark on its run.
NoSilentNothing ==
    \A a \in Runs : result[a] = "ok" /\ request[a] = "committed" =>
        \E s \in PROCESSING_SEQUENCE : steps[a][s] # "pending"
=============================================================================
