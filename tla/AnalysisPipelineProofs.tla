---------------------- MODULE AnalysisPipelineProofs -----------------------
(***************************************************************************)
(* Theorems about AnalysisPipeline, for every set of repositories, runs    *)
(* and workers and every bound on retries and crashes.                     *)
(***************************************************************************)
EXTENDS AnalysisPipeline, TLAPS

-----------------------------------------------------------------------------
(* Type correctness.                                                       *)

\* The stage and status sets are closed under what the task body does.
LEMMA StageFacts ==
    /\ PROCESSING_SEQUENCE = 0..8
    /\ \A s \in PROCESSING_SEQUENCE : s \in Stages /\ (s # COMPLETED => s + 1 \in PROCESSING_SEQUENCE)
    /\ FAILED \in Stages /\ FAILED \notin PROCESSING_SEQUENCE
    /\ {QUEUED, CLONING, INDEXING, STRUCTURE, DEPENDENCIES, SECURITY,
        EMBEDDINGS, GRAPH, COMPLETED} \subseteq PROCESSING_SEQUENCE
BY DEF PROCESSING_SEQUENCE, Stages, QUEUED, CLONING, INDEXING, STRUCTURE, DEPENDENCIES,
       SECURITY, EMBEDDINGS, GRAPH, COMPLETED, FAILED

\* Counting up, even at a point outside the domain, keeps a counter table.
LEMMA CountUp ==
    ASSUME NEW S, NEW f \in [S -> Nat], NEW x
    PROVE  [f EXCEPT ![x] = @ + 1] \in [S -> Nat]
<1>1. CASE x \in S
  <2>1. f[x] + 1 \in Nat
    BY <1>1
  <2> QED BY <2>1
<1>2. CASE x \notin S
  BY <1>2
<1> QED BY <1>1, <1>2

ProgressType ==
    /\ repoStage \in [Repos -> Stages]
    /\ lastAnalyzed \in [Repos -> BOOLEAN]
    /\ runStage \in [Runs -> Stages]
    /\ completedAt \in [Runs -> BOOLEAN]
    /\ steps \in [Runs -> [PROCESSING_SEQUENCE -> StepStatus]]

\* _advance_step keeps the progress rows well typed, whatever it is given.
LEMMA AdvanceStepType ==
    ASSUME ProgressType, NEW a, NEW s \in Stages, NEW status \in StepStatus,
           AdvanceStep(a, s, status)
    PROVE  ProgressType'
<1>1. CASE ~HasStep(a, s)
  BY <1>1 DEF AdvanceStep, ProgressType, progressVars
<1>2. CASE HasStep(a, s)
  <2>1. /\ steps' = [steps EXCEPT ![a][s] = status]
        /\ runStage' = [runStage EXCEPT ![a] = s]
        /\ completedAt' = [completedAt EXCEPT
                ![a] = @ \/ (s = COMPLETED /\ status = "completed")]
        /\ repoStage' = [repoStage EXCEPT ![target[a]] = s]
        /\ lastAnalyzed' = [lastAnalyzed EXCEPT ![target[a]] = @ \/ s = COMPLETED]
    BY <1>2 DEF AdvanceStep
  <2>2. steps' \in [Runs -> [PROCESSING_SEQUENCE -> StepStatus]]
    BY <2>1 DEF ProgressType
  <2>3. runStage' \in [Runs -> Stages] /\ repoStage' \in [Repos -> Stages]
    BY <2>1 DEF ProgressType
  <2>4. completedAt' \in [Runs -> BOOLEAN]
    BY <2>1, Zenon DEF ProgressType
  <2>5. lastAnalyzed' \in [Repos -> BOOLEAN]
    BY <2>1, Zenon DEF ProgressType
  <2> QED BY <2>2, <2>3, <2>4, <2>5 DEF ProgressType
<1> QED BY <1>1, <1>2

WorkerType ==
    /\ task \in [Workers -> Messages \cup {NoTask}]
    /\ phase \in [Workers -> Phases]
    /\ stage \in [Workers -> PROCESSING_SEQUENCE]
    /\ sawLanguage \in [Workers -> BOOLEAN]

\* Moving on in the body keeps the workers' types.
LEMMA GotoType ==
    ASSUME WorkerType, NEW w, NEW s \in PROCESSING_SEQUENCE, NEW p \in Phases, Goto(w, s, p)
    PROVE  WorkerType'
BY DEF WorkerType, Goto

\* So does leaving the message behind.
LEMMA BecomeIdleType ==
    ASSUME WorkerType, NEW w, BecomeIdle(w)
    PROVE  WorkerType'
BY StageFacts DEF WorkerType, BecomeIdle, Phases

BrokerType == queue \in [Messages -> Nat] /\ result \in [Runs -> Results]

\* Returning an outcome keeps the types of the broker and of the workers.
LEMMA ReturnType ==
    ASSUME WorkerType, BrokerType, NEW w, NEW outcome \in Results, Return(w, outcome),
           UNCHANGED queue
    PROVE  WorkerType' /\ BrokerType'
<1>1. BrokerType'
  BY DEF BrokerType, Return
<1>2. WorkerType'
  BY GotoType, StageFacts DEF Return, Phases
<1> QED BY <1>1, <1>2

\* Publishing the next attempt, or failing for good, keeps them too: the next
\* attempt is a message while its number is at most MaxRetries.
LEMMA RetryType ==
    ASSUME WorkerType, BrokerType, NEW w, Retry(w)
    PROVE  WorkerType' /\ BrokerType'
<1>1. CASE task[w].retries < MaxRetries
  <2>1. Goto(w, QUEUED, "ack")
    BY <1>1 DEF Retry
  <2>2. BrokerType'
    BY <1>1 DEF Retry, BrokerType
  <2> QED BY <2>1, <2>2, GotoType, StageFacts DEF Phases
<1>2. CASE ~(task[w].retries < MaxRetries)
  BY <1>2, ReturnType DEF Retry, Results
<1> QED BY <1>1, <1>2

RequestType ==
    /\ request \in [Runs -> RequestStates]
    /\ kind \in [Runs -> RequestKinds]
    /\ target \in [Runs -> Repos \cup {NoRepo}]
    /\ rowWritten \in [Runs -> BOOLEAN]

\* A request that opens keeps the types of the requests.
LEMMA OpenRequestType ==
    ASSUME RequestType, NEW a, NEW k \in RequestKinds, NEW r \in Repos,
           NEW wrote \in BOOLEAN, OpenRequest(a, k, r, wrote)
    PROVE  RequestType'
BY Zenon DEF RequestType, OpenRequest, RequestStates

ArtefactType ==
    /\ fileSets \in [Repos -> Nat]
    /\ architecture \in [Repos -> BOOLEAN]
    /\ dependencies \in [Repos -> BOOLEAN]
    /\ reports \in [Repos -> Nat]
    /\ metrics \in [Repos -> BOOLEAN]
    /\ embedJobs \in [Repos -> Nat]
    /\ searchDoc \in [Repos -> SearchDocs]

TypeConjuncts ==
    /\ RequestType /\ ProgressType /\ ArtefactType /\ BrokerType /\ WorkerType
    /\ repoRow \in [Repos -> RepoRows]
    /\ crashes \in 0..MaxCrashes

\* TypeOK, cut into the parts the actions change together.
LEMMA TypeParts == (TypeOK <=> TypeConjuncts) /\ (TypeOK' <=> TypeConjuncts')
BY DEF TypeOK, TypeConjuncts, RequestType, ProgressType, ArtefactType, BrokerType, WorkerType

\* A part that does not change keeps its type.
LEMMA UnchangedTypes ==
    /\ RequestType /\ UNCHANGED requestVars => RequestType'
    /\ ProgressType /\ UNCHANGED progressVars => ProgressType'
    /\ ArtefactType /\ UNCHANGED artefactVars => ArtefactType'
    /\ BrokerType /\ UNCHANGED brokerVars => BrokerType'
    /\ WorkerType /\ UNCHANGED workerVars => WorkerType'
BY DEF RequestType, ProgressType, ArtefactType, BrokerType, WorkerType,
       requestVars, progressVars, artefactVars, brokerVars, workerVars

\* Adding and reprocessing a repository keep every type.
LEMMA OpenType ==
    ASSUME TypeOK, NEW a \in Runs, NEW r \in Repos, AddRepository(a, r) \/ Reprocess(a, r)
    PROVE  TypeOK'
<1> USE TypeParts, UnchangedTypes DEF TypeConjuncts
<1>1. ASSUME Delay(a), UNCHANGED result
      PROVE  BrokerType'
  BY <1>1 DEF Delay, BrokerType
<1>2. CASE AddRepository(a, r)
  <2>1. RequestType'
    BY <1>2, OpenRequestType DEF AddRepository, RequestKinds
  <2>2. BrokerType'
    BY <1>1, <1>2 DEF AddRepository
  <2> QED BY <1>2, <2>1, <2>2 DEF AddRepository
<1>3. CASE Reprocess(a, r)
  <2>1. RequestType'
    BY <1>3, OpenRequestType DEF Reprocess, RequestKinds
  <2>2. BrokerType'
    BY <1>1, <1>3 DEF Reprocess
  <2> QED BY <1>3, <2>1, <2>2 DEF Reprocess
<1> QED BY <1>2, <1>3

\* Committing and rolling back keep every type.
LEMMA EndRequestType ==
    ASSUME TypeOK, NEW a \in Runs, EndRequest(a)
    PROVE  TypeOK'
<1> USE TypeParts, UnchangedTypes DEF TypeConjuncts
<1>1. CASE CommitRequest(a)
  <2>1. RequestType'
    BY <1>1 DEF CommitRequest, RequestType, RequestStates
  <2>2. ProgressType'
    BY <1>1, StageFacts DEF CommitRequest, ProgressType
  <2>3. repoRow' \in [Repos -> RepoRows]
    BY <1>1 DEF CommitRequest, RepoRows
  <2> QED BY <1>1, <2>1, <2>2, <2>3 DEF CommitRequest
<1>2. CASE RollbackRequest(a)
  <2>1. RequestType'
    BY <1>2 DEF RollbackRequest, RequestType, RequestStates
  <2> QED BY <1>2, <2>1 DEF RollbackRequest
<1> QED BY <1>1, <1>2 DEF EndRequest

\* Deleting a repository keeps every type.
LEMMA DeleteType ==
    ASSUME TypeOK, NEW r \in Repos, DeleteRepository(r)
    PROVE  TypeOK'
BY TypeParts, UnchangedTypes DEF TypeConjuncts, DeleteRepository, RepoRows

\* Every step of a worker, and every fault, keeps every type.
LEMMA WorkerStepType ==
    ASSUME TypeOK, NEW w \in Workers, WorkerStep(w) \/ WorkerFault(w)
    PROVE  TypeOK'
<1> USE TypeParts, UnchangedTypes DEF TypeConjuncts
<1>1. stage[w] \in PROCESSING_SEQUENCE /\ stage[w] \in Stages
  BY StageFacts DEF WorkerType
<1>2. CASE Receive(w)
  <2>1. BrokerType'
    BY <1>2 DEF Receive, BrokerType
  <2>2. WorkerType'
    BY <1>2 DEF Receive, WorkerType, Phases
  <2> QED BY <1>2, <2>1, <2>2 DEF Receive
<1>3. CASE LoadRepository(w)
  <2>1. CASE repoRow[Repo(w)] = "absent"
    BY <1>3, <2>1, ReturnType DEF LoadRepository, Results
  <2>2. CASE repoRow[Repo(w)] # "absent"
    <3>1. sawLanguage' = [sawLanguage EXCEPT ![w] = fileSets[Repo(w)] > 0]
      BY <1>3, <2>2 DEF LoadRepository
    <3>a. (fileSets[Repo(w)] > 0) \in BOOLEAN
      OBVIOUS
    <3>2. sawLanguage' \in [Workers -> BOOLEAN]
      BY <3>1, <3>a, Zenon DEF WorkerType
    <3>3. WorkerType'
      BY <1>3, <2>2, <3>2, StageFacts DEF LoadRepository, WorkerType, Phases
    <3> QED BY <1>3, <2>2, <3>3 DEF LoadRepository, brokerVars
  <2> QED BY <2>1, <2>2
<1>4. CASE StartStage(w)
  <2>1. ProgressType'
    BY <1>1, <1>4, AdvanceStepType DEF StartStage, StepStatus
  <2>2. WorkerType'
    BY <1>1, <1>4, GotoType DEF StartStage, Phases
  <2> QED BY <1>4, <2>1, <2>2 DEF StartStage
<1>5. CASE FinishStage(w)
  <2>1. ProgressType'
    BY <1>1, <1>5, AdvanceStepType DEF FinishStage, StepStatus
  <2>2. WorkerType'
    <3>1. CASE stage[w] = COMPLETED
      BY <1>5, <3>1, GotoType, StageFacts DEF FinishStage, Phases, COMPLETED, GRAPH
    <3>2. CASE stage[w] = GRAPH
      BY <1>5, <3>2, GotoType, StageFacts DEF FinishStage, Phases, COMPLETED, GRAPH
    <3>3. CASE stage[w] # COMPLETED /\ stage[w] # GRAPH
      <4>1. Goto(w, stage[w] + 1, "start")
        BY <1>5, <3>3 DEF FinishStage
      <4>2. stage[w] + 1 \in PROCESSING_SEQUENCE /\ "start" \in Phases
        BY <1>1, <3>3, StageFacts DEF Phases
      <4> QED BY <4>1, <4>2, GotoType
    <3> QED BY <3>1, <3>2, <3>3
  <2> QED BY <1>5, <2>1, <2>2 DEF FinishStage
<1>6. CASE Clone(w)
  BY <1>6, GotoType, StageFacts DEF Clone, Phases
<1>7. CASE CloneFails(w)
  <2>1. ProgressType'
    BY <1>7, AdvanceStepType, StageFacts DEF CloneFails, StepStatus
  <2>2. WorkerType'
    BY <1>7, GotoType, StageFacts DEF CloneFails, Phases
  <2> QED BY <1>7, <2>1, <2>2 DEF CloneFails
<1>8. CASE ReportFailure(w)
  <2>1. ProgressType'
    BY <1>8, AdvanceStepType, StageFacts DEF ReportFailure, StepStatus
  <2> QED BY <1>8, <2>1, ReturnType DEF ReportFailure, Results
<1>9. CASE WriteFiles(w)
  <2>1. ArtefactType'
    BY <1>9, CountUp DEF WriteFiles, ArtefactType
  <2>2. WorkerType'
    BY <1>9, GotoType, StageFacts DEF WriteFiles, Phases
  <2> QED BY <1>9, <2>1, <2>2 DEF WriteFiles
<1>10. CASE WriteArchitecture(w)
  <2>1. CASE architecture[Repo(w)]
    <3>1. ArtefactType'
      BY <1>10, <2>1 DEF WriteArchitecture, ArtefactType
    <3> QED BY <1>10, <2>1, <3>1, RetryType DEF WriteArchitecture
  <2>2. CASE ~architecture[Repo(w)]
    <3>1. ArtefactType'
      BY <1>10, <2>2 DEF WriteArchitecture, ArtefactType
    <3>2. WorkerType'
      BY <1>10, <2>2, GotoType, StageFacts DEF WriteArchitecture, Phases
    <3> QED BY <1>10, <2>2, <3>1, <3>2 DEF WriteArchitecture
  <2> QED BY <2>1, <2>2
<1>11. CASE WriteDependencies(w)
  <2>1. PICK found \in BOOLEAN :
          IF found /\ dependencies[Repo(w)]
          THEN Retry(w) /\ UNCHANGED dependencies
          ELSE /\ dependencies' = [dependencies EXCEPT ![Repo(w)] = @ \/ found]
               /\ Goto(w, DEPENDENCIES, "finish")
               /\ UNCHANGED brokerVars
    BY <1>11 DEF WriteDependencies
  <2>2. CASE found /\ dependencies[Repo(w)]
    <3>1. ArtefactType'
      BY <1>11, <2>1, <2>2 DEF WriteDependencies, ArtefactType
    <3> QED BY <1>11, <2>1, <2>2, <3>1, RetryType DEF WriteDependencies
  <2>3. CASE ~(found /\ dependencies[Repo(w)])
    <3>1. dependencies' = [dependencies EXCEPT ![Repo(w)] = @ \/ found]
      BY <2>1, <2>3
    <3>2. dependencies' \in [Repos -> BOOLEAN]
      BY <3>1, Zenon DEF ArtefactType
    <3>3. ArtefactType'
      BY <1>11, <3>2 DEF WriteDependencies, ArtefactType
    <3>4. WorkerType'
      BY <2>1, <2>3, GotoType, StageFacts DEF Phases
    <3> QED BY <1>11, <2>1, <2>3, <3>3, <3>4 DEF WriteDependencies
  <2> QED BY <2>2, <2>3
<1>12. CASE WriteReport(w)
  <2>1. ArtefactType'
    BY <1>12, CountUp DEF WriteReport, ArtefactType
  <2>2. WorkerType'
    BY <1>12, GotoType, StageFacts DEF WriteReport, Phases
  <2> QED BY <1>12, <2>1, <2>2 DEF WriteReport
<1>13. CASE ScheduleEmbeddings(w)
  <2>1. ArtefactType'
    BY <1>13 DEF ScheduleEmbeddings, ArtefactType
  <2>2. WorkerType'
    BY <1>13, GotoType, StageFacts DEF ScheduleEmbeddings, Phases
  <2> QED BY <1>13, <2>1, <2>2 DEF ScheduleEmbeddings
<1>14. CASE WriteMetrics(w)
  <2>1. CASE metrics[Repo(w)]
    <3>1. ArtefactType'
      BY <1>14, <2>1 DEF WriteMetrics, ArtefactType
    <3> QED BY <1>14, <2>1, <3>1, RetryType DEF WriteMetrics
  <2>2. CASE ~metrics[Repo(w)]
    <3>1. ArtefactType'
      BY <1>14, <2>2 DEF WriteMetrics, ArtefactType
    <3>2. WorkerType'
      BY <1>14, <2>2, GotoType, StageFacts DEF WriteMetrics, Phases
    <3> QED BY <1>14, <2>2, <3>1, <3>2 DEF WriteMetrics
  <2> QED BY <2>1, <2>2
<1>15. CASE IndexForSearch(w)
  <2>1. ArtefactType'
    BY <1>15 DEF IndexForSearch, ArtefactType, SearchDocs
  <2>2. WorkerType'
    BY <1>15, GotoType, StageFacts DEF IndexForSearch, Phases
  <2> QED BY <1>15, <2>1, <2>2 DEF IndexForSearch
<1>16. CASE PublishCompleted(w)
  BY <1>16, ReturnType DEF PublishCompleted, Results
<1>17. CASE Acknowledge(w)
  BY <1>17, BecomeIdleType DEF Acknowledge
<1>18. CASE BodyRaises(w)
  BY <1>18, RetryType DEF BodyRaises
<1>19. CASE HardTimeLimit(w)
  <2>1. BrokerType'
    BY <1>19 DEF HardTimeLimit, BrokerType, Results
  <2> QED BY <1>19, <2>1, BecomeIdleType DEF HardTimeLimit
<1>20. CASE WorkerLost(w)
  <2>1. BrokerType'
    BY <1>20, CountUp DEF WorkerLost, BrokerType
  <2>2. crashes' \in 0..MaxCrashes
    BY <1>20, BoundsAssumption DEF WorkerLost
  <2> QED BY <1>20, <2>1, <2>2, BecomeIdleType DEF WorkerLost
<1>21. CASE ConnectionLost(w)
  <2>1. BrokerType'
    BY <1>21, CountUp DEF ConnectionLost, BrokerType
  <2>2. crashes' \in 0..MaxCrashes
    BY <1>21, BoundsAssumption DEF ConnectionLost
  <2> QED BY <1>21, <2>1, <2>2 DEF ConnectionLost
<1> QED
  BY <1>2, <1>3, <1>4, <1>5, <1>6, <1>7, <1>8, <1>9, <1>10, <1>11, <1>12, <1>13,
     <1>14, <1>15, <1>16, <1>17, <1>18, <1>19, <1>20, <1>21
  DEF WorkerStep, WorkerFault, Body

\* The rows, messages and program counters of the pipeline keep their types,
\* whatever requests, workers and faults do to them (AnalysisPipeline's run
\* checks TypeOK on an instance).
THEOREM TypeCorrect == Spec => []TypeOK
<1>1. Init => TypeOK
  BY BoundsAssumption, StageFacts
  DEF Init, TypeOK, RequestStates, RequestKinds, RepoRows, SearchDocs, Results, Phases,
      StepStatus
<1>2. TypeOK /\ [Next]_vars => TypeOK'
  <2> SUFFICES ASSUME TypeOK, [Next]_vars PROVE TypeOK'
    OBVIOUS
  <2>1. CASE Next
    BY <2>1, OpenType, EndRequestType, DeleteType, WorkerStepType DEF Next
  <2>2. CASE UNCHANGED vars
    BY <2>2 DEF TypeOK, vars, requestVars, progressVars, artefactVars, brokerVars, workerVars
  <2> QED BY <2>1, <2>2
<1> QED BY <1>1, <1>2, PTL DEF Spec

-----------------------------------------------------------------------------
(* The inductive invariant. Every step of a worker has one shape: the other *)
(* workers stay where they are, and the worker itself either leaves the     *)
(* artefacts and its own standing towards them alone, or inserts the next   *)
(* one.                                                                     *)

PcOK(p, s) ==
    /\ p \in {"idle", "load", "ack"} => s = QUEUED
    /\ p = "clone_failed" => s = CLONING
    /\ p = "start" => s \in CLONING..GRAPH
    /\ p \in {"work", "finish"} => s \in CLONING..COMPLETED
    /\ p \in {"search_index", "publish"} => s = COMPLETED

OthersStay(w) ==
    \A v \in Workers \ {w} :
        phase'[v] = phase[v] /\ stage'[v] = stage[v] /\ task'[v] = task[v]

StepShape(w) ==
    /\ OthersStay(w)
    /\ UNCHANGED <<request, target>>
    /\ PcOK(phase'[w], stage'[w])
    /\ \A m \in Messages : queue'[m] > 0 =>
          queue[m] > 0 \/ (phase[w] # "idle" /\ m.run = Run(w))
    /\ phase'[w] # "idle" =>
          \/ phase[w] # "idle" /\ task'[w] = task[w]
          \/ task'[w] \in Messages /\ queue[task'[w]] > 0

Quiet(w) ==
    /\ UNCHANGED <<architecture, reports, metrics>>
    /\ PastArchitecture(w)' =>
          /\ PastArchitecture(w)
          /\ task'[w] = task[w]
          /\ PastReport(w)' <=> PastReport(w)
          /\ PastMetrics(w)' <=> PastMetrics(w)

InsertsArchitecture(w) ==
    /\ At(w, STRUCTURE, "work") /\ Goto(w, STRUCTURE, "finish")
    /\ ~architecture[Repo(w)]
    /\ architecture' = [architecture EXCEPT ![Repo(w)] = TRUE]
    /\ UNCHANGED <<reports, metrics>>

InsertsReport(w) ==
    /\ At(w, SECURITY, "work") /\ Goto(w, SECURITY, "finish")
    /\ reports' = [reports EXCEPT ![Repo(w)] = @ + 1]
    /\ UNCHANGED <<architecture, metrics>>

InsertsMetrics(w) ==
    /\ At(w, COMPLETED, "work") /\ Goto(w, COMPLETED, "search_index")
    /\ ~metrics[Repo(w)]
    /\ metrics' = [metrics EXCEPT ![Repo(w)] = TRUE]
    /\ UNCHANGED <<architecture, reports>>

\* Moving on moves one worker and leaves the others where they are.
LEMMA GotoEffect ==
    ASSUME WorkerType, NEW w \in Workers, NEW s, NEW p, Goto(w, s, p)
    PROVE  OthersStay(w) /\ phase'[w] = p /\ stage'[w] = s /\ task' = task
BY DEF WorkerType, Goto, OthersStay

\* Giving the message up idles one worker and leaves the others where they are.
LEMMA BecomeIdleEffect ==
    ASSUME WorkerType, NEW w \in Workers, BecomeIdle(w)
    PROVE  OthersStay(w) /\ phase'[w] = "idle" /\ stage'[w] = QUEUED
BY DEF WorkerType, BecomeIdle, OthersStay

\* Raising hands the message over to a retry of the same run and leaves the
\* body.
LEMMA RetryEffect ==
    ASSUME WorkerType, BrokerType, NEW w \in Workers, Retry(w)
    PROVE  /\ OthersStay(w) /\ phase'[w] = "ack" /\ stage'[w] = QUEUED /\ task' = task
           /\ \A m \in Messages : queue'[m] > 0 => queue[m] > 0 \/ m.run = Run(w)
<1>1. Goto(w, QUEUED, "ack")
  BY DEF Retry, Return
<1>2. ASSUME NEW m \in Messages, queue'[m] > 0
      PROVE  queue[m] > 0 \/ m.run = Run(w)
  <2>1. CASE UNCHANGED queue
    BY <1>2, <2>1
  <2>2. CASE queue' = [queue EXCEPT ![[run |-> Run(w), retries |-> task[w].retries + 1]] = @ + 1]
    BY <1>2, <2>2 DEF BrokerType
  <2> QED BY <2>1, <2>2 DEF Retry
<1> QED BY <1>1, <1>2, GotoEffect

\* Outside of the body nothing is past anything.
LEMMA OutOfBodyIsQuiet ==
    ASSUME NEW w \in Workers, phase'[w] \in {"idle", "ack"},
           UNCHANGED <<architecture, reports, metrics>>
    PROVE  Quiet(w)
BY DEF Quiet, PastArchitecture, InBody

StageNumbers ==
    /\ QUEUED = 0 /\ CLONING = 1 /\ INDEXING = 2 /\ STRUCTURE = 3 /\ DEPENDENCIES = 4
    /\ SECURITY = 5 /\ EMBEDDINGS = 6 /\ GRAPH = 7 /\ COMPLETED = 8
    /\ \A s \in PROCESSING_SEQUENCE : s \in Nat /\ s <= 8

\* The stages as the numbers they are.
LEMMA StageOrder == StageNumbers
BY DEF StageNumbers, PROCESSING_SEQUENCE, QUEUED, CLONING, INDEXING, STRUCTURE, DEPENDENCIES,
       SECURITY, EMBEDDINGS, GRAPH, COMPLETED

\* A move inside the body that stays on its side of the three insertions.
LEMMA MoveIsQuiet ==
    ASSUME WorkerType, NEW w \in Workers, NEW s, NEW p, Goto(w, s, p), InBody(w),
           UNCHANGED <<architecture, reports, metrics>>,
           \/ s \in Nat /\ s < STRUCTURE
           \/ s = stage[w] /\ p \in {"work", "finish"} /\ phase[w] = "start" /\ s < COMPLETED
              /\ (s \in {STRUCTURE, SECURITY} => p = "work")
           \/ s = stage[w] /\ p = "finish" /\ phase[w] = "work" /\ s < COMPLETED
              /\ s \notin {STRUCTURE, SECURITY}
           \/ s = stage[w] + 1 /\ phase[w] = "finish" /\ s <= COMPLETED
              /\ p = (IF s = COMPLETED THEN "work" ELSE "start")
           \/ s = COMPLETED /\ stage[w] = COMPLETED /\ p # "work" /\ phase[w] # "work"
    PROVE  Quiet(w)
BY GotoEffect, StageOrder
DEF Quiet, PastArchitecture, PastReport, PastMetrics, InBody, At, StageNumbers, WorkerType

\* A step along the program text, without a message sent or taken.
LEMMA GotoShape ==
    ASSUME WorkerType, NEW w \in Workers, NEW s, NEW p, Goto(w, s, p), InBody(w), PcOK(p, s),
           UNCHANGED <<request, target, queue>>
    PROVE  StepShape(w)
BY GotoEffect DEF StepShape, InBody

\* Returning has the shape of a worker's step and disturbs no artefact.
LEMMA ReturnShape ==
    ASSUME WorkerType, NEW w \in Workers, NEW outcome, Return(w, outcome), InBody(w),
           UNCHANGED <<request, target, queue, architecture, reports, metrics>>
    PROVE  StepShape(w) /\ Quiet(w)
<1>1. Goto(w, QUEUED, "ack") /\ PcOK("ack", QUEUED)
  BY DEF Return, PcOK
<1> QED BY <1>1, GotoShape, GotoEffect, OutOfBodyIsQuiet

\* Raising has that shape as well.
LEMMA RetryShape ==
    ASSUME WorkerType, BrokerType, NEW w \in Workers, Retry(w), InBody(w),
           UNCHANGED <<request, target, architecture, reports, metrics>>
    PROVE  StepShape(w) /\ Quiet(w)
<1>1. PcOK("ack", QUEUED) /\ phase[w] # "idle"
  BY DEF PcOK, InBody
<1> QED BY <1>1, RetryEffect, OutOfBodyIsQuiet DEF StepShape

Insertion(w) == InsertsArchitecture(w) \/ InsertsReport(w) \/ InsertsMetrics(w)

\* Every step of a worker has the shape, and either leaves the artefacts alone
\* or inserts the next one.
LEMMA WorkerShape ==
    ASSUME TypeOK, ControlInv, NEW w \in Workers, WorkerStep(w) \/ WorkerFault(w)
    PROVE  StepShape(w) /\ (Quiet(w) \/ Insertion(w))
<1>0. WorkerType /\ BrokerType
  BY TypeParts DEF TypeConjuncts
<1> USE <1>0, StageOrder DEF StageNumbers
<1>1. stage[w] \in Nat /\ PcOK(phase[w], stage[w])
  BY DEF WorkerType, ControlInv, PcOK
<1>2. CASE Receive(w)
  <2>1. PICK m \in Messages : queue[m] > 0 /\ queue' = [queue EXCEPT ![m] = @ - 1]
                             /\ task' = [task EXCEPT ![w] = m]
    BY <1>2 DEF Receive
  <2>2. phase[w] = "idle" /\ phase' = [phase EXCEPT ![w] = "load"] /\ stage' = stage
    BY <1>2 DEF Receive
  <2>3. OthersStay(w) /\ phase'[w] = "load" /\ stage'[w] = stage[w] /\ task'[w] = m
    BY <2>1, <2>2 DEF OthersStay, WorkerType
  <2>4. stage[w] = QUEUED /\ PcOK("load", QUEUED)
    BY <1>1, <2>2 DEF PcOK
  <2>5. \A n \in Messages : queue'[n] > 0 => queue[n] > 0
    BY <2>1 DEF BrokerType
  <2>6. UNCHANGED <<request, target, architecture, reports, metrics>>
    BY <1>2 DEF Receive, requestVars, artefactVars
  <2>7. StepShape(w)
    BY <2>1, <2>3, <2>4, <2>5, <2>6 DEF StepShape
  <2>8. Quiet(w)
    BY <2>3, <2>4, <2>6 DEF Quiet, PastArchitecture, At
  <2> QED BY <2>7, <2>8
<1>3. CASE LoadRepository(w)
  <2>1. /\ InBody(w)
        /\ UNCHANGED <<request, target, queue, architecture, reports, metrics>>
    BY <1>3 DEF LoadRepository, InBody, requestVars, artefactVars
  <2>2. CASE repoRow[Repo(w)] = "absent"
    BY <1>3, <2>1, <2>2, ReturnShape DEF LoadRepository
  <2>3. CASE repoRow[Repo(w)] # "absent"
    <3>1. OthersStay(w) /\ phase'[w] = "start" /\ stage'[w] = CLONING /\ task' = task
      BY <1>3, <2>3 DEF LoadRepository, OthersStay, WorkerType
    <3>2. PcOK("start", CLONING) /\ phase[w] # "idle"
      BY <2>1 DEF PcOK, InBody
    <3>3. StepShape(w)
      BY <2>1, <3>1, <3>2 DEF StepShape
    <3>4. Quiet(w)
      BY <2>1, <3>1 DEF Quiet, PastArchitecture, At
    <3> QED BY <3>3, <3>4
  <2> QED BY <2>2, <2>3
<1>4. CASE StartStage(w)
  <2>1. /\ InBody(w) /\ phase[w] = "start" /\ stage[w] \in CLONING..GRAPH
        /\ UNCHANGED <<request, target, queue, architecture, reports, metrics>>
    BY <1>1, <1>4 DEF StartStage, InBody, requestVars, artefactVars, brokerVars, PcOK
  <2>2. CASE stage[w] = GRAPH
    <3>1. Goto(w, GRAPH, "finish") /\ PcOK("finish", GRAPH)
      BY <1>4, <2>2 DEF StartStage, PcOK
    <3> QED BY <2>1, <2>2, <3>1, GotoShape, MoveIsQuiet
  <2>3. CASE stage[w] # GRAPH
    <3>1. Goto(w, stage[w], "work") /\ PcOK("work", stage[w])
      BY <1>4, <2>1, <2>3 DEF StartStage, PcOK
    <3>2. Quiet(w)
      BY <1>1, <2>1, <3>1, MoveIsQuiet
    <3> QED BY <2>1, <3>1, <3>2, GotoShape
  <2> QED BY <2>2, <2>3
<1>5. CASE FinishStage(w)
  <2>1. /\ InBody(w) /\ phase[w] = "finish" /\ stage[w] \in CLONING..COMPLETED
        /\ UNCHANGED <<request, target, queue, architecture, reports, metrics>>
    BY <1>1, <1>5 DEF FinishStage, InBody, requestVars, artefactVars, brokerVars, PcOK
  <2>2. CASE stage[w] = COMPLETED
    <3>1. Goto(w, COMPLETED, "publish") /\ PcOK("publish", COMPLETED)
      BY <1>5, <2>2 DEF FinishStage, PcOK
    <3> QED BY <2>1, <2>2, <3>1, GotoShape, MoveIsQuiet
  <2>3. CASE stage[w] = GRAPH
    <3>1. Goto(w, COMPLETED, "work") /\ PcOK("work", COMPLETED)
      BY <1>5, <2>3 DEF FinishStage, PcOK
    <3> QED BY <2>1, <2>3, <3>1, GotoShape, MoveIsQuiet
  <2>4. CASE stage[w] # COMPLETED /\ stage[w] # GRAPH
    <3>1. Goto(w, stage[w] + 1, "start")
      BY <1>5, <2>4 DEF FinishStage
    <3>2. PcOK("start", stage[w] + 1) /\ stage[w] + 1 < COMPLETED
      BY <2>1, <2>4 DEF PcOK
    <3>3. Quiet(w)
      BY <1>1, <2>1, <3>1, <3>2, MoveIsQuiet
    <3> QED BY <2>1, <3>1, <3>2, <3>3, GotoShape
  <2> QED BY <2>2, <2>3, <2>4
<1>6. CASE Clone(w)
  <2>1. /\ InBody(w) /\ Goto(w, CLONING, "finish") /\ PcOK("finish", CLONING)
        /\ UNCHANGED <<request, target, queue, architecture, reports, metrics>>
    BY <1>6 DEF Clone, At, InBody, PcOK, requestVars, artefactVars, brokerVars
  <2> QED BY <2>1, GotoShape, MoveIsQuiet
<1>7. CASE CloneFails(w)
  <2>1. /\ InBody(w) /\ Goto(w, CLONING, "clone_failed") /\ PcOK("clone_failed", CLONING)
        /\ UNCHANGED <<request, target, queue, architecture, reports, metrics>>
    BY <1>7 DEF CloneFails, At, InBody, PcOK, requestVars, artefactVars, brokerVars
  <2> QED BY <2>1, GotoShape, MoveIsQuiet
<1>8. CASE ReportFailure(w)
  <2>1. /\ InBody(w) /\ Return(w, "ok")
        /\ UNCHANGED <<request, target, queue, architecture, reports, metrics>>
    BY <1>8 DEF ReportFailure, InBody, requestVars, artefactVars
  <2> QED BY <2>1, ReturnShape
<1>9. CASE WriteFiles(w)
  <2>1. /\ InBody(w) /\ Goto(w, INDEXING, "finish") /\ PcOK("finish", INDEXING)
        /\ UNCHANGED <<request, target, queue, architecture, reports, metrics>>
    BY <1>9 DEF WriteFiles, At, InBody, PcOK, requestVars, brokerVars
  <2> QED BY <2>1, GotoShape, MoveIsQuiet
<1>10. CASE WriteArchitecture(w)
  <2>1. /\ InBody(w) /\ At(w, STRUCTURE, "work")
        /\ UNCHANGED <<request, target, reports, metrics>>
    BY <1>10 DEF WriteArchitecture, At, InBody, requestVars
  <2>2. CASE architecture[Repo(w)]
    BY <1>10, <2>1, <2>2, RetryShape DEF WriteArchitecture
  <2>3. CASE ~architecture[Repo(w)]
    <3>1. InsertsArchitecture(w)
      BY <1>10, <2>1, <2>3 DEF WriteArchitecture, InsertsArchitecture
    <3>2. Goto(w, STRUCTURE, "finish") /\ PcOK("finish", STRUCTURE) /\ UNCHANGED queue
      BY <1>10, <2>3 DEF WriteArchitecture, brokerVars, PcOK
    <3> QED BY <2>1, <3>1, <3>2, GotoShape DEF Insertion
  <2> QED BY <2>2, <2>3
<1>11. CASE WriteDependencies(w)
  <2>1. /\ InBody(w) /\ At(w, DEPENDENCIES, "work")
        /\ UNCHANGED <<request, target, architecture, reports, metrics>>
    BY <1>11 DEF WriteDependencies, At, InBody, requestVars
  <2>2. Retry(w) \/ (Goto(w, DEPENDENCIES, "finish") /\ UNCHANGED queue)
    BY <1>11 DEF WriteDependencies, brokerVars
  <2>3. CASE Retry(w)
    BY <2>1, <2>3, RetryShape
  <2>4. CASE Goto(w, DEPENDENCIES, "finish") /\ UNCHANGED queue
    <3>1. PcOK("finish", DEPENDENCIES)
      BY DEF PcOK
    <3>2. Quiet(w)
      BY <2>1, <2>4, MoveIsQuiet DEF At
    <3> QED BY <2>1, <2>4, <3>1, <3>2, GotoShape
  <2> QED BY <2>2, <2>3, <2>4
<1>12. CASE WriteReport(w)
  <2>1. /\ InBody(w) /\ Goto(w, SECURITY, "finish") /\ PcOK("finish", SECURITY)
        /\ UNCHANGED <<request, target, queue>>
    BY <1>12 DEF WriteReport, At, InBody, PcOK, requestVars, brokerVars
  <2>2. InsertsReport(w)
    BY <1>12 DEF WriteReport, InsertsReport
  <2> QED BY <2>1, <2>2, GotoShape DEF Insertion
<1>13. CASE ScheduleEmbeddings(w)
  <2>1. /\ InBody(w) /\ Goto(w, EMBEDDINGS, "finish") /\ PcOK("finish", EMBEDDINGS)
        /\ At(w, EMBEDDINGS, "work")
        /\ UNCHANGED <<request, target, queue, architecture, reports, metrics>>
    BY <1>13 DEF ScheduleEmbeddings, At, InBody, PcOK, requestVars, brokerVars
  <2> QED BY <2>1, GotoShape, MoveIsQuiet DEF At
<1>14. CASE WriteMetrics(w)
  <2>1. /\ InBody(w) /\ At(w, COMPLETED, "work")
        /\ UNCHANGED <<request, target, architecture, reports>>
    BY <1>14 DEF WriteMetrics, At, InBody, requestVars
  <2>2. CASE metrics[Repo(w)]
    BY <1>14, <2>1, <2>2, RetryShape DEF WriteMetrics
  <2>3. CASE ~metrics[Repo(w)]
    <3>1. InsertsMetrics(w)
      BY <1>14, <2>1, <2>3 DEF WriteMetrics, InsertsMetrics
    <3>2. /\ Goto(w, COMPLETED, "search_index") /\ PcOK("search_index", COMPLETED)
          /\ UNCHANGED queue
      BY <1>14, <2>3 DEF WriteMetrics, brokerVars, PcOK
    <3> QED BY <2>1, <3>1, <3>2, GotoShape DEF Insertion
  <2> QED BY <2>2, <2>3
<1>15. CASE IndexForSearch(w)
  <2>1. /\ InBody(w) /\ Goto(w, COMPLETED, "finish") /\ PcOK("finish", COMPLETED)
        /\ phase[w] = "search_index" /\ stage[w] = COMPLETED
        /\ UNCHANGED <<request, target, queue, architecture, reports, metrics>>
    BY <1>1, <1>15 DEF IndexForSearch, InBody, PcOK, requestVars, brokerVars
  <2> QED BY <2>1, GotoShape, MoveIsQuiet
<1>16. CASE PublishCompleted(w)
  <2>1. /\ InBody(w) /\ Return(w, "ok")
        /\ UNCHANGED <<request, target, queue, architecture, reports, metrics>>
    BY <1>16 DEF PublishCompleted, InBody, requestVars, artefactVars
  <2> QED BY <2>1, ReturnShape
<1>17. CASE Acknowledge(w)
  <2>1. BecomeIdle(w) /\ PcOK("idle", QUEUED)
        /\ UNCHANGED <<request, target, queue, architecture, reports, metrics>>
    BY <1>17 DEF Acknowledge, PcOK, requestVars, artefactVars, brokerVars
  <2> QED BY <2>1, BecomeIdleEffect, OutOfBodyIsQuiet DEF StepShape
<1>18. CASE BodyRaises(w)
  <2>1. /\ InBody(w) /\ Retry(w)
        /\ UNCHANGED <<request, target, architecture, reports, metrics>>
    BY <1>18 DEF BodyRaises, requestVars, artefactVars
  <2> QED BY <2>1, RetryShape
<1>19. CASE HardTimeLimit(w)
  <2>1. BecomeIdle(w) /\ PcOK("idle", QUEUED)
        /\ UNCHANGED <<request, target, queue, architecture, reports, metrics>>
    BY <1>19 DEF HardTimeLimit, PcOK, requestVars, artefactVars
  <2> QED BY <2>1, BecomeIdleEffect, OutOfBodyIsQuiet DEF StepShape
<1>20. CASE WorkerLost(w)
  <2>1. BecomeIdle(w) /\ PcOK("idle", QUEUED) /\ phase[w] # "idle"
        /\ queue' = [queue EXCEPT ![task[w]] = @ + 1]
        /\ UNCHANGED <<request, target, architecture, reports, metrics>>
    BY <1>20 DEF WorkerLost, PcOK, requestVars, artefactVars
  <2>2. \A m \in Messages : queue'[m] > 0 => queue[m] > 0 \/ m.run = Run(w)
    BY <2>1 DEF BrokerType, Run
  <2> QED BY <2>1, <2>2, BecomeIdleEffect, OutOfBodyIsQuiet DEF StepShape
<1>21. CASE ConnectionLost(w)
  <2>1. /\ phase[w] # "idle"
        /\ queue' = [queue EXCEPT ![task[w]] = @ + 1]
        /\ UNCHANGED <<request, target, architecture, reports, metrics>>
        /\ UNCHANGED <<task, phase, stage>>
    BY <1>21 DEF ConnectionLost, workerVars, requestVars, artefactVars
  <2>2. \A m \in Messages : queue'[m] > 0 => queue[m] > 0 \/ m.run = Run(w)
    BY <2>1 DEF BrokerType, Run
  <2>3. StepShape(w)
    BY <1>1, <2>1, <2>2 DEF StepShape, OthersStay
  <2>4. Quiet(w)
    BY <2>1 DEF Quiet, PastArchitecture, PastReport, PastMetrics, InBody, At
  <2> QED BY <2>3, <2>4
<1> QED
  BY <1>2, <1>3, <1>4, <1>5, <1>6, <1>7, <1>8, <1>9, <1>10, <1>11, <1>12, <1>13,
     <1>14, <1>15, <1>16, <1>17, <1>18, <1>19, <1>20, <1>21
  DEF WorkerStep, WorkerFault, Body

-----------------------------------------------------------------------------
(* Preservation.                                                           *)

\* A step of the shape keeps the program counters.
LEMMA StepKeepsControl ==
    ASSUME ControlInv, NEW w \in Workers, StepShape(w)
    PROVE  ControlInv'
BY DEF ControlInv, StepShape, OthersStay, PcOK

\* It leaves messages and attempts with runs somebody has asked for.
LEMMA StepKeepsOwned ==
    ASSUME WorkerType, OwnedInv, NEW w \in Workers, StepShape(w)
    PROVE  OwnedInv'
<1>1. ASSUME NEW m \in Messages, queue'[m] > 0
      PROVE  target'[m.run] \in Repos
  BY <1>1 DEF StepShape, OwnedInv, Run
<1>2. ASSUME NEW v \in Workers, phase'[v] # "idle"
      PROVE  task'[v] \in Messages /\ target'[task'[v].run] \in Repos
  BY <1>2 DEF StepShape, OthersStay, OwnedInv
<1> QED BY <1>1, <1>2 DEF OwnedInv, StepShape

\* An attempt in its body works for a run somebody asked for.
LEMMA RepoOfBody ==
    ASSUME TypeOK, OwnedInv, NEW w \in Workers, InBody(w)
    PROVE  Repo(w) \in Repos /\ Run(w) \in Runs
BY DEF OwnedInv, InBody, Repo, Run, Messages

\* The other workers stand towards the artefacts as they did before.
LEMMA OthersStand ==
    ASSUME NEW w \in Workers, NEW v \in Workers, v # w, OthersStay(w), UNCHANGED target
    PROVE  /\ PastArchitecture(v)' <=> PastArchitecture(v)
           /\ PastReport(v)' <=> PastReport(v)
           /\ PastMetrics(v)' <=> PastMetrics(v)
           /\ Repo(v)' = Repo(v)
BY DEF OthersStay, PastArchitecture, PastReport, PastMetrics, InBody, At, Repo, Run

\* The standing of the worker that inserts.
LEMMA InsertionStand ==
    ASSUME TypeOK, OwnedInv, NEW w \in Workers, Insertion(w), UNCHANGED target
    PROVE  /\ OthersStay(w) /\ InBody(w) /\ Repo(w)' = Repo(w) /\ Repo(w) \in Repos
           /\ PastArchitecture(w)'
           /\ InsertsArchitecture(w) => ~PastArchitecture(w) /\ ~PastReport(w)' /\ ~PastMetrics(w)'
           /\ InsertsReport(w) => /\ PastArchitecture(w) /\ ~PastReport(w) /\ ~PastMetrics(w)
                                  /\ PastReport(w)' /\ ~PastMetrics(w)'
           /\ InsertsMetrics(w) => /\ PastArchitecture(w) /\ PastReport(w) /\ ~PastMetrics(w)
                                   /\ PastReport(w)' /\ PastMetrics(w)'
<1>0. WorkerType /\ InBody(w)
  BY TypeParts
  DEF TypeConjuncts, Insertion, InsertsArchitecture, InsertsReport, InsertsMetrics, At, InBody
<1>1. /\ OthersStay(w) /\ task' = task
      /\ InsertsArchitecture(w) => phase'[w] = "finish" /\ stage'[w] = STRUCTURE
      /\ InsertsReport(w) => phase'[w] = "finish" /\ stage'[w] = SECURITY
      /\ InsertsMetrics(w) => phase'[w] = "search_index" /\ stage'[w] = COMPLETED
  BY <1>0, GotoEffect
  DEF Insertion, InsertsArchitecture, InsertsReport, InsertsMetrics
<1>2. Repo(w)' = Repo(w) /\ Repo(w) \in Repos
  BY <1>0, <1>1, RepoOfBody DEF Repo, Run
<1> QED
  BY <1>0, <1>1, <1>2, StageOrder
  DEF Insertion, InsertsArchitecture, InsertsReport, InsertsMetrics, At, InBody,
      PastArchitecture, PastReport, PastMetrics, StageNumbers

\* A step that leaves the artefacts alone moves nobody past one.
LEMMA QuietKeepsSlots ==
    ASSUME SlotInv, NEW w \in Workers, StepShape(w), Quiet(w)
    PROVE  SlotInv'
<1>1. UNCHANGED <<architecture, reports, metrics, target>> /\ OthersStay(w)
  BY DEF StepShape, Quiet
<1>2. \A v \in Workers : PastArchitecture(v)' =>
        /\ PastArchitecture(v) /\ Repo(v)' = Repo(v)
        /\ PastReport(v)' <=> PastReport(v)
        /\ PastMetrics(v)' <=> PastMetrics(v)
  <2> SUFFICES ASSUME NEW v \in Workers, PastArchitecture(v)'
               PROVE  /\ PastArchitecture(v) /\ Repo(v)' = Repo(v)
                      /\ PastReport(v)' <=> PastReport(v)
                      /\ PastMetrics(v)' <=> PastMetrics(v)
    OBVIOUS
  <2>1. CASE v = w
    BY <1>1, <2>1 DEF Quiet, Repo, Run
  <2>2. CASE v # w
    BY <1>1, <2>2, OthersStand
  <2> QED BY <2>1, <2>2
<1> QED BY <1>1, <1>2 DEF SlotInv

\* Inserting the next artefact keeps the rows in order and the attempt past the
\* architecture alone.
LEMMA InsertionKeepsSlots ==
    ASSUME TypeOK, OwnedInv, SlotInv, NEW w \in Workers, StepShape(w), Insertion(w)
    PROVE  SlotInv'
<1>0. UNCHANGED target
  BY DEF StepShape
<1> DEFINE r == Repo(w)
<1>1. r \in Repos /\ r' = r /\ OthersStay(w) /\ PastArchitecture(w)'
  BY <1>0, InsertionStand
<1>2. architecture \in [Repos -> BOOLEAN] /\ reports \in [Repos -> Nat]
      /\ metrics \in [Repos -> BOOLEAN]
  BY TypeParts DEF TypeConjuncts, ArtefactType
<1>3. \A v \in Workers \ {w} :
        /\ PastArchitecture(v)' <=> PastArchitecture(v)
        /\ PastReport(v)' <=> PastReport(v)
        /\ PastMetrics(v)' <=> PastMetrics(v)
        /\ Repo(v)' = Repo(v)
  BY <1>0, <1>1, OthersStand
<1>4. \A v \in Workers \ {w} : PastArchitecture(v) => Repo(v) # r
  <2>1. CASE InsertsArchitecture(w)
    BY <2>1 DEF InsertsArchitecture, SlotInv
  <2>2. CASE InsertsReport(w) \/ InsertsMetrics(w)
    BY <1>0, <2>2, InsertionStand DEF SlotInv
  <2> QED BY <2>1, <2>2 DEF Insertion
<1>5. \A q \in Repos : q # r =>
        architecture'[q] = architecture[q] /\ reports'[q] = reports[q] /\ metrics'[q] = metrics[q]
  BY <1>2 DEF Insertion, InsertsArchitecture, InsertsReport, InsertsMetrics
<1>6. /\ architecture'[r]
      /\ reports'[r] = IF PastReport(w)' THEN 1 ELSE 0
      /\ metrics'[r] <=> PastMetrics(w)'
  <2>1. CASE InsertsArchitecture(w)
    <3>1. ~architecture[r] /\ architecture'[r] /\ reports'[r] = reports[r]
          /\ metrics'[r] = metrics[r] /\ ~PastReport(w)' /\ ~PastMetrics(w)'
      BY <1>0, <1>1, <1>2, <2>1, InsertionStand DEF InsertsArchitecture
    <3>2. reports[r] = 0 /\ ~metrics[r]
      BY <1>1, <1>2, <3>1 DEF SlotInv
    <3> QED BY <3>1, <3>2
  <2>2. CASE InsertsReport(w)
    <3>1. /\ PastArchitecture(w) /\ ~PastReport(w) /\ ~PastMetrics(w)
          /\ PastReport(w)' /\ ~PastMetrics(w)'
      BY <1>0, <2>2, InsertionStand
    <3>2. architecture[r] /\ reports[r] = 0 /\ ~metrics[r]
      BY <3>1 DEF SlotInv
    <3>3. reports'[r] = reports[r] + 1 /\ architecture' = architecture /\ metrics' = metrics
      BY <1>1, <1>2, <2>2 DEF InsertsReport
    <3> QED BY <3>1, <3>2, <3>3
  <2>3. CASE InsertsMetrics(w)
    <3>1. /\ PastArchitecture(w) /\ PastReport(w)
          /\ PastReport(w)' /\ PastMetrics(w)'
      BY <1>0, <2>3, InsertionStand
    <3>2. architecture[r] /\ reports[r] = 1
      BY <3>1 DEF SlotInv
    <3>3. metrics'[r] /\ architecture' = architecture /\ reports' = reports
      BY <1>1, <1>2, <2>3 DEF InsertsMetrics
    <3> QED BY <3>1, <3>2, <3>3
  <2> QED BY <2>1, <2>2, <2>3 DEF Insertion
<1>7. PastMetrics(w)' => PastReport(w)'
  BY <1>0, InsertionStand DEF Insertion
<1>8. \A q \in Repos : /\ reports'[q] <= 1
                       /\ reports'[q] = 1 => architecture'[q]
                       /\ metrics'[q] => reports'[q] = 1
  BY <1>5, <1>6, <1>7 DEF SlotInv
<1>9. \A v \in Workers : PastArchitecture(v)' =>
        /\ architecture'[Repo(v)']
        /\ reports'[Repo(v)'] = IF PastReport(v)' THEN 1 ELSE 0
        /\ metrics'[Repo(v)'] <=> PastMetrics(v)'
  <2> SUFFICES ASSUME NEW v \in Workers, PastArchitecture(v)'
               PROVE  /\ architecture'[Repo(v)']
                      /\ reports'[Repo(v)'] = IF PastReport(v)' THEN 1 ELSE 0
                      /\ metrics'[Repo(v)'] <=> PastMetrics(v)'
    OBVIOUS
  <2>1. CASE v = w
    BY <1>1, <1>6, <2>1
  <2>2. CASE v # w
    <3>1. /\ PastArchitecture(v) /\ Repo(v)' = Repo(v) /\ Repo(v) # r
          /\ PastReport(v)' <=> PastReport(v)
          /\ PastMetrics(v)' <=> PastMetrics(v)
      BY <1>3, <1>4, <2>2
    <3>2. Repo(v) \in Repos
      BY <3>1, RepoOfBody DEF PastArchitecture
    <3> QED BY <1>5, <3>1, <3>2 DEF SlotInv
  <2> QED BY <2>1, <2>2
<1>10. \A u, v \in Workers :
         PastArchitecture(u)' /\ PastArchitecture(v)' /\ Repo(u)' = Repo(v)' => u = v
  BY <1>1, <1>3, <1>4 DEF SlotInv
<1> QED BY <1>8, <1>9, <1>10 DEF SlotInv

\* A new request gives a target to a run that no message and no worker has.
LEMMA OpenKeepsArtefactInv ==
    ASSUME TypeOK, ArtefactInv, NEW a \in Runs, NEW r \in Repos,
           AddRepository(a, r) \/ Reprocess(a, r)
    PROVE  ArtefactInv'
<1>1. /\ request[a] = "none" /\ request' = [request EXCEPT ![a] = "open"]
      /\ target' = [target EXCEPT ![a] = r] /\ Delay(a)
      /\ UNCHANGED <<artefactVars, workerVars>>
  BY DEF AddRepository, Reprocess, OpenRequest
<1>2. /\ UNCHANGED <<architecture, reports, metrics, task, phase, stage>>
  BY <1>1 DEF artefactVars, workerVars
<1>3. /\ request \in [Runs -> RequestStates] /\ target \in [Runs -> Repos \cup {NoRepo}]
      /\ queue \in [Messages -> Nat]
  BY DEF TypeOK
<1>4. target[a] \notin Repos
  BY <1>1, NullsAssumption DEF ArtefactInv, OwnedInv
<1>5. \A b \in Runs : target[b] \in Repos => target'[b] = target[b]
  BY <1>1, <1>3, <1>4
<1>6. OwnedInv'
  <2>1. \A b \in Runs : request'[b] = "none" => target'[b] = NoRepo
    BY <1>1, <1>3 DEF ArtefactInv, OwnedInv
  <2>2. ASSUME NEW m \in Messages, queue'[m] > 0
        PROVE  target'[m.run] \in Repos
    <3>1. queue[m] > 0 \/ m.run = a
      BY <1>1, <1>3, <2>2 DEF Delay
    <3>2. m.run \in Runs
      BY DEF Messages
    <3>3. CASE m.run = a
      BY <1>1, <1>3, <3>3
    <3>4. CASE queue[m] > 0
      BY <1>5, <3>2, <3>4 DEF ArtefactInv, OwnedInv
    <3> QED BY <3>1, <3>3, <3>4
  <2>3. ASSUME NEW w \in Workers, phase[w] # "idle"
        PROVE  task[w] \in Messages /\ target'[task[w].run] \in Repos
    BY <1>5, <2>3 DEF ArtefactInv, OwnedInv, Messages
  <2> QED BY <1>2, <2>1, <2>2, <2>3 DEF OwnedInv
<1>7. ControlInv'
  BY <1>2 DEF ArtefactInv, ControlInv
<1>8. \A w \in Workers : /\ PastArchitecture(w)' <=> PastArchitecture(w)
                         /\ PastReport(w)' <=> PastReport(w)
                         /\ PastMetrics(w)' <=> PastMetrics(w)
                         /\ InBody(w) => Repo(w)' = Repo(w)
  <2> SUFFICES ASSUME NEW w \in Workers
               PROVE  /\ PastArchitecture(w)' <=> PastArchitecture(w)
                      /\ PastReport(w)' <=> PastReport(w)
                      /\ PastMetrics(w)' <=> PastMetrics(w)
                      /\ InBody(w) => Repo(w)' = Repo(w)
    OBVIOUS
  <2>1. InBody(w) => Repo(w) \in Repos /\ Run(w) \in Runs
    BY RepoOfBody DEF ArtefactInv
  <2>2. InBody(w) => Repo(w)' = Repo(w)
    BY <1>2, <1>5, <2>1 DEF Repo, Run
  <2> QED BY <1>2, <2>2 DEF PastArchitecture, PastReport, PastMetrics, InBody, At
<1>9. SlotInv'
  BY <1>2, <1>8 DEF ArtefactInv, SlotInv, PastArchitecture
<1> QED BY <1>6, <1>7, <1>9 DEF ArtefactInv

\* Ending a request and deleting a repository touch no artefact and no worker.
LEMMA OtherRequestsKeepArtefactInv ==
    ASSUME TypeOK, ArtefactInv,
           \/ \E a \in Runs : EndRequest(a)
           \/ \E r \in Repos : DeleteRepository(r)
           \/ UNCHANGED vars
    PROVE  ArtefactInv'
<1>1. UNCHANGED <<target, queue, architecture, reports, metrics, task, phase, stage>>
  BY DEF EndRequest, CommitRequest, RollbackRequest, DeleteRepository, vars,
         requestVars, artefactVars, brokerVars, workerVars
<1>2. \A a \in Runs : request'[a] = "none" => request[a] = "none"
  <2>1. CASE \E a \in Runs : EndRequest(a)
    BY <2>1 DEF EndRequest, CommitRequest, RollbackRequest, TypeOK
  <2>2. CASE UNCHANGED request
    BY <2>2
  <2> QED BY <2>1, <2>2 DEF DeleteRepository, vars, requestVars
<1>3. OwnedInv'
  BY <1>1, <1>2 DEF ArtefactInv, OwnedInv
<1>4. ControlInv'
  BY <1>1 DEF ArtefactInv, ControlInv
<1>5. SlotInv'
  BY <1>1 DEF ArtefactInv, SlotInv, PastArchitecture, PastReport, PastMetrics, InBody, At,
              Repo, Run
<1> QED BY <1>3, <1>4, <1>5 DEF ArtefactInv

\* So a worker's step keeps the inductive invariant.
LEMMA WorkerKeepsArtefactInv ==
    ASSUME TypeOK, ArtefactInv, NEW w \in Workers, WorkerStep(w) \/ WorkerFault(w)
    PROVE  ArtefactInv'
<1>1. StepShape(w) /\ (Quiet(w) \/ Insertion(w))
  BY WorkerShape DEF ArtefactInv
<1>2. ControlInv'
  BY <1>1, StepKeepsControl DEF ArtefactInv
<1>3. OwnedInv'
  BY <1>1, StepKeepsOwned, TypeParts DEF ArtefactInv, TypeConjuncts
<1>4. SlotInv'
  BY <1>1, QuietKeepsSlots, InsertionKeepsSlots DEF ArtefactInv
<1> QED BY <1>2, <1>3, <1>4 DEF ArtefactInv

\* Nothing is stored and nobody works when the system starts.
LEMMA InitArtefactInv == Init => ArtefactInv
<1> SUFFICES ASSUME Init PROVE ArtefactInv
  OBVIOUS
<1>1. ControlInv
  BY DEF Init, ControlInv, QUEUED
<1>2. OwnedInv
  BY DEF Init, OwnedInv
<1>3. SlotInv
  BY DEF Init, SlotInv, PastArchitecture, InBody
<1> QED BY <1>1, <1>2, <1>3 DEF ArtefactInv

\* However requests, workers, retries and redeliveries interleave, at most one
\* attempt per repository is past the insertion of the architecture, and it
\* finds the report and the metrics exactly as it left them.
THEOREM ArtefactsInvariant == Spec => []ArtefactInv
<1>1. TypeOK /\ ArtefactInv /\ [Next]_vars => ArtefactInv'
  <2> SUFFICES ASSUME TypeOK, ArtefactInv, [Next]_vars PROVE ArtefactInv'
    OBVIOUS
  <2>1. CASE \E a \in Runs, r \in Repos : AddRepository(a, r) \/ Reprocess(a, r)
    BY <2>1, OpenKeepsArtefactInv
  <2>2. CASE \E w \in Workers : WorkerStep(w) \/ WorkerFault(w)
    BY <2>2, WorkerKeepsArtefactInv
  <2> QED BY <2>1, <2>2, OtherRequestsKeepArtefactInv DEF Next
<1> QED BY <1>1, InitArtefactInv, TypeCorrect, PTL DEF Spec

\* latest_with_findings never has two reports to choose from.
THEOREM LatestReportIsUnique == Spec => []SingleLatestReport
<1>1. ArtefactInv => SingleLatestReport
  BY DEF ArtefactInv, SlotInv, SingleLatestReport
<1> QED BY <1>1, ArtefactsInvariant, PTL

-----------------------------------------------------------------------------
(* Refinement of AnalysisArtefacts.                                        *)

\* The requests, and the steps of a worker that insert nothing, leave what
\* readers see as it was; an insertion publishes the next artefact.
LEMMA StepRefines ==
    ASSUME TypeOK, ArtefactInv, Next
    PROVE  Artefacts!Next \/ UNCHANGED <<architecture, reports, metrics>>
<1>1. CASE \E a \in Runs, r \in Repos : AddRepository(a, r) \/ Reprocess(a, r)
  BY <1>1 DEF AddRepository, Reprocess, artefactVars
<1>2. CASE (\E a \in Runs : EndRequest(a)) \/ (\E r \in Repos : DeleteRepository(r))
  BY <1>2 DEF EndRequest, CommitRequest, RollbackRequest, DeleteRepository, artefactVars
<1>3. ASSUME NEW w \in Workers, WorkerStep(w) \/ WorkerFault(w)
      PROVE  Artefacts!Next \/ UNCHANGED <<architecture, reports, metrics>>
  <2>1. StepShape(w) /\ (Quiet(w) \/ Insertion(w))
    BY <1>3, WorkerShape DEF ArtefactInv
  <2>2. CASE Quiet(w)
    BY <2>2 DEF Quiet
  <2>3. UNCHANGED target /\ architecture \in [Repos -> BOOLEAN]
        /\ reports \in [Repos -> Nat] /\ metrics \in [Repos -> BOOLEAN]
    BY <2>1 DEF StepShape, TypeOK
  <2>4. CASE Insertion(w)
    <3>1. PICK r \in Repos : r = Repo(w)
      BY <2>3, <2>4, InsertionStand DEF ArtefactInv
    <3>2. CASE InsertsArchitecture(w)
      <4>1. ~architecture[r] /\ reports[r] = 0 /\ ~metrics[r]
        BY <2>3, <3>1, <3>2 DEF InsertsArchitecture, ArtefactInv, SlotInv
      <4>2. Artefacts!PublishArchitecture(r)
        BY <2>3, <3>1, <3>2, <4>1
        DEF InsertsArchitecture, Artefacts!PublishArchitecture, Artefacts!Publish, Artefacts!Shelf
      <4> QED BY <4>2 DEF Artefacts!Next
    <3>3. CASE InsertsReport(w)
      <4>1. PastArchitecture(w) /\ ~PastReport(w) /\ ~PastMetrics(w)
        BY <2>3, <2>4, <3>3, InsertionStand DEF ArtefactInv
      <4>2. architecture[r] /\ reports[r] = 0 /\ ~metrics[r]
        BY <2>3, <3>1, <4>1 DEF ArtefactInv, SlotInv
      <4>3. reports' = [reports EXCEPT ![r] = 1] /\ UNCHANGED <<architecture, metrics>>
        BY <3>1, <3>3, <4>2 DEF InsertsReport
      <4>4. Artefacts!PublishReport(r)
        BY <2>3, <4>2, <4>3
        DEF Artefacts!PublishReport, Artefacts!Publish, Artefacts!Shelf
      <4> QED BY <4>4 DEF Artefacts!Next
    <3>4. CASE InsertsMetrics(w)
      <4>1. PastArchitecture(w) /\ PastReport(w)
        BY <2>3, <2>4, <3>4, InsertionStand DEF ArtefactInv
      <4>2. architecture[r] /\ reports[r] = 1 /\ ~metrics[r]
        BY <2>3, <3>1, <3>4, <4>1 DEF InsertsMetrics, ArtefactInv, SlotInv
      <4>3. Artefacts!PublishMetrics(r)
        BY <2>3, <3>1, <3>4, <4>2
        DEF InsertsMetrics, Artefacts!PublishMetrics, Artefacts!Publish, Artefacts!Shelf
      <4> QED BY <4>3 DEF Artefacts!Next
    <3> QED BY <2>4, <3>2, <3>3, <3>4 DEF Insertion
  <2> QED BY <2>1, <2>2, <2>4
<1> QED BY <1>1, <1>2, <1>3 DEF Next

\* The pipeline implements AnalysisArtefacts: a reader sees the architecture,
\* the report and the metrics of a repository appear once each, in order.
THEOREM Refinement == Spec => ArtefactsPublishedOnce
<1>1. Init => Artefacts!Init
  BY DEF Init, Artefacts!Init, Artefacts!Shelf
<1>2. TypeOK /\ ArtefactInv /\ [Next]_vars
        => [Artefacts!Next]_([r \in Repos |-> [architecture |-> architecture[r],
                                               reports |-> reports[r],
                                               metrics |-> metrics[r]]])
  <2> SUFFICES ASSUME TypeOK, ArtefactInv, [Next]_vars
               PROVE  Artefacts!Next \/ UNCHANGED <<architecture, reports, metrics>>
    OBVIOUS
  <2>1. CASE UNCHANGED vars
    BY <2>1 DEF vars, artefactVars
  <2> QED BY <2>1, StepRefines
<1> QED
  BY <1>1, <1>2, TypeCorrect, ArtefactsInvariant, PTL
  DEF Spec, ArtefactsPublishedOnce, Artefacts!Spec

-----------------------------------------------------------------------------
(* Completed runs, and the document of the search index.                   *)

PastFiles(w) ==
    InBody(w) /\ (stage[w] > INDEXING \/ At(w, INDEXING, "finish"))

\* An attempt past the architecture has not completed a run yet, and no other
\* has; what a completed run has left stays; the search document comes after
\* the metrics, and before that there is none.
CompletedInv ==
    \A a \in Runs : completedAt[a] =>
        LET r == target[a] IN
        r \in Repos /\ metrics[r] /\ fileSets[r] > 0 /\ lastAnalyzed[r]

SettlingInv ==
    \A w \in Workers, a \in Runs :
        PastArchitecture(w) /\ phase[w] # "publish" /\ target[a] = Repo(w) => ~completedAt[a]

DocumentInv ==
    /\ \A r \in Repos : searchDoc[r] # "none" => metrics[r]
    /\ \A w \in Workers : phase[w] = "search_index" => searchDoc[Repo(w)] = "none"

FilesInv == \A w \in Workers : PastFiles(w) => fileSets[Repo(w)] > 0

ResultsInv == CompletedInv /\ SettlingInv /\ OneCompletedRun /\ DocumentInv /\ FilesInv

\* The step in which a worker completes its run.
Completes(w) ==
    /\ phase[w] = "finish" /\ stage[w] = COMPLETED /\ phase'[w] = "publish"
    /\ lastAnalyzed'[Repo(w)] /\ task' = task

\* What a step of a worker does to these rows.
Leaves(w) ==
    /\ \A r \in Repos : /\ lastAnalyzed[r] => lastAnalyzed'[r]
                        /\ fileSets[r] > 0 => fileSets'[r] > 0
                        /\ searchDoc'[r] # searchDoc[r] =>
                              /\ r = Repo(w) /\ phase[w] = "search_index"
                              /\ phase'[w] # "search_index"
    /\ \A a \in Runs : completedAt'[a] => completedAt[a] \/ (a = Run(w) /\ Completes(w))
    /\ PastFiles(w)' => /\ task'[w] = task[w]
                        /\ PastFiles(w) \/ fileSets'[Repo(w)] > 0
    /\ phase'[w] = "search_index" =>
          /\ task'[w] = task[w]
          /\ InsertsMetrics(w) \/ phase[w] = "search_index"
    /\ phase[w] = "publish" => phase'[w] \in {"publish", "ack", "idle"}

\* A report of progress dates the repository when it completes the run.
LEMMA AdvanceStepEffect ==
    ASSUME ProgressType, NEW a \in Runs, target[a] \in Repos, NEW s, NEW status,
           AdvanceStep(a, s, status)
    PROVE  /\ \A r \in Repos : lastAnalyzed[r] => lastAnalyzed'[r]
           /\ \A b \in Runs : completedAt'[b] =>
                 completedAt[b] \/ (/\ b = a /\ s = COMPLETED /\ status = "completed"
                                    /\ lastAnalyzed'[target[a]])
<1>1. CASE ~HasStep(a, s)
  BY <1>1 DEF AdvanceStep, progressVars
<1>2. CASE HasStep(a, s)
  <2>1. /\ completedAt' = [completedAt EXCEPT
                ![a] = @ \/ (s = COMPLETED /\ status = "completed")]
        /\ lastAnalyzed' = [lastAnalyzed EXCEPT ![target[a]] = @ \/ s = COMPLETED]
    BY <1>2 DEF AdvanceStep
  <2>2. /\ completedAt'[a] <=> completedAt[a] \/ (s = COMPLETED /\ status = "completed")
        /\ \A b \in Runs : b # a => completedAt'[b] = completedAt[b]
    BY <2>1, Zenon DEF ProgressType
  <2>3. /\ lastAnalyzed'[target[a]] <=> lastAnalyzed[target[a]] \/ s = COMPLETED
        /\ \A r \in Repos : r # target[a] => lastAnalyzed'[r] = lastAnalyzed[r]
    BY <2>1, Zenon DEF ProgressType
  <2> QED BY <2>2, <2>3
<1> QED BY <1>1, <1>2

\* A step that reports nothing, indexes nothing and leaves the search alone.
LEMMA SilentLeaves ==
    ASSUME WorkerType, NEW w \in Workers,
           UNCHANGED <<lastAnalyzed, completedAt, fileSets, searchDoc>>,
           PastFiles(w)' => PastFiles(w) /\ task'[w] = task[w],
           phase'[w] = "search_index" => task'[w] = task[w] /\ InsertsMetrics(w),
           phase[w] = "publish" => phase'[w] \in {"ack", "idle"}
    PROVE  Leaves(w)
BY DEF Leaves

\* Every step of a worker is of this form.
LEMMA WorkerLeaves ==
    ASSUME TypeOK, ControlInv, OwnedInv, NEW w \in Workers, WorkerStep(w) \/ WorkerFault(w)
    PROVE  Leaves(w)
<1>0. WorkerType /\ BrokerType /\ ProgressType /\ fileSets \in [Repos -> Nat]
  BY TypeParts DEF TypeConjuncts, ArtefactType
<1> USE <1>0, StageOrder DEF StageNumbers
<1>1. stage[w] \in Nat /\ PcOK(phase[w], stage[w])
  BY DEF WorkerType, ControlInv, PcOK
<1>2. InBody(w) => Repo(w) \in Repos /\ Run(w) \in Runs
  BY RepoOfBody
<1>3. CASE Receive(w)
  <2>1. phase[w] = "idle" /\ phase'[w] = "load"
        /\ UNCHANGED <<stage, lastAnalyzed, completedAt, fileSets, searchDoc>>
    BY <1>3 DEF Receive, WorkerType, progressVars, artefactVars
  <2> QED BY <1>1, <2>1, SilentLeaves DEF PastFiles, At, PcOK
<1>4. CASE LoadRepository(w)
  <2>1. /\ phase[w] = "load" /\ phase'[w] \in {"start", "ack"} /\ stage'[w] \in {QUEUED, CLONING}
        /\ UNCHANGED <<lastAnalyzed, completedAt, fileSets, searchDoc>>
    BY <1>4, GotoEffect DEF LoadRepository, Return, WorkerType, progressVars, artefactVars
  <2> QED BY <2>1, SilentLeaves DEF PastFiles, At
<1>5. CASE StartStage(w)
  <2>1. /\ phase[w] = "start" /\ AdvanceStep(Run(w), stage[w], "in_progress")
        /\ Goto(w, stage[w], IF stage[w] = GRAPH THEN "finish" ELSE "work")
        /\ UNCHANGED <<fileSets, searchDoc>>
    BY <1>5 DEF StartStage, artefactVars
  <2>2. /\ task' = task /\ stage'[w] = stage[w]
        /\ phase'[w] = IF stage[w] = GRAPH THEN "finish" ELSE "work"
    BY <2>1, GotoEffect
  <2>3. Repo(w) \in Repos /\ Run(w) \in Runs
    BY <1>2, <2>1 DEF InBody
  <2>4. /\ \A r \in Repos : lastAnalyzed[r] => lastAnalyzed'[r]
        /\ \A a \in Runs : completedAt'[a] => completedAt[a]
    BY <2>1, <2>3, AdvanceStepEffect DEF Repo
  <2>5. PastFiles(w)' => PastFiles(w)
    BY <2>1, <2>2 DEF PastFiles, InBody, At
  <2> QED BY <2>1, <2>2, <2>4, <2>5 DEF Leaves
<1>6. CASE FinishStage(w)
  <2>1. /\ phase[w] = "finish" /\ AdvanceStep(Run(w), stage[w], "completed")
        /\ UNCHANGED <<fileSets, searchDoc>>
    BY <1>6 DEF FinishStage, artefactVars
  <2>2. \/ stage[w] = COMPLETED /\ Goto(w, COMPLETED, "publish")
        \/ stage[w] = GRAPH /\ Goto(w, COMPLETED, "work")
        \/ stage[w] # COMPLETED /\ stage[w] # GRAPH /\ Goto(w, stage[w] + 1, "start")
    BY <1>6 DEF FinishStage
  <2>3. /\ task' = task
        /\ \/ stage[w] = COMPLETED /\ phase'[w] = "publish" /\ stage'[w] = COMPLETED
           \/ stage[w] = GRAPH /\ phase'[w] = "work" /\ stage'[w] = COMPLETED
           \/ stage[w] < GRAPH /\ phase'[w] = "start" /\ stage'[w] = stage[w] + 1
    <3>1. stage[w] \in 1..8
      BY <1>1, <2>1 DEF PcOK
    <3> QED BY <2>2, <3>1, GotoEffect
  <2>4. Repo(w) \in Repos /\ Run(w) \in Runs
    BY <1>2, <2>1 DEF InBody
  <2>5. /\ \A r \in Repos : lastAnalyzed[r] => lastAnalyzed'[r]
        /\ \A a \in Runs : completedAt'[a] =>
              completedAt[a] \/ (a = Run(w) /\ stage[w] = COMPLETED /\ lastAnalyzed'[Repo(w)])
    BY <2>1, <2>4, AdvanceStepEffect DEF Repo
  <2>6. PastFiles(w)' => PastFiles(w)
    BY <1>1, <2>1, <2>3 DEF PastFiles, InBody, At
  <2> QED BY <2>1, <2>3, <2>5, <2>6 DEF Leaves, Completes
<1>7. CASE Clone(w)
  <2>1. /\ At(w, CLONING, "work") /\ Goto(w, CLONING, "finish")
        /\ UNCHANGED <<lastAnalyzed, completedAt, fileSets, searchDoc>>
    BY <1>7 DEF Clone, progressVars, artefactVars
  <2> QED BY <2>1, GotoEffect, SilentLeaves DEF PastFiles, At
<1>8. CASE CloneFails(w) \/ ReportFailure(w)
  <2>1. /\ phase[w] \in {"work", "clone_failed"} /\ stage[w] = CLONING
        /\ phase'[w] \in {"clone_failed", "ack"} /\ stage'[w] \in {QUEUED, CLONING}
        /\ UNCHANGED <<fileSets, searchDoc>>
    BY <1>1, <1>8, GotoEffect DEF CloneFails, ReportFailure, Return, At, artefactVars, PcOK
  <2>2. Repo(w) \in Repos /\ Run(w) \in Runs
    BY <1>2, <2>1 DEF InBody
  <2>3. \E s : s # COMPLETED /\ AdvanceStep(Run(w), s, "failed")
    BY <1>8 DEF CloneFails, ReportFailure, FAILED
  <2>4. /\ \A r \in Repos : lastAnalyzed[r] => lastAnalyzed'[r]
        /\ \A a \in Runs : completedAt'[a] => completedAt[a]
    BY <2>2, <2>3, AdvanceStepEffect DEF Repo
  <2>5. ~PastFiles(w)'
    BY <2>1 DEF PastFiles, At
  <2> QED BY <2>1, <2>4, <2>5 DEF Leaves
<1>9. CASE WriteFiles(w)
  <2>1. /\ At(w, INDEXING, "work") /\ Goto(w, INDEXING, "finish")
        /\ fileSets' = [fileSets EXCEPT ![Repo(w)] = @ + 1]
        /\ UNCHANGED <<lastAnalyzed, completedAt, searchDoc>>
    BY <1>9 DEF WriteFiles, progressVars
  <2>2. Repo(w) \in Repos
    BY <1>2, <2>1 DEF InBody, At
  <2>3. fileSets'[Repo(w)] > 0 /\ \A r \in Repos : fileSets[r] > 0 => fileSets'[r] > 0
    BY <2>1, <2>2
  <2> QED BY <2>1, <2>3, GotoEffect DEF Leaves, At
<1>10. CASE \/ WriteArchitecture(w) \/ WriteDependencies(w) \/ WriteReport(w)
            \/ ScheduleEmbeddings(w)
  <2>1. /\ phase[w] = "work" /\ stage[w] > INDEXING
        /\ UNCHANGED <<lastAnalyzed, completedAt, fileSets, searchDoc>>
    BY <1>10 DEF WriteArchitecture, WriteDependencies, WriteReport, ScheduleEmbeddings,
       At, progressVars, artefactVars
  <2>2. Retry(w) \/ Goto(w, stage[w], "finish")
    BY <1>10 DEF WriteArchitecture, WriteDependencies, WriteReport, ScheduleEmbeddings, At
  <2>3. PastFiles(w) /\ task' = task /\ phase'[w] \in {"ack", "finish"}
    BY <2>1, <2>2, GotoEffect, RetryEffect DEF PastFiles, InBody
  <2> QED BY <2>1, <2>3, SilentLeaves
<1>11. CASE WriteMetrics(w)
  <2>1. /\ phase[w] = "work" /\ stage[w] = COMPLETED
        /\ UNCHANGED <<lastAnalyzed, completedAt, fileSets, searchDoc>>
    BY <1>11 DEF WriteMetrics, At, progressVars, artefactVars
  <2>2. Retry(w) \/ (InsertsMetrics(w) /\ Goto(w, COMPLETED, "search_index"))
    BY <1>11 DEF WriteMetrics, InsertsMetrics
  <2>3. PastFiles(w) /\ task' = task /\ (phase'[w] = "ack" \/ InsertsMetrics(w))
    BY <2>1, <2>2, GotoEffect, RetryEffect DEF PastFiles, InBody
  <2> QED BY <2>1, <2>3, SilentLeaves
<1>12. CASE IndexForSearch(w)
  <2>1. /\ phase[w] = "search_index" /\ stage[w] = COMPLETED /\ Goto(w, COMPLETED, "finish")
        /\ UNCHANGED <<lastAnalyzed, completedAt, fileSets>>
    BY <1>1, <1>12 DEF IndexForSearch, PcOK, progressVars
  <2>2. \A r \in Repos : r # Repo(w) => searchDoc'[r] = searchDoc[r]
    <3>1. searchDoc \in [Repos -> SearchDocs]
      BY DEF TypeOK
    <3> QED BY <1>12, <3>1 DEF IndexForSearch
  <2>3. PastFiles(w) /\ task' = task /\ phase'[w] = "finish"
    BY <2>1, GotoEffect DEF PastFiles, InBody
  <2> QED BY <2>1, <2>2, <2>3 DEF Leaves
<1>13. CASE PublishCompleted(w) \/ BodyRaises(w)
  <2>1. phase'[w] = "ack" /\ UNCHANGED <<lastAnalyzed, completedAt, fileSets, searchDoc>>
    BY <1>13, GotoEffect, RetryEffect
    DEF PublishCompleted, BodyRaises, Return, progressVars, artefactVars
  <2> QED BY <2>1, SilentLeaves DEF PastFiles, InBody
<1>14. CASE Acknowledge(w) \/ HardTimeLimit(w) \/ WorkerLost(w)
  <2>1. phase'[w] = "idle" /\ UNCHANGED <<lastAnalyzed, completedAt, fileSets, searchDoc>>
    BY <1>14, BecomeIdleEffect
    DEF Acknowledge, HardTimeLimit, WorkerLost, progressVars, artefactVars
  <2> QED BY <2>1, SilentLeaves DEF PastFiles, InBody
<1>15. CASE ConnectionLost(w)
  <2>1. UNCHANGED <<lastAnalyzed, completedAt, fileSets, searchDoc, task, phase, stage>>
    BY <1>15 DEF ConnectionLost, progressVars, artefactVars, workerVars
  <2> QED BY <2>1 DEF Leaves, PastFiles, InBody, At
<1> QED
  BY <1>3, <1>4, <1>5, <1>6, <1>7, <1>8, <1>9, <1>10, <1>11, <1>12, <1>13, <1>14, <1>15
  DEF WorkerStep, WorkerFault, Body

\* Whoever completes its run is past everything; only one attempt of a
\* repository can be.
LEMMA CompletionStand ==
    ASSUME TypeOK, ArtefactInv, FilesInv, NEW w \in Workers, Completes(w)
    PROVE  /\ InBody(w) /\ PastArchitecture(w) /\ PastMetrics(w) /\ Repo(w) \in Repos
           /\ metrics[Repo(w)] /\ fileSets[Repo(w)] > 0 /\ phase[w] # "publish"
<1>1. InBody(w) /\ PastArchitecture(w) /\ PastMetrics(w) /\ PastFiles(w) /\ phase[w] # "publish"
  BY StageOrder
  DEF StageNumbers, Completes, InBody, PastArchitecture, PastMetrics, PastFiles
<1>2. Repo(w) \in Repos
  BY <1>1, RepoOfBody DEF ArtefactInv
<1> QED BY <1>1, <1>2 DEF ArtefactInv, SlotInv, FilesInv

\* The attempt that is indexing its repository is past everything as well.
LEMMA IndexingStand ==
    ASSUME TypeOK, ArtefactInv, NEW w \in Workers, phase[w] = "search_index"
    PROVE  /\ PastArchitecture(w) /\ Repo(w) \in Repos /\ metrics[Repo(w)]
<1>1. stage[w] = COMPLETED
  BY DEF ArtefactInv, ControlInv
<1>2. InBody(w) /\ PastArchitecture(w) /\ PastMetrics(w)
  BY <1>1, StageOrder DEF StageNumbers, InBody, PastArchitecture, PastMetrics
<1> QED BY <1>2, RepoOfBody DEF ArtefactInv, SlotInv

\* No step takes the metrics of a repository away.
LEMMA MetricsStay ==
    ASSUME TypeOK, OwnedInv, NEW w \in Workers, Quiet(w) \/ Insertion(w)
    PROVE  \A r \in Repos : metrics[r] => metrics'[r]
<1>1. CASE UNCHANGED metrics
  BY <1>1
<1>2. CASE metrics' = [metrics EXCEPT ![Repo(w)] = TRUE]
  BY <1>2, TypeParts DEF TypeConjuncts, ArtefactType
<1> QED
  BY <1>1, <1>2
  DEF Quiet, Insertion, InsertsArchitecture, InsertsReport, InsertsMetrics

\* A completed run keeps its results, and a run completes with them.
LEMMA WorkerKeepsCompleted ==
    ASSUME TypeOK, ArtefactInv, ResultsInv, NEW w \in Workers,
           StepShape(w), Quiet(w) \/ Insertion(w), Leaves(w)
    PROVE  CompletedInv'
<1> SUFFICES ASSUME NEW a \in Runs, completedAt'[a]
             PROVE  /\ target[a] \in Repos /\ metrics'[target[a]]
                    /\ fileSets'[target[a]] > 0 /\ lastAnalyzed'[target[a]]
  BY DEF CompletedInv, StepShape
<1>1. CASE completedAt[a]
  BY <1>1, MetricsStay DEF ResultsInv, CompletedInv, Leaves, ArtefactInv
<1>2. CASE a = Run(w) /\ Completes(w)
  <2>1. target[a] = Repo(w) /\ lastAnalyzed'[Repo(w)]
    BY <1>2 DEF Repo, Completes
  <2>2. Repo(w) \in Repos /\ metrics[Repo(w)] /\ fileSets[Repo(w)] > 0
    BY <1>2, CompletionStand DEF ResultsInv
  <2> QED BY <2>1, <2>2, MetricsStay DEF Leaves, ArtefactInv
<1> QED BY <1>1, <1>2 DEF Leaves

\* Past the architecture and short of its own completion, an attempt knows
\* that no run of its repository has completed.
LEMMA WorkerKeepsSettling ==
    ASSUME TypeOK, ArtefactInv, ResultsInv, NEW w \in Workers,
           StepShape(w), Quiet(w) \/ Insertion(w), Leaves(w)
    PROVE  SettlingInv'
<1> SUFFICES ASSUME NEW v \in Workers, NEW a \in Runs, PastArchitecture(v)',
                    phase'[v] # "publish", target[a] = Repo(v)', completedAt'[a]
             PROVE  FALSE
  BY DEF SettlingInv, StepShape
<1>0. UNCHANGED target /\ OthersStay(w)
  BY DEF StepShape
<1>1. completedAt[a] \/ (a = Run(w) /\ Completes(w))
  BY DEF Leaves
<1>2. CASE v = w /\ Quiet(w)
  <2>1. PastArchitecture(w) /\ Repo(w)' = Repo(w)
    BY <1>0, <1>2 DEF Quiet, Repo, Run
  <2>2. phase[w] # "publish"
    BY <1>2 DEF Leaves, PastArchitecture, InBody
  <2>3. completedAt[a]
    BY <1>1, <1>2 DEF Completes
  <2> QED BY <1>2, <2>1, <2>2, <2>3 DEF ResultsInv, SettlingInv
<1>3. CASE v = w /\ Insertion(w)
  <2>1. Repo(w)' = Repo(w) /\ Repo(w) \in Repos
    BY <1>0, <1>3, InsertionStand DEF ArtefactInv
  <2>2. phase[w] = "work"
    BY <1>3 DEF Insertion, InsertsArchitecture, InsertsReport, InsertsMetrics, At
  <2>3. completedAt[a] /\ target[a] = Repo(w)
    BY <1>1, <1>3, <2>1, <2>2 DEF Completes
  <2>4. metrics[Repo(w)] /\ architecture[Repo(w)]
    BY <2>1, <2>3 DEF ResultsInv, CompletedInv, ArtefactInv, SlotInv
  <2>5. PastArchitecture(w)
    BY <1>0, <1>3, <2>4, InsertionStand DEF ArtefactInv, Insertion, InsertsArchitecture
  <2> QED BY <2>2, <2>3, <2>5 DEF ResultsInv, SettlingInv
<1>4. CASE v # w
  <2>1. PastArchitecture(v) /\ Repo(v)' = Repo(v) /\ phase[v] = phase'[v]
    BY <1>0, <1>4, OthersStand DEF OthersStay
  <2>2. ~completedAt[a]
    BY <2>1 DEF ResultsInv, SettlingInv
  <2>3. PastArchitecture(w) /\ Repo(w) = Repo(v)
    BY <1>1, <2>1, <2>2, CompletionStand DEF ResultsInv, Repo
  <2> QED BY <1>4, <2>1, <2>3 DEF ArtefactInv, SlotInv
<1> QED BY <1>2, <1>3, <1>4

\* So a second run never completes.
LEMMA WorkerKeepsOneCompleted ==
    ASSUME TypeOK, ArtefactInv, ResultsInv, NEW w \in Workers, StepShape(w), Leaves(w)
    PROVE  OneCompletedRun'
<1> SUFFICES ASSUME NEW a \in Runs, NEW b \in Runs, completedAt'[a], completedAt'[b],
                    target[a] = target[b], a # b
             PROVE  FALSE
  BY DEF OneCompletedRun, StepShape
<1>1. \A c, d \in Runs : c = Run(w) /\ Completes(w) /\ target[c] = target[d] => ~completedAt[d]
  <2> SUFFICES ASSUME NEW c \in Runs, NEW d \in Runs, c = Run(w), Completes(w),
                      target[c] = target[d]
               PROVE  ~completedAt[d]
    OBVIOUS
  <2>1. PastArchitecture(w) /\ phase[w] # "publish"
    BY CompletionStand DEF ResultsInv
  <2> QED BY <2>1 DEF ResultsInv, SettlingInv, Repo
<1>2. ~(completedAt[a] /\ completedAt[b])
  BY DEF ResultsInv, OneCompletedRun
<1> QED BY <1>1, <1>2 DEF Leaves

\* The document is written after the metrics, by the one attempt there is.
LEMMA WorkerKeepsDocument ==
    ASSUME TypeOK, ArtefactInv, ResultsInv, NEW w \in Workers,
           StepShape(w), Quiet(w) \/ Insertion(w), Leaves(w)
    PROVE  DocumentInv'
<1>0. UNCHANGED target /\ OthersStay(w)
  BY DEF StepShape
<1>1. ASSUME NEW r \in Repos, searchDoc'[r] # "none"
      PROVE  metrics'[r]
  <2>1. searchDoc[r] # "none" \/ (r = Repo(w) /\ phase[w] = "search_index")
    BY <1>1 DEF Leaves
  <2>2. metrics[r]
    BY <2>1, IndexingStand DEF ResultsInv, DocumentInv
  <2> QED BY <2>2, MetricsStay DEF ArtefactInv
<1>2. ASSUME NEW v \in Workers, phase'[v] = "search_index"
      PROVE  searchDoc'[Repo(v)'] = "none"
  <2>1. CASE v = w
    <3>1. Repo(w)' = Repo(w) /\ (InsertsMetrics(w) \/ phase[w] = "search_index")
      BY <1>0, <1>2, <2>1 DEF Leaves, Repo, Run
    <3>2. Repo(w) \in Repos /\ searchDoc[Repo(w)] = "none"
      <4>1. CASE InsertsMetrics(w)
        <5>1. Repo(w) \in Repos
          BY <1>0, <4>1, InsertionStand DEF Insertion, ArtefactInv
        <5> QED BY <4>1, <5>1 DEF InsertsMetrics, ResultsInv, DocumentInv
      <4>2. CASE phase[w] = "search_index"
        BY <4>2, IndexingStand DEF ResultsInv, DocumentInv
      <4> QED BY <3>1, <4>1, <4>2
    <3> QED BY <1>2, <2>1, <3>1, <3>2 DEF Leaves
  <2>2. CASE v # w
    <3>1. phase[v] = "search_index" /\ Repo(v)' = Repo(v)
      BY <1>0, <1>2, <2>2 DEF OthersStay, Repo, Run
    <3>2. searchDoc[Repo(v)] = "none" /\ Repo(v) \in Repos /\ PastArchitecture(v)
      BY <3>1, IndexingStand DEF ResultsInv, DocumentInv
    <3>3. Repo(v) = Repo(w) => phase[w] # "search_index"
      BY <2>2, <3>2, IndexingStand DEF ArtefactInv, SlotInv
    <3> QED BY <3>1, <3>2, <3>3 DEF Leaves
  <2> QED BY <2>1, <2>2
<1> QED BY <1>1, <1>2 DEF DocumentInv

\* An attempt past the indexing stage has a file tree to work on.
LEMMA WorkerKeepsFiles ==
    ASSUME TypeOK, ArtefactInv, ResultsInv, NEW w \in Workers, StepShape(w), Leaves(w)
    PROVE  FilesInv'
<1> SUFFICES ASSUME NEW v \in Workers, PastFiles(v)'
             PROVE  fileSets'[Repo(v)'] > 0
  BY DEF FilesInv
<1>0. UNCHANGED target /\ OthersStay(w)
  BY DEF StepShape
<1>1. CASE PastFiles(v) /\ Repo(v)' = Repo(v)
  BY <1>1, RepoOfBody DEF PastFiles, Leaves, ResultsInv, FilesInv, ArtefactInv
<1>2. CASE v = w
  <2>1. Repo(w)' = Repo(w) /\ (PastFiles(w) \/ fileSets'[Repo(w)] > 0)
    BY <1>0, <1>2 DEF Leaves, Repo, Run
  <2> QED BY <1>1, <1>2, <2>1
<1>3. CASE v # w
  BY <1>0, <1>1, <1>3 DEF OthersStay, PastFiles, InBody, At, Repo, Run
<1> QED BY <1>2, <1>3

\* A worker's step keeps all of it.
LEMMA WorkerKeepsResults ==
    ASSUME TypeOK, ArtefactInv, ResultsInv, NEW w \in Workers, WorkerStep(w) \/ WorkerFault(w)
    PROVE  ResultsInv'
<1>1. StepShape(w) /\ (Quiet(w) \/ Insertion(w)) /\ Leaves(w)
  BY WorkerShape, WorkerLeaves DEF ArtefactInv
<1> QED
  BY <1>1, WorkerKeepsCompleted, WorkerKeepsSettling, WorkerKeepsOneCompleted,
     WorkerKeepsDocument, WorkerKeepsFiles
  DEF ResultsInv

\* A request gives a target to a run that has none yet, touches no row of the
\* results and moves no worker.
LEMMA RequestKeepsResults ==
    ASSUME TypeOK, ArtefactInv, ResultsInv,
           \/ \E a \in Runs, r \in Repos : AddRepository(a, r) \/ Reprocess(a, r)
           \/ \E a \in Runs : EndRequest(a)
           \/ \E r \in Repos : DeleteRepository(r)
           \/ UNCHANGED vars
    PROVE  ResultsInv'
<1>1. UNCHANGED <<completedAt, lastAnalyzed, fileSets, metrics, searchDoc, task, phase, stage>>
  BY DEF AddRepository, Reprocess, EndRequest, CommitRequest, RollbackRequest, DeleteRepository,
         vars, progressVars, artefactVars, workerVars
<1>2. \A b \in Runs : target[b] \in Repos => target'[b] = target[b]
  <2>1. CASE \E a \in Runs, r \in Repos : AddRepository(a, r) \/ Reprocess(a, r)
    <3>1. PICK a \in Runs, r \in Repos : AddRepository(a, r) \/ Reprocess(a, r)
      BY <2>1
    <3>2. request[a] = "none" /\ target' = [target EXCEPT ![a] = r]
      BY <3>1 DEF AddRepository, Reprocess, OpenRequest
    <3>3. target[a] \notin Repos
      BY <3>2, NullsAssumption DEF ArtefactInv, OwnedInv
    <3> QED BY <3>2, <3>3 DEF TypeOK
  <2>2. CASE UNCHANGED target
    BY <2>2
  <2> QED
    BY <2>1, <2>2
    DEF EndRequest, CommitRequest, RollbackRequest, DeleteRepository, vars, requestVars
<1>3. \A w \in Workers : /\ InBody(w)' <=> InBody(w)
                         /\ InBody(w) => Repo(w)' = Repo(w) /\ Repo(w) \in Repos
                         /\ PastArchitecture(w)' <=> PastArchitecture(w)
                         /\ PastFiles(w)' <=> PastFiles(w)
  <2> SUFFICES ASSUME NEW w \in Workers
               PROVE  /\ InBody(w)' <=> InBody(w)
                      /\ InBody(w) => Repo(w)' = Repo(w) /\ Repo(w) \in Repos
                      /\ PastArchitecture(w)' <=> PastArchitecture(w)
                      /\ PastFiles(w)' <=> PastFiles(w)
    OBVIOUS
  <2>1. InBody(w) => Repo(w) \in Repos /\ Run(w) \in Runs
    BY RepoOfBody DEF ArtefactInv
  <2>2. InBody(w) => Repo(w)' = Repo(w)
    BY <1>1, <1>2, <2>1 DEF Repo, Run
  <2> QED BY <1>1, <2>1, <2>2 DEF PastArchitecture, PastFiles, InBody, At
<1>4. CompletedInv'
  BY <1>1, <1>2 DEF ResultsInv, CompletedInv
<1>5. SettlingInv'
  <2> SUFFICES ASSUME NEW w \in Workers, NEW a \in Runs, PastArchitecture(w)',
                      phase[w] # "publish", target'[a] = Repo(w)', completedAt[a]
               PROVE  FALSE
    BY <1>1 DEF SettlingInv
  <2>1. target[a] \in Repos
    BY DEF ResultsInv, CompletedInv
  <2>2. PastArchitecture(w) /\ target[a] = Repo(w)
    BY <1>2, <1>3, <2>1 DEF PastArchitecture
  <2> QED BY <2>2 DEF ResultsInv, SettlingInv
<1>6. OneCompletedRun'
  BY <1>1, <1>2 DEF ResultsInv, CompletedInv, OneCompletedRun
<1>7. DocumentInv'
  <2>1. \A w \in Workers : phase[w] = "search_index" => Repo(w)' = Repo(w)
    BY <1>3 DEF InBody
  <2> QED BY <1>1, <2>1 DEF ResultsInv, DocumentInv
<1>8. FilesInv'
  BY <1>1, <1>3 DEF ResultsInv, FilesInv, PastFiles
<1> QED BY <1>4, <1>5, <1>6, <1>7, <1>8 DEF ResultsInv

\* Nothing has completed and nobody works when the system starts.
LEMMA InitResultsInv == Init => ResultsInv
BY DEF Init, ResultsInv, CompletedInv, SettlingInv, OneCompletedRun, DocumentInv, FilesInv,
       PastArchitecture, PastFiles, InBody

\* The inductive invariant about completed runs and the search document.
THEOREM ResultsInvariant == Spec => []ResultsInv
<1>1. TypeOK /\ ArtefactInv /\ ResultsInv /\ [Next]_vars => ResultsInv'
  <2> SUFFICES ASSUME TypeOK, ArtefactInv, ResultsInv, [Next]_vars PROVE ResultsInv'
    OBVIOUS
  <2>1. CASE \E w \in Workers : WorkerStep(w) \/ WorkerFault(w)
    BY <2>1, WorkerKeepsResults
  <2> QED BY <2>1, RequestKeepsResults DEF Next
<1> QED BY <1>1, InitResultsInv, TypeCorrect, ArtefactsInvariant, PTL DEF Spec

\* A run whose completed_at is set has all the read endpoints serve: the
\* architecture, one report, the metrics, a file tree and last_analyzed_at.
THEOREM CompletedRunsServe == Spec => []CompletedRunHasResults
<1>1. TypeOK /\ ArtefactInv /\ ResultsInv => CompletedRunHasResults
  <2> SUFFICES ASSUME TypeOK, ArtefactInv, ResultsInv, NEW a \in Runs, completedAt[a]
               PROVE  LET r == target[a] IN
                      /\ architecture[r] /\ reports[r] = 1 /\ metrics[r]
                      /\ fileSets[r] > 0 /\ lastAnalyzed[r]
    BY DEF CompletedRunHasResults
  <2> QED BY DEF ResultsInv, CompletedInv, ArtefactInv, SlotInv
<1> QED BY <1>1, TypeCorrect, ArtefactsInvariant, ResultsInvariant, PTL

\* However often a repository is reprocessed and its tasks are delivered
\* again, at most one of its runs ever completes.
THEOREM OneRunCompletes == Spec => []OneCompletedRun
<1>1. ResultsInv => OneCompletedRun
  BY DEF ResultsInv
<1> QED BY <1>1, ResultsInvariant, PTL

\* The search document of a repository, once written, never changes.
THEOREM DocumentIsFinal == Spec => SearchDocWrittenOnce
<1>1. TypeOK /\ ArtefactInv /\ ResultsInv /\ [Next]_vars
        => [\A r \in Repos : searchDoc[r] # "none" => searchDoc'[r] = searchDoc[r]]_vars
  <2> SUFFICES ASSUME TypeOK, ArtefactInv, ResultsInv, Next,
                      NEW r \in Repos, searchDoc[r] # "none"
               PROVE  searchDoc'[r] = searchDoc[r]
    OBVIOUS
  <2>1. CASE \E w \in Workers : WorkerStep(w) \/ WorkerFault(w)
    <3>1. PICK w \in Workers : WorkerStep(w) \/ WorkerFault(w)
      BY <2>1
    <3>2. Leaves(w)
      BY <3>1, WorkerLeaves DEF ArtefactInv
    <3> QED BY <3>2 DEF Leaves, ResultsInv, DocumentInv
  <2>2. CASE UNCHANGED searchDoc
    BY <2>2
  <2> QED
    BY <2>1, <2>2
    DEF Next, AddRepository, Reprocess, EndRequest, CommitRequest, RollbackRequest,
        DeleteRepository, artefactVars
<1> QED
  BY <1>1, TypeCorrect, ArtefactsInvariant, ResultsInvariant, PTL
  DEF Spec, SearchDocWrittenOnce

-----------------------------------------------------------------------------
(* One delivery at a time.                                                 *)

\* What a step of a worker does with messages and attempts as long as nothing
\* is lost: it takes a message, hands its run over to a retry, or keeps the
\* attempt it has.
Takes(w) ==
    /\ phase[w] = "idle"
    /\ \E m \in Messages :
          queue[m] > 0 /\ queue' = [queue EXCEPT ![m] = @ - 1] /\ task'[w] = m

Hands(w) ==
    /\ InBody(w) /\ ~InBody(w)'
    /\ \E n \in 0..MaxRetries : queue' = [queue EXCEPT ![[run |-> Run(w), retries |-> n]] = @ + 1]

Keeps(w) == UNCHANGED queue /\ (InBody(w)' => InBody(w) /\ task'[w] = task[w])

Delivers(w) == OthersStay(w) /\ (Takes(w) \/ Hands(w) \/ Keeps(w))

\* A step along the program text keeps the attempt.
LEMMA GotoDelivers ==
    ASSUME WorkerType, NEW w \in Workers, NEW s, NEW p, Goto(w, s, p), InBody(w), UNCHANGED queue
    PROVE  Delivers(w)
BY GotoEffect DEF Delivers, Keeps

\* An exception hands over, or ends the attempt.
LEMMA RetryDelivers ==
    ASSUME WorkerType, OwnedInv, NEW w \in Workers, Retry(w), InBody(w)
    PROVE  Delivers(w)
<1>1. Goto(w, QUEUED, "ack")
  BY DEF Retry, Return
<1>2. OthersStay(w) /\ ~InBody(w)'
  BY <1>1, GotoEffect DEF InBody
<1>3. CASE task[w].retries < MaxRetries
  <2>1. queue' = [queue EXCEPT ![[run |-> Run(w), retries |-> task[w].retries + 1]] = @ + 1]
    BY <1>3 DEF Retry
  <2>2. task[w] \in Messages
    BY DEF OwnedInv, InBody
  <2>3. task[w].retries \in 0..MaxRetries
    BY <2>2 DEF Messages
  <2>4. task[w].retries + 1 \in 0..MaxRetries
    BY <1>3, <2>3, BoundsAssumption
  <2> QED BY <1>2, <2>1, <2>4 DEF Delivers, Hands
<1>4. CASE ~(task[w].retries < MaxRetries)
  <2>1. UNCHANGED queue
    BY <1>4 DEF Retry
  <2> QED BY <1>2, <2>1 DEF Delivers, Keeps
<1> QED BY <1>3, <1>4

\* Every step of a worker delivers in this way, or something has been lost.
LEMMA WorkerDelivers ==
    ASSUME TypeOK, OwnedInv, NEW w \in Workers, WorkerStep(w) \/ WorkerFault(w)
    PROVE  crashes' # 0 \/ (crashes' = crashes /\ Delivers(w))
<1>0. WorkerType /\ BrokerType /\ crashes \in Nat
  BY TypeParts, BoundsAssumption DEF TypeConjuncts
<1>1. CASE Receive(w)
  <2>1. PICK m \in Messages : queue[m] > 0 /\ queue' = [queue EXCEPT ![m] = @ - 1]
                             /\ task' = [task EXCEPT ![w] = m]
    BY <1>1 DEF Receive
  <2>2. phase[w] = "idle" /\ phase' = [phase EXCEPT ![w] = "load"] /\ stage' = stage
    BY <1>1 DEF Receive
  <2>3. OthersStay(w) /\ task'[w] = m
    BY <1>0, <2>1, <2>2 DEF OthersStay, WorkerType
  <2> QED BY <1>1, <2>1, <2>2, <2>3 DEF Delivers, Takes, Receive
<1>2. CASE LoadRepository(w)
  <2>1. UNCHANGED <<queue, crashes, task>> /\ InBody(w)
    BY <1>2 DEF LoadRepository, InBody, Return, Goto
  <2>2. OthersStay(w)
    BY <1>0, <1>2 DEF LoadRepository, OthersStay, Return, Goto, WorkerType
  <2> QED BY <2>1, <2>2 DEF Delivers, Keeps
<1>3. CASE \/ StartStage(w) \/ FinishStage(w) \/ Clone(w) \/ CloneFails(w) \/ ReportFailure(w)
           \/ WriteFiles(w) \/ WriteReport(w) \/ ScheduleEmbeddings(w) \/ IndexForSearch(w)
           \/ PublishCompleted(w)
  <2>1. \E s, p : Goto(w, s, p)
    BY <1>3 DEF StartStage, FinishStage, Clone, CloneFails, ReportFailure, WriteFiles,
       WriteReport, ScheduleEmbeddings, IndexForSearch, PublishCompleted, Return
  <2>2. UNCHANGED <<queue, crashes>> /\ InBody(w)
    BY <1>3 DEF StartStage, FinishStage, Clone, CloneFails, ReportFailure, WriteFiles,
       WriteReport, ScheduleEmbeddings, IndexForSearch, PublishCompleted, brokerVars, At, InBody
  <2> QED BY <1>0, <2>1, <2>2, GotoDelivers
<1>4. CASE WriteArchitecture(w) \/ WriteDependencies(w) \/ WriteMetrics(w) \/ BodyRaises(w)
  <2>1. Retry(w) \/ (UNCHANGED queue /\ \E s, p : Goto(w, s, p))
    BY <1>4 DEF WriteArchitecture, WriteDependencies, WriteMetrics, BodyRaises, brokerVars
  <2>2. UNCHANGED crashes /\ InBody(w)
    BY <1>4 DEF WriteArchitecture, WriteDependencies, WriteMetrics, BodyRaises, At, InBody
  <2> QED BY <1>0, <2>1, <2>2, GotoDelivers, RetryDelivers
<1>5. CASE Acknowledge(w) \/ HardTimeLimit(w)
  <2>1. BecomeIdle(w) /\ UNCHANGED <<queue, crashes>>
    BY <1>5 DEF Acknowledge, HardTimeLimit, brokerVars
  <2> QED BY <1>0, <2>1, BecomeIdleEffect DEF Delivers, Keeps, InBody
<1>6. CASE WorkerLost(w) \/ ConnectionLost(w)
  BY <1>0, <1>6 DEF WorkerLost, ConnectionLost
<1> QED BY <1>1, <1>2, <1>3, <1>4, <1>5, <1>6 DEF WorkerStep, WorkerFault, Body

\* A delivery leaves at most one message or one attempt of a run.
LEMMA DeliveryKeepsOne ==
    ASSUME WorkerType, BrokerType, OwnedInv, NoDuplicateWithoutCrash, crashes = 0,
           NEW w \in Workers, Delivers(w)
    PROVE  NoDuplicateWithoutCrash'
<1>1. \A v \in Workers \ {w} :
          phase'[v] = phase[v] /\ task'[v] = task[v]
  BY DEF Delivers, OthersStay
<1>2. /\ \A v, u \in Workers : InBody(v) /\ InBody(u) /\ Run(v) = Run(u) => v = u
      /\ \A m \in Messages : queue[m] > 0 =>
            /\ queue[m] = 1
            /\ \A v \in Workers : InBody(v) => Run(v) # m.run
            /\ \A n \in Messages : queue[n] > 0 /\ n.run = m.run => n = m
  BY DEF NoDuplicateWithoutCrash
<1>3. CASE Takes(w)
  <2>1. PICK m \in Messages : queue[m] > 0 /\ queue' = [queue EXCEPT ![m] = @ - 1] /\ task'[w] = m
    BY <1>3 DEF Takes
  <2>2. queue'[m] = 0 /\ \A n \in Messages : n # m => queue'[n] = queue[n]
    BY <1>2, <2>1 DEF BrokerType
  <2>3. \A n \in Messages : queue'[n] > 0 => queue[n] > 0 /\ queue'[n] = queue[n] /\ n.run # m.run
    BY <1>2, <2>1, <2>2
  <2>4. \A v \in Workers : InBody(v) => Run(v) # m.run
    BY <1>2, <2>1
  <2>5. \A v \in Workers : v # w => (InBody(v)' <=> InBody(v)) /\ Run(v)' = Run(v)
    BY <1>1 DEF InBody, Run
  <2>6. Run(w)' = m.run
    BY <2>1 DEF Run
  <2> QED BY <1>2, <2>3, <2>4, <2>5, <2>6 DEF NoDuplicateWithoutCrash
<1>4. CASE Hands(w)
  <2>1. PICK k \in 0..MaxRetries : queue' = [queue EXCEPT ![[run |-> Run(w), retries |-> k]] = @ + 1]
    BY <1>4 DEF Hands
  <2> DEFINE m == [run |-> Run(w), retries |-> k]
  <2>2. InBody(w) /\ ~InBody(w)' /\ m.run = Run(w)
    BY <1>4 DEF Hands
  <2>3. m \in Messages
    <3>1. task[w] \in Messages
      BY <2>2 DEF OwnedInv, InBody
    <3> QED BY <3>1 DEF Messages, Run
  <2>4. \A n \in Messages : queue[n] > 0 => n.run # m.run
    BY <1>2, <2>2
  <2>5. queue[m] = 0
    BY <2>3, <2>4 DEF BrokerType
  <2>6. queue'[m] = 1 /\ \A n \in Messages : n # m => queue'[n] = queue[n]
    BY <2>1, <2>3, <2>5 DEF BrokerType
  <2> HIDE DEF m
  <2>7. \A v \in Workers : InBody(v)' => v # w /\ InBody(v) /\ Run(v)' = Run(v) /\ Run(v) # m.run
    BY <1>1, <1>2, <2>2 DEF InBody, Run
  <2> QED BY <1>2, <2>4, <2>6, <2>7 DEF NoDuplicateWithoutCrash
<1>5. CASE Keeps(w)
  <2>1. \A v \in Workers : InBody(v)' => InBody(v) /\ Run(v)' = Run(v)
    BY <1>1, <1>5 DEF Keeps, InBody, Run
  <2> QED BY <1>2, <1>5, <2>1 DEF Keeps, NoDuplicateWithoutCrash
<1> QED BY <1>3, <1>4, <1>5 DEF Delivers

\* The first message of a run finds neither a message nor an attempt of it.
LEMMA OpenKeepsOne ==
    ASSUME TypeOK, OwnedInv, NoDuplicateWithoutCrash, NEW a \in Runs, NEW r \in Repos,
           AddRepository(a, r) \/ Reprocess(a, r)
    PROVE  NoDuplicateWithoutCrash'
<1>1. request[a] = "none" /\ Delay(a) /\ UNCHANGED <<task, phase, crashes>>
  BY DEF AddRepository, Reprocess, OpenRequest, workerVars
<1>2. target[a] \notin Repos
  BY <1>1, NullsAssumption DEF OwnedInv
<1>3. /\ \A m \in Messages : queue[m] > 0 => m.run # a
      /\ \A w \in Workers : InBody(w) => Run(w) # a
  BY <1>2 DEF OwnedInv, InBody, Run
<1>4. \A w \in Workers : (InBody(w)' <=> InBody(w)) /\ Run(w)' = Run(w)
  BY <1>1 DEF InBody, Run
<1>5. CASE UNCHANGED queue
  BY <1>1, <1>4, <1>5 DEF NoDuplicateWithoutCrash
<1>6. CASE queue' = [queue EXCEPT ![[run |-> a, retries |-> 0]] = @ + 1]
  <2> DEFINE m == [run |-> a, retries |-> 0]
  <2>1. m \in Messages /\ m.run = a
    BY BoundsAssumption DEF Messages
  <2>2. queue \in [Messages -> Nat]
    BY DEF TypeOK
  <2>3. queue[m] = 0
    BY <1>3, <2>1, <2>2
  <2>4. queue'[m] = 1 /\ \A n \in Messages : n # m => queue'[n] = queue[n]
    BY <1>6, <2>1, <2>2, <2>3
  <2> HIDE DEF m
  <2> QED BY <1>1, <1>3, <1>4, <2>1, <2>4 DEF NoDuplicateWithoutCrash
<1> QED BY <1>1, <1>5, <1>6 DEF Delay

\* As long as nothing is lost, a run has at most one message waiting or one
\* attempt at work, never both: a retry hands over.
THEOREM OneDeliveryAtATime == Spec => []NoDuplicateWithoutCrash
<1>1. Init => NoDuplicateWithoutCrash
  BY DEF Init, NoDuplicateWithoutCrash, InBody
<1>2. TypeOK /\ ArtefactInv /\ NoDuplicateWithoutCrash /\ [Next]_vars => NoDuplicateWithoutCrash'
  <2> SUFFICES ASSUME TypeOK, OwnedInv, NoDuplicateWithoutCrash, [Next]_vars
               PROVE  NoDuplicateWithoutCrash'
    BY DEF ArtefactInv
  <2>1. CASE \E w \in Workers : WorkerStep(w) \/ WorkerFault(w)
    <3>1. PICK w \in Workers : WorkerStep(w) \/ WorkerFault(w)
      BY <2>1
    <3>2. CASE crashes' # 0
      BY <3>2 DEF NoDuplicateWithoutCrash
    <3>3. CASE crashes' = 0
      BY <3>1, <3>3, WorkerDelivers, DeliveryKeepsOne, TypeParts DEF TypeConjuncts
    <3> QED BY <3>2, <3>3
  <2>2. CASE \E a \in Runs, r \in Repos : AddRepository(a, r) \/ Reprocess(a, r)
    BY <2>2, OpenKeepsOne
  <2>3. CASE UNCHANGED <<queue, task, phase, crashes>>
    BY <2>3 DEF NoDuplicateWithoutCrash, InBody, Run
  <2> QED
    BY <2>1, <2>2, <2>3
    DEF Next, EndRequest, CommitRequest, RollbackRequest, DeleteRepository, vars,
        brokerVars, workerVars
<1> QED BY <1>1, <1>2, TypeCorrect, ArtefactsInvariant, PTL DEF Spec

-----------------------------------------------------------------------------
(* The steps of an added repository's run.                                 *)

\* The stages an attempt has started.
Reached(w, i) == i < stage[w] \/ (i = stage[w] /\ phase[w] # "start" /\ i # COMPLETED)

\* Past the load of the repository row.
PastLoad(w) == InBody(w) /\ phase[w] # "load"

\* The row of an added repository and the rows of its run are committed
\* together, and only that run was added with it.
AddedInv ==
    /\ \A a \in Runs : IF request[a] = "none" THEN kind[a] = "none" ELSE target[a] \in Repos
    /\ \A r \in Repos : repoRow[r] # "absent" => \E a \in Runs : target[a] = r
    /\ \A a, b \in Runs : kind[a] = "add" /\ kind[b] = "add" /\ target[a] = target[b] => a = b
    /\ \A a \in Runs : kind[a] = "add" =>
          (request[a] = "committed" <=> repoRow[target[a]] # "absent")

\* A run without rows has no steps; an attempt of an added repository's run has
\* reported every stage it has started.
ReportedInv ==
    /\ \A a \in Runs : request[a] # "committed" =>
          \A s \in PROCESSING_SEQUENCE : steps[a][s] = "pending"
    /\ \A w \in Workers : PastLoad(w) /\ kind[Run(w)] = "add" =>
          /\ request[Run(w)] = "committed"
          /\ \A i \in CLONING..COMPLETED : Reached(w, i) => steps[Run(w)][i] # "pending"

StepsInv == AddedInv /\ ReportedInv /\ AddedRunReportsInOrder

\* A worker reports of its own run, if it has rows, and of its own stage.
Reports(w) ==
    /\ \A a \in Runs, s \in PROCESSING_SEQUENCE :
          steps[a][s] # "pending" => steps'[a][s] # "pending"
    /\ \A a \in Runs, s \in PROCESSING_SEQUENCE :
          steps'[a][s] # "pending" =>
             \/ steps[a][s] # "pending"
             \/ a = Run(w) /\ s = stage[w] /\ PastLoad(w) /\ request[a] = "committed"

\* It goes on from the load of a row there is, or from where it was.
Proceeds(w) ==
    PastLoad(w)' =>
        /\ task'[w] = task[w] /\ InBody(w)
        /\ \/ /\ phase[w] = "load" /\ repoRow[Repo(w)] # "absent"
              /\ stage'[w] = CLONING /\ phase'[w] = "start"
           \/ /\ PastLoad(w)
              /\ request[Run(w)] = "committed" =>
                    \A i \in CLONING..COMPLETED : Reached(w, i)' =>
                        Reached(w, i) \/ steps'[Run(w)][i] # "pending"

ReportsShape(w) ==
    /\ OthersStay(w) /\ UNCHANGED <<request, kind, target, repoRow>>
    /\ Reports(w) /\ Proceeds(w)

\* A report changes one step of a run that has rows, and never back to pending.
LEMMA AdvanceStepReports ==
    ASSUME ProgressType, NEW a \in Runs, NEW s \in Stages, NEW status \in StepStatus \ {"pending"},
           AdvanceStep(a, s, status)
    PROVE  /\ \A b \in Runs, i \in PROCESSING_SEQUENCE :
                 steps[b][i] # "pending" => steps'[b][i] # "pending"
           /\ \A b \in Runs, i \in PROCESSING_SEQUENCE :
                 steps'[b][i] # "pending" =>
                    \/ steps[b][i] # "pending"
                    \/ b = a /\ i = s /\ request[a] = "committed"
           /\ request[a] = "committed" /\ s \in PROCESSING_SEQUENCE => steps'[a][s] = status
<1>1. CASE ~HasStep(a, s)
  BY <1>1 DEF AdvanceStep, HasStep, progressVars
<1>2. CASE HasStep(a, s)
  <2>1. steps' = [steps EXCEPT ![a][s] = status] /\ s \in PROCESSING_SEQUENCE
        /\ request[a] = "committed"
    BY <1>2 DEF AdvanceStep, HasStep
  <2>2. \A b \in Runs, i \in PROCESSING_SEQUENCE :
            steps'[b][i] = IF b = a /\ i = s THEN status ELSE steps[b][i]
    BY <2>1 DEF ProgressType
  <2> QED BY <2>1, <2>2
<1> QED BY <1>1, <1>2

\* A step without a report.
LEMMA SilentReports ==
    ASSUME WorkerType, NEW w \in Workers, UNCHANGED <<request, kind, target, repoRow, steps>>,
           OthersStay(w),
           \/ ~PastLoad(w)'
           \/ /\ PastLoad(w) /\ phase[w] # "start" /\ phase'[w] # "start"
              /\ stage'[w] = stage[w] /\ task'[w] = task[w]
    PROVE  ReportsShape(w)
BY DEF ReportsShape, Reports, Proceeds, Reached, PastLoad

\* Every step of a worker is of this form.
LEMMA WorkerReports ==
    ASSUME TypeOK, ControlInv, OwnedInv, NEW w \in Workers, WorkerStep(w) \/ WorkerFault(w)
    PROVE  ReportsShape(w)
<1>0. WorkerType /\ BrokerType /\ ProgressType
  BY TypeParts DEF TypeConjuncts
<1> USE <1>0, StageOrder DEF StageNumbers
<1>1. stage[w] \in 0..8 /\ stage[w] \in PROCESSING_SEQUENCE /\ stage[w] \in Stages
      /\ PcOK(phase[w], stage[w])
  BY StageFacts DEF WorkerType, ControlInv, PcOK
<1>2. InBody(w) => Repo(w) \in Repos /\ Run(w) \in Runs
  BY RepoOfBody
<1>3. OthersStay(w)
  BY WorkerShape DEF StepShape
<1>4. UNCHANGED <<request, kind, target, repoRow>>
  BY DEF WorkerStep, WorkerFault, Body, Receive, LoadRepository, StartStage, FinishStage, Clone,
     CloneFails, ReportFailure, WriteFiles, WriteArchitecture, WriteDependencies, WriteReport,
     ScheduleEmbeddings, WriteMetrics, IndexForSearch, PublishCompleted, Acknowledge, BodyRaises,
     HardTimeLimit, WorkerLost, ConnectionLost, requestVars
<1>5. CASE Receive(w)
  <2>1. UNCHANGED steps /\ phase'[w] = "load"
    BY <1>5 DEF Receive, WorkerType, progressVars
  <2> QED BY <1>3, <1>4, <2>1, SilentReports DEF PastLoad
<1>6. CASE LoadRepository(w)
  <2>1. phase[w] = "load" /\ UNCHANGED steps /\ InBody(w)
    BY <1>6 DEF LoadRepository, progressVars, InBody
  <2>2. CASE repoRow[Repo(w)] = "absent"
    <3>1. phase'[w] = "ack"
      BY <1>6, <2>2, GotoEffect DEF LoadRepository, Return
    <3> QED BY <1>3, <1>4, <2>1, <3>1, SilentReports DEF PastLoad, InBody
  <2>3. CASE repoRow[Repo(w)] # "absent"
    <3>1. phase'[w] = "start" /\ stage'[w] = CLONING /\ task' = task
      BY <1>6, <2>3 DEF LoadRepository, WorkerType
    <3> QED BY <1>3, <1>4, <2>1, <2>3, <3>1 DEF ReportsShape, Reports, Proceeds
  <2> QED BY <2>2, <2>3
<1>7. CASE StartStage(w)
  <2>1. /\ phase[w] = "start" /\ AdvanceStep(Run(w), stage[w], "in_progress")
        /\ Goto(w, stage[w], IF stage[w] = GRAPH THEN "finish" ELSE "work")
    BY <1>7 DEF StartStage
  <2>2. /\ task' = task /\ stage'[w] = stage[w] /\ phase'[w] \in {"work", "finish"}
    BY <2>1, GotoEffect
  <2>3. PastLoad(w) /\ Run(w) \in Runs /\ "in_progress" \in StepStatus \ {"pending"}
    BY <1>2, <2>1 DEF InBody, PastLoad, StepStatus
  <2>4. Reports(w) /\ (request[Run(w)] = "committed" => steps'[Run(w)][stage[w]] = "in_progress")
    BY <1>1, <2>1, <2>3, AdvanceStepReports DEF Reports
  <2>5. Proceeds(w)
    BY <1>1, <2>1, <2>2, <2>3, <2>4 DEF Proceeds, Reached, PastLoad
  <2> QED BY <1>3, <1>4, <2>4, <2>5 DEF ReportsShape
<1>8. CASE FinishStage(w)
  <2>1. /\ phase[w] = "finish" /\ AdvanceStep(Run(w), stage[w], "completed")
    BY <1>8 DEF FinishStage
  <2>2. /\ task' = task
        /\ \/ stage[w] = COMPLETED /\ phase'[w] = "publish" /\ stage'[w] = COMPLETED
           \/ stage[w] = GRAPH /\ phase'[w] = "work" /\ stage'[w] = COMPLETED
           \/ stage[w] < GRAPH /\ phase'[w] = "start" /\ stage'[w] = stage[w] + 1
    <3>1. stage[w] \in 1..8
      BY <1>1, <2>1 DEF PcOK
    <3> QED BY <1>8, <3>1, GotoEffect DEF FinishStage
  <2>3. PastLoad(w) /\ Run(w) \in Runs /\ "completed" \in StepStatus \ {"pending"}
    BY <1>2, <2>1 DEF InBody, PastLoad, StepStatus
  <2>4. Reports(w)
    BY <1>1, <2>1, <2>3, AdvanceStepReports DEF Reports
  <2>5. \A i \in CLONING..COMPLETED : Reached(w, i)' => Reached(w, i)
    BY <1>1, <2>1, <2>2 DEF Reached
  <2> QED BY <1>3, <1>4, <2>2, <2>3, <2>4, <2>5 DEF ReportsShape, Proceeds, PastLoad
<1>9. CASE CloneFails(w) \/ ReportFailure(w)
  <2>1. /\ phase[w] \in {"work", "clone_failed"} /\ stage[w] = CLONING
        /\ \/ phase'[w] = "clone_failed" /\ stage'[w] = CLONING
           \/ phase'[w] = "ack"
        /\ task' = task
    BY <1>1, <1>9, GotoEffect DEF CloneFails, ReportFailure, Return, At, PcOK
  <2>2. PastLoad(w) /\ Run(w) \in Runs /\ "failed" \in StepStatus \ {"pending"}
    BY <1>2, <2>1 DEF InBody, PastLoad, StepStatus
  <2>3. \/ AdvanceStep(Run(w), stage[w], "failed")
        \/ AdvanceStep(Run(w), FAILED, "failed")
    BY <1>9, <2>1 DEF CloneFails, ReportFailure
  <2>4. Reports(w)
    BY <1>1, <2>2, <2>3, AdvanceStepReports, StageFacts DEF Reports
  <2> QED BY <1>3, <1>4, <2>1, <2>2, <2>4 DEF ReportsShape, Proceeds, PastLoad, Reached, InBody
<1>10. CASE \/ Clone(w) \/ WriteFiles(w) \/ WriteReport(w) \/ ScheduleEmbeddings(w)
            \/ WriteArchitecture(w) \/ WriteDependencies(w) \/ WriteMetrics(w)
            \/ IndexForSearch(w)
  <2>1. phase[w] \in {"work", "search_index"} /\ UNCHANGED steps
    BY <1>10 DEF Clone, WriteFiles, WriteReport, ScheduleEmbeddings, WriteArchitecture,
       WriteDependencies, WriteMetrics, IndexForSearch, At, progressVars
  <2>2. Retry(w) \/ Goto(w, stage[w], "finish") \/ Goto(w, stage[w], "search_index")
    BY <1>1, <1>10 DEF Clone, WriteFiles, WriteReport, ScheduleEmbeddings, WriteArchitecture,
       WriteDependencies, WriteMetrics, IndexForSearch, At, PcOK
  <2>3. task' = task /\ (phase'[w] = "ack" \/ (stage'[w] = stage[w] /\ phase'[w] # "start"))
    BY <2>2, GotoEffect, RetryEffect
  <2>4. PastLoad(w)
    BY <2>1 DEF PastLoad, InBody
  <2> QED BY <1>3, <1>4, <2>1, <2>3, <2>4, SilentReports DEF PastLoad, InBody
<1>11. CASE PublishCompleted(w) \/ BodyRaises(w)
  <2>1. phase'[w] = "ack" /\ UNCHANGED steps
    BY <1>11, GotoEffect, RetryEffect DEF PublishCompleted, BodyRaises, Return, progressVars
  <2> QED BY <1>3, <1>4, <2>1, SilentReports DEF PastLoad, InBody
<1>12. CASE Acknowledge(w) \/ HardTimeLimit(w) \/ WorkerLost(w)
  <2>1. phase'[w] = "idle" /\ UNCHANGED steps
    BY <1>12, BecomeIdleEffect DEF Acknowledge, HardTimeLimit, WorkerLost, progressVars
  <2> QED BY <1>3, <1>4, <2>1, SilentReports DEF PastLoad, InBody
<1>13. CASE ConnectionLost(w)
  <2>1. UNCHANGED <<steps, task, phase, stage>>
    BY <1>13 DEF ConnectionLost, progressVars, workerVars
  <2> QED BY <1>3, <1>4, <2>1 DEF ReportsShape, Reports, Proceeds, PastLoad, InBody, Reached
<1> QED
  BY <1>5, <1>6, <1>7, <1>8, <1>9, <1>10, <1>11, <1>12, <1>13 DEF WorkerStep, WorkerFault, Body

\* So it keeps the invariant.
LEMMA WorkerKeepsSteps ==
    ASSUME TypeOK, ControlInv, OwnedInv, StepsInv, NEW w \in Workers, ReportsShape(w)
    PROVE  StepsInv'
<1> USE StageOrder DEF StageNumbers
<1>1. /\ UNCHANGED <<request, kind, target, repoRow>> /\ Reports(w) /\ Proceeds(w)
      /\ \A v \in Workers : v # w =>
            phase'[v] = phase[v] /\ stage'[v] = stage[v] /\ task'[v] = task[v]
  BY DEF ReportsShape, OthersStay
<1>2. AddedInv'
  BY <1>1 DEF StepsInv, AddedInv
<1>3. \A v \in Workers : InBody(v) => Run(v) \in Runs /\ Repo(v) \in Repos
  BY RepoOfBody
<1>4. CLONING..COMPLETED \subseteq PROCESSING_SEQUENCE
  BY StageFacts
<1>5. ReportedInv'
  <2>1. \A a \in Runs : request'[a] # "committed" =>
            \A s \in PROCESSING_SEQUENCE : steps'[a][s] = "pending"
    BY <1>1 DEF StepsInv, ReportedInv, Reports
  <2>2. ASSUME NEW v \in Workers, PastLoad(v)', kind'[Run(v)'] = "add"
        PROVE  /\ request'[Run(v)'] = "committed"
               /\ \A i \in CLONING..COMPLETED : Reached(v, i)' => steps'[Run(v)'][i] # "pending"
    <3>1. CASE v # w
      <4>1. PastLoad(v) /\ Run(v)' = Run(v) /\ kind[Run(v)] = "add" /\ Run(v) \in Runs
        BY <1>1, <1>3, <2>2, <3>1 DEF PastLoad, InBody, Run
      <4>2. \A i : Reached(v, i)' <=> Reached(v, i)
        BY <1>1, <3>1 DEF Reached
      <4> QED BY <1>1, <1>4, <4>1, <4>2 DEF StepsInv, ReportedInv, Reports
    <3>2. CASE v = w
      <4>1. task'[w] = task[w] /\ InBody(w)
        BY <1>1, <2>2, <3>2 DEF Proceeds
      <4>2. Run(w)' = Run(w) /\ Run(w) \in Runs /\ Repo(w) \in Repos /\ kind[Run(w)] = "add"
        BY <1>1, <1>3, <2>2, <3>2, <4>1 DEF Run
      <4>3. CASE /\ phase[w] = "load" /\ repoRow[Repo(w)] # "absent"
                 /\ stage'[w] = CLONING /\ phase'[w] = "start"
        <5>1. request[Run(w)] = "committed"
          BY <4>2, <4>3 DEF StepsInv, AddedInv, Repo
        <5>2. \A i \in CLONING..COMPLETED : ~Reached(w, i)'
          BY <4>3 DEF Reached
        <5> QED BY <1>1, <3>2, <4>2, <5>1, <5>2
      <4>4. CASE /\ PastLoad(w)
                 /\ request[Run(w)] = "committed" =>
                       \A i \in CLONING..COMPLETED : Reached(w, i)' =>
                           Reached(w, i) \/ steps'[Run(w)][i] # "pending"
        <5>1. /\ request[Run(w)] = "committed"
              /\ \A i \in CLONING..COMPLETED : Reached(w, i) => steps[Run(w)][i] # "pending"
          BY <4>2, <4>4 DEF StepsInv, ReportedInv
        <5>2. \A i \in CLONING..COMPLETED :
                  steps[Run(w)][i] # "pending" => steps'[Run(w)][i] # "pending"
          BY <1>1, <1>4, <4>2 DEF Reports
        <5> QED BY <1>1, <3>2, <4>2, <4>4, <5>1, <5>2
      <4> QED BY <1>1, <2>2, <3>2, <4>3, <4>4 DEF Proceeds
    <3> QED BY <3>1, <3>2
  <2> QED BY <2>1, <2>2 DEF ReportedInv
<1>6. AddedRunReportsInOrder'
  <2> SUFFICES ASSUME NEW a \in Runs, kind[a] = "add", NEW i \in CLONING..COMPLETED,
                      NEW j \in CLONING..COMPLETED, i < j, steps'[a][j] # "pending"
               PROVE  steps'[a][i] # "pending"
    BY <1>1 DEF AddedRunReportsInOrder
  <2>1. i \in PROCESSING_SEQUENCE /\ j \in PROCESSING_SEQUENCE
    BY <1>4
  <2>2. CASE steps[a][j] # "pending"
    <3>1. steps[a][i] # "pending"
      BY <2>2 DEF StepsInv, AddedRunReportsInOrder
    <3> QED BY <1>1, <2>1, <3>1 DEF Reports
  <2>3. CASE a = Run(w) /\ j = stage[w] /\ PastLoad(w)
    <3>1. Reached(w, i)
      BY <2>3 DEF Reached
    <3>2. steps[a][i] # "pending"
      BY <2>3, <3>1 DEF StepsInv, ReportedInv
    <3> QED BY <1>1, <2>1, <3>2 DEF Reports
  <2> QED BY <1>1, <2>1, <2>2, <2>3 DEF Reports
<1> QED BY <1>2, <1>5, <1>6 DEF StepsInv

\* A request reports nothing; the row of a repository comes with its run.
LEMMA RequestKeepsSteps ==
    ASSUME TypeOK, OwnedInv, StepsInv,
           \/ \E a \in Runs, r \in Repos : AddRepository(a, r) \/ Reprocess(a, r)
           \/ \E a \in Runs : EndRequest(a)
           \/ \E r \in Repos : DeleteRepository(r)
           \/ UNCHANGED vars
    PROVE  StepsInv'
<1>1. UNCHANGED <<steps, task, phase, stage>>
  BY DEF AddRepository, Reprocess, EndRequest, CommitRequest, RollbackRequest, DeleteRepository,
         vars, progressVars, workerVars
<1>2. \A w \in Workers : InBody(w) => Run(w) \in Runs /\ request[Run(w)] # "none"
  <2>1. \A w \in Workers : InBody(w) => Run(w) \in Runs /\ target[Run(w)] \in Repos
    BY RepoOfBody DEF Repo
  <2> QED BY <2>1, NullsAssumption DEF OwnedInv
<1>3. \A w \in Workers : /\ PastLoad(w)' <=> PastLoad(w)
                         /\ Run(w)' = Run(w)
                         /\ \A i : Reached(w, i)' <=> Reached(w, i)
  BY <1>1 DEF PastLoad, InBody, Run, Reached
<1>4. AddedInv' /\ \A a \in Runs : /\ request[a] = "committed" => request'[a] = "committed"
                                   /\ request[a] # "none" => kind'[a] = kind[a]
                                   /\ kind'[a] = "add" => kind[a] = "add" \/ request[a] = "none"
  <2>0. /\ request \in [Runs -> RequestStates] /\ kind \in [Runs -> RequestKinds]
        /\ target \in [Runs -> Repos \cup {NoRepo}] /\ repoRow \in [Repos -> RepoRows]
    BY DEF TypeOK
  <2>1. CASE \E a \in Runs, r \in Repos : AddRepository(a, r)
    <3>1. PICK a \in Runs, r \in Repos : AddRepository(a, r)
      BY <2>1
    <3>2. /\ \A b \in Runs : target[b] # r
          /\ request[a] = "none" /\ request' = [request EXCEPT ![a] = "open"]
          /\ kind' = [kind EXCEPT ![a] = "add"] /\ target' = [target EXCEPT ![a] = r]
          /\ UNCHANGED repoRow
      BY <3>1 DEF AddRepository, OpenRequest
    <3>3. repoRow[r] = "absent" /\ target[a] \notin Repos
      BY <3>2, NullsAssumption DEF StepsInv, AddedInv, OwnedInv
    <3> QED BY <2>0, <3>2, <3>3 DEF StepsInv, AddedInv
  <2>2. CASE \E a \in Runs, r \in Repos : Reprocess(a, r)
    <3>1. PICK a \in Runs, r \in Repos : Reprocess(a, r)
      BY <2>2
    <3>2. /\ request[a] = "none" /\ request' = [request EXCEPT ![a] = "open"]
          /\ kind' = [kind EXCEPT ![a] = "reprocess"] /\ target' = [target EXCEPT ![a] = r]
          /\ UNCHANGED repoRow
      BY <3>1 DEF Reprocess, OpenRequest
    <3>3. target[a] \notin Repos
      BY <3>2, NullsAssumption DEF OwnedInv
    <3> QED BY <2>0, <3>2, <3>3 DEF StepsInv, AddedInv
  <2>3. CASE \E a \in Runs : CommitRequest(a)
    <3>1. PICK a \in Runs : CommitRequest(a)
      BY <2>3
    <3>2. /\ request[a] = "open" /\ request' = [request EXCEPT ![a] = "committed"]
          /\ repoRow' = IF kind[a] = "add" THEN [repoRow EXCEPT ![target[a]] = "live"] ELSE repoRow
          /\ UNCHANGED <<kind, target>>
      BY <3>1 DEF CommitRequest
    <3>3. target[a] \in Repos
      BY <3>2 DEF StepsInv, AddedInv
    <3>4. CASE kind[a] = "add"
      <4>1. \A r \in Repos : repoRow'[r] = IF r = target[a] THEN "live" ELSE repoRow[r]
        BY <2>0, <3>2, <3>4
      <4>2. \A b \in Runs : kind[b] = "add" /\ target[b] = target[a] => b = a
        BY <3>4 DEF StepsInv, AddedInv
      <4>3. \A b \in Runs : request'[b] = IF b = a THEN "committed" ELSE request[b]
        BY <2>0, <3>2
      <4>4. \A b \in Runs : kind[b] = "add" => target[b] \in Repos
        BY DEF StepsInv, AddedInv
      <4> QED BY <3>2, <3>3, <4>1, <4>2, <4>3, <4>4 DEF StepsInv, AddedInv
    <3>5. CASE kind[a] # "add"
      BY <2>0, <3>2, <3>5 DEF StepsInv, AddedInv
    <3> QED BY <3>4, <3>5
  <2>4. CASE \E a \in Runs : RollbackRequest(a)
    <3>1. PICK a \in Runs : RollbackRequest(a)
      BY <2>4
    <3>2. /\ request[a] = "open" /\ request' = [request EXCEPT ![a] = "rolled_back"]
          /\ UNCHANGED <<kind, target, repoRow>>
      BY <3>1 DEF RollbackRequest
    <3> QED BY <2>0, <3>2 DEF StepsInv, AddedInv
  <2>5. CASE \E r \in Repos : DeleteRepository(r)
    <3>1. PICK r \in Repos : DeleteRepository(r)
      BY <2>5
    <3>2. /\ repoRow[r] = "live" /\ repoRow' = [repoRow EXCEPT ![r] = "deleted"]
          /\ UNCHANGED <<request, kind, target>>
      BY <3>1 DEF DeleteRepository, requestVars
    <3> QED BY <2>0, <3>2 DEF StepsInv, AddedInv
  <2>6. CASE UNCHANGED vars
    BY <2>6 DEF vars, requestVars, StepsInv, AddedInv
  <2> QED BY <2>1, <2>2, <2>3, <2>4, <2>5, <2>6 DEF EndRequest
<1>5. ReportedInv'
  <2>1. \A a \in Runs : request'[a] # "committed" =>
            \A s \in PROCESSING_SEQUENCE : steps'[a][s] = "pending"
    BY <1>1, <1>4 DEF StepsInv, ReportedInv
  <2>2. ASSUME NEW w \in Workers, PastLoad(w)', kind'[Run(w)'] = "add"
        PROVE  /\ request'[Run(w)'] = "committed"
               /\ \A i \in CLONING..COMPLETED : Reached(w, i)' => steps'[Run(w)'][i] # "pending"
    <3>1. PastLoad(w) /\ Run(w)' = Run(w) /\ Run(w) \in Runs /\ kind[Run(w)] = "add"
      BY <1>2, <1>3, <1>4, <2>2 DEF PastLoad
    <3> QED BY <1>1, <1>3, <1>4, <3>1 DEF StepsInv, ReportedInv
  <2> QED BY <2>1, <2>2 DEF ReportedInv
<1>6. AddedRunReportsInOrder'
  <2>1. \A a \in Runs : request[a] = "none" =>
            \A i \in CLONING..COMPLETED : steps[a][i] = "pending"
    BY StageFacts, StageOrder DEF StepsInv, ReportedInv, StageNumbers
  <2>2. ASSUME NEW a \in Runs, kind'[a] = "add", NEW i \in CLONING..COMPLETED,
               NEW j \in CLONING..COMPLETED, i < j, steps[a][j] # "pending"
        PROVE  steps[a][i] # "pending"
    BY <1>4, <2>1, <2>2 DEF StepsInv, AddedRunReportsInOrder
  <2> QED BY <1>1, <2>2 DEF AddedRunReportsInOrder
<1> QED BY <1>4, <1>5, <1>6 DEF StepsInv

\* No run has a kind, a row or a report when the system starts.
LEMMA InitStepsInv == Init => StepsInv
<1> SUFFICES ASSUME Init PROVE StepsInv
  OBVIOUS
<1>1. AddedInv
  BY DEF Init, AddedInv
<1>2. ReportedInv
  BY DEF Init, ReportedInv, PastLoad, InBody
<1>3. AddedRunReportsInOrder
  BY DEF Init, AddedRunReportsInOrder
<1> QED BY <1>1, <1>2, <1>3 DEF StepsInv

\* An attempt that finds the repository's row finds the steps of an added run.
THEOREM StepsInvariant == Spec => []StepsInv
<1>1. TypeOK /\ ArtefactInv /\ StepsInv /\ [Next]_vars => StepsInv'
  <2> SUFFICES ASSUME TypeOK, ControlInv, OwnedInv, StepsInv, [Next]_vars PROVE StepsInv'
    BY DEF ArtefactInv
  <2>1. CASE \E w \in Workers : WorkerStep(w) \/ WorkerFault(w)
    BY <2>1, WorkerReports, WorkerKeepsSteps
  <2> QED BY <2>1, RequestKeepsSteps DEF Next
<1> QED BY <1>1, InitStepsInv, TypeCorrect, ArtefactsInvariant, PTL DEF Spec

\* The steps of an added repository's run are reported in order, without a gap.
THEOREM ReportsComeInOrder == Spec => []AddedRunReportsInOrder
<1>1. StepsInv => AddedRunReportsInOrder
  BY DEF StepsInv
<1> QED BY <1>1, StepsInvariant, PTL

-----------------------------------------------------------------------------
(* What a successful task stands for.                                      *)

Accounted(a) ==
    \/ completedAt[a]
    \/ steps[a][CLONING] = "failed"
    \/ \A s \in PROCESSING_SEQUENCE : steps[a][s] = "pending"

\* As long as nothing is lost, nothing of a successful run is left in flight,
\* and an attempt about to succeed has reported why.
AccountInv ==
    /\ \A a \in Runs : request[a] = "none" => result[a] = "none"
    /\ crashes = 0 =>
          /\ \A a \in Runs : result[a] = "ok" =>
                /\ \A m \in Messages : queue[m] > 0 => m.run # a
                /\ \A w \in Workers : InBody(w) => Run(w) # a
                /\ kind[a] = "add" => Accounted(a)
          /\ \A w \in Workers : kind[Run(w)] = "add" =>
                /\ phase[w] = "clone_failed" => steps[Run(w)][CLONING] = "failed"
                /\ phase[w] = "publish" => completedAt[Run(w)]

\* A worker settles its own run alone: it succeeds without a row, after the
\* report of a failed clone, or after the last report.
Succeeds(w) ==
    /\ ~InBody(w)' /\ UNCHANGED <<queue, steps>>
    /\ \/ phase[w] = "load" /\ repoRow[Repo(w)] = "absent"
       \/ phase[w] \in {"clone_failed", "publish"}

Settles(w) ==
    /\ \A a \in Runs : ~(InBody(w) /\ a = Run(w)) =>
          result'[a] = result[a] /\ steps'[a] = steps[a]
    /\ \A a \in Runs : completedAt[a] => completedAt'[a]
    /\ InBody(w) /\ result'[Run(w)] = "ok" => result[Run(w)] = "ok" \/ Succeeds(w)
    /\ phase'[w] = "clone_failed" =>
          /\ task'[w] = task[w] /\ PastLoad(w)
          /\ request[Run(w)] = "committed" => steps'[Run(w)][CLONING] = "failed"
    /\ phase'[w] = "publish" =>
          /\ task'[w] = task[w] /\ PastLoad(w)
          /\ request[Run(w)] = "committed" => completedAt'[Run(w)]

\* A report concerns one run, and completes it if it is the last.
LEMMA AdvanceStepSettles ==
    ASSUME ProgressType, NEW a \in Runs, NEW s \in Stages, NEW status \in StepStatus,
           AdvanceStep(a, s, status)
    PROVE  /\ \A b \in Runs : b # a => steps'[b] = steps[b]
           /\ \A b \in Runs : completedAt[b] => completedAt'[b]
           /\ /\ request[a] = "committed" /\ s = COMPLETED /\ status = "completed"
              /\ s \in PROCESSING_SEQUENCE
              => completedAt'[a]
           /\ s \notin PROCESSING_SEQUENCE => UNCHANGED steps
<1>1. CASE ~HasStep(a, s)
  BY <1>1 DEF AdvanceStep, HasStep, progressVars
<1>2. CASE HasStep(a, s)
  <2>1. /\ steps' = [steps EXCEPT ![a][s] = status] /\ s \in PROCESSING_SEQUENCE
        /\ completedAt' = [completedAt EXCEPT
                ![a] = @ \/ (s = COMPLETED /\ status = "completed")]
    BY <1>2 DEF AdvanceStep, HasStep
  <2>2. \A b \in Runs : b # a => steps'[b] = steps[b]
    BY <2>1 DEF ProgressType
  <2>3. /\ completedAt'[a] <=> completedAt[a] \/ (s = COMPLETED /\ status = "completed")
        /\ \A b \in Runs : b # a => completedAt'[b] = completedAt[b]
    BY <2>1, Zenon DEF ProgressType
  <2> QED BY <2>1, <2>2, <2>3
<1> QED BY <1>1, <1>2

\* A step that neither reports nor succeeds.
LEMMA SilentSettles ==
    ASSUME NEW w \in Workers, UNCHANGED <<steps, completedAt>>,
           phase'[w] \notin {"clone_failed", "publish"},
           \A a \in Runs : result'[a] = result[a] \/ (InBody(w) /\ a = Run(w) /\ result'[a] # "ok"),
           InBody(w) => Run(w) \in Runs
    PROVE  Settles(w)
BY DEF Settles

\* Returning and raising set the result of the worker's own run.
LEMMA OutcomeOfOwn ==
    ASSUME BrokerType, NEW w \in Workers, InBody(w), Run(w) \in Runs,
           NEW outcome \in {"ok", "failed"}, Return(w, outcome) \/ Retry(w)
    PROVE  /\ \A a \in Runs : a # Run(w) => result'[a] = result[a]
           /\ Retry(w) => result'[Run(w)] = result[Run(w)] \/ result'[Run(w)] # "ok"
<1>1. CASE Return(w, outcome)
  BY <1>1 DEF Return, Retry, BrokerType
<1>2. CASE Retry(w)
  BY <1>2 DEF Return, Retry, BrokerType
<1> QED BY <1>1, <1>2

\* Every step of a worker settles in this way, or something has been lost.
LEMMA WorkerSettles ==
    ASSUME TypeOK, ControlInv, OwnedInv, NEW w \in Workers, WorkerStep(w) \/ WorkerFault(w)
    PROVE  (crashes' # 0 /\ UNCHANGED result) \/ (crashes' = crashes /\ Settles(w))
<1>0. WorkerType /\ BrokerType /\ ProgressType /\ crashes \in Nat
  BY TypeParts, BoundsAssumption DEF TypeConjuncts
<1> USE <1>0, StageOrder DEF StageNumbers
<1>1. /\ stage[w] \in 0..8 /\ stage[w] \in PROCESSING_SEQUENCE /\ stage[w] \in Stages
      /\ FAILED \in Stages /\ FAILED \notin PROCESSING_SEQUENCE
      /\ CLONING \in PROCESSING_SEQUENCE /\ PcOK(phase[w], stage[w])
  BY StageFacts DEF WorkerType, ControlInv, PcOK
<1>2. InBody(w) => Run(w) \in Runs
  BY RepoOfBody
<1>3. CASE Receive(w)
  <2>1. UNCHANGED <<steps, completedAt, result, crashes>> /\ phase'[w] = "load"
    BY <1>3 DEF Receive, WorkerType, progressVars
  <2> QED BY <1>2, <2>1, SilentSettles
<1>4. CASE LoadRepository(w)
  <2>1. InBody(w) /\ phase[w] = "load" /\ UNCHANGED <<steps, completedAt, queue, crashes>>
    BY <1>4 DEF LoadRepository, InBody, progressVars
  <2>2. CASE repoRow[Repo(w)] = "absent"
    <3>1. Return(w, "ok") /\ phase'[w] = "ack"
      BY <1>4, <2>2, GotoEffect DEF LoadRepository, Return
    <3>2. \A a \in Runs : a # Run(w) => result'[a] = result[a]
      BY <1>2, <2>1, <3>1, OutcomeOfOwn
    <3> QED BY <2>1, <2>2, <3>1, <3>2 DEF Settles, Succeeds, InBody
  <2>3. CASE repoRow[Repo(w)] # "absent"
    <3>1. UNCHANGED result /\ phase'[w] = "start"
      BY <1>4, <2>3 DEF LoadRepository, WorkerType
    <3> QED BY <1>2, <2>1, <3>1, SilentSettles
  <2> QED BY <2>2, <2>3
<1>5. CASE StartStage(w)
  <2>1. /\ InBody(w) /\ AdvanceStep(Run(w), stage[w], "in_progress")
        /\ UNCHANGED <<result, crashes>> /\ phase'[w] \in {"work", "finish"}
    BY <1>5, GotoEffect DEF StartStage, InBody, brokerVars
  <2>2. "in_progress" \in StepStatus
    BY DEF StepStatus
  <2>3. /\ \A b \in Runs : b # Run(w) => steps'[b] = steps[b]
        /\ \A b \in Runs : completedAt[b] => completedAt'[b]
    BY <1>1, <1>2, <2>1, <2>2, AdvanceStepSettles
  <2> QED BY <1>2, <2>1, <2>3 DEF Settles
<1>6. CASE FinishStage(w)
  <2>1. /\ InBody(w) /\ phase[w] = "finish" /\ AdvanceStep(Run(w), stage[w], "completed")
        /\ UNCHANGED <<result, crashes>>
    BY <1>6 DEF FinishStage, InBody, brokerVars
  <2>2. /\ task' = task /\ phase'[w] # "clone_failed"
        /\ phase'[w] = "publish" => stage[w] = COMPLETED
    <3>1. stage[w] \in 1..8
      BY <1>1, <2>1 DEF PcOK
    <3> QED BY <1>6, <3>1, GotoEffect DEF FinishStage
  <2>3. "completed" \in StepStatus
    BY DEF StepStatus
  <2>4. /\ \A b \in Runs : b # Run(w) => steps'[b] = steps[b]
        /\ \A b \in Runs : completedAt[b] => completedAt'[b]
        /\ request[Run(w)] = "committed" /\ stage[w] = COMPLETED => completedAt'[Run(w)]
    BY <1>1, <1>2, <2>1, <2>3, AdvanceStepSettles
  <2> QED BY <1>2, <2>1, <2>2, <2>4 DEF Settles, PastLoad
<1>7. CASE CloneFails(w)
  <2>1. /\ InBody(w) /\ phase[w] = "work" /\ AdvanceStep(Run(w), CLONING, "failed")
        /\ UNCHANGED <<result, crashes>> /\ task' = task /\ phase'[w] = "clone_failed"
    BY <1>7, GotoEffect DEF CloneFails, InBody, At, brokerVars
  <2>2. "failed" \in StepStatus \ {"pending"} /\ CLONING \in Stages
    BY StageFacts DEF StepStatus
  <2>3. /\ \A b \in Runs : b # Run(w) => steps'[b] = steps[b]
        /\ \A b \in Runs : completedAt[b] => completedAt'[b]
    BY <1>2, <2>1, <2>2, AdvanceStepSettles
  <2>4. request[Run(w)] = "committed" => steps'[Run(w)][CLONING] = "failed"
    BY <1>1, <1>2, <2>1, <2>2, AdvanceStepReports
  <2> QED BY <1>2, <2>1, <2>3, <2>4 DEF Settles, PastLoad
<1>8. CASE ReportFailure(w)
  <2>1. /\ InBody(w) /\ phase[w] = "clone_failed" /\ AdvanceStep(Run(w), FAILED, "failed")
        /\ Return(w, "ok") /\ UNCHANGED <<queue, crashes>> /\ phase'[w] = "ack"
    BY <1>8, GotoEffect DEF ReportFailure, Return, InBody
  <2>2. "failed" \in StepStatus
    BY DEF StepStatus
  <2>3. UNCHANGED steps /\ \A b \in Runs : completedAt[b] => completedAt'[b]
    BY <1>1, <1>2, <2>1, <2>2, AdvanceStepSettles
  <2>4. \A a \in Runs : a # Run(w) => result'[a] = result[a]
    BY <1>2, <2>1, OutcomeOfOwn
  <2> QED BY <1>2, <2>1, <2>3, <2>4 DEF Settles, Succeeds, InBody
<1>9. CASE \/ Clone(w) \/ WriteFiles(w) \/ WriteReport(w) \/ ScheduleEmbeddings(w)
           \/ WriteArchitecture(w) \/ WriteDependencies(w) \/ WriteMetrics(w)
           \/ IndexForSearch(w) \/ BodyRaises(w)
  <2>1. InBody(w) /\ UNCHANGED <<steps, completedAt, crashes>>
    BY <1>9 DEF Clone, WriteFiles, WriteReport, ScheduleEmbeddings, WriteArchitecture,
       WriteDependencies, WriteMetrics, IndexForSearch, BodyRaises, At, InBody, progressVars
  <2>2. \/ Retry(w)
        \/ (Goto(w, stage[w], "finish") \/ Goto(w, stage[w], "search_index")) /\ UNCHANGED result
    BY <1>1, <1>9 DEF Clone, WriteFiles, WriteReport, ScheduleEmbeddings, WriteArchitecture,
       WriteDependencies, WriteMetrics, IndexForSearch, BodyRaises, At, PcOK, brokerVars
  <2>3. phase'[w] \in {"ack", "finish", "search_index"}
    BY <2>2, GotoEffect, RetryEffect
  <2>4. \A a \in Runs : result'[a] = result[a] \/ (a = Run(w) /\ result'[a] # "ok")
    BY <1>2, <2>1, <2>2, OutcomeOfOwn
  <2> QED BY <1>2, <2>1, <2>3, <2>4, SilentSettles
<1>10. CASE PublishCompleted(w)
  <2>1. /\ InBody(w) /\ phase[w] = "publish" /\ Return(w, "ok")
        /\ UNCHANGED <<queue, steps, completedAt, crashes>> /\ phase'[w] = "ack"
    BY <1>10, GotoEffect DEF PublishCompleted, Return, InBody, progressVars
  <2>2. \A a \in Runs : a # Run(w) => result'[a] = result[a]
    BY <1>2, <2>1, OutcomeOfOwn
  <2> QED BY <1>2, <2>1, <2>2 DEF Settles, Succeeds, InBody
<1>11. CASE Acknowledge(w)
  <2>1. phase'[w] = "idle" /\ UNCHANGED <<steps, completedAt, result, crashes>>
    BY <1>11, BecomeIdleEffect DEF Acknowledge, progressVars, brokerVars
  <2> QED BY <1>2, <2>1, SilentSettles
<1>12. CASE HardTimeLimit(w)
  <2>1. /\ InBody(w) /\ phase'[w] = "idle" /\ UNCHANGED <<steps, completedAt, crashes>>
        /\ result' = [result EXCEPT ![Run(w)] = "failed"]
    BY <1>12, BecomeIdleEffect DEF HardTimeLimit, progressVars
  <2>2. \A a \in Runs : result'[a] = result[a] \/ (a = Run(w) /\ result'[a] # "ok")
    BY <1>2, <2>1 DEF BrokerType
  <2> QED BY <1>2, <2>1, <2>2, SilentSettles
<1>13. CASE WorkerLost(w) \/ ConnectionLost(w)
  BY <1>13 DEF WorkerLost, ConnectionLost
<1> QED
  BY <1>3, <1>4, <1>5, <1>6, <1>7, <1>8, <1>9, <1>10, <1>11, <1>12, <1>13
  DEF WorkerStep, WorkerFault, Body

\* A worker sends a message of its own run at most.
LEMMA WorkerQueue ==
    ASSUME BrokerType, NEW w \in Workers, Delivers(w)
    PROVE  \A m \in Messages : queue'[m] > 0 =>
              queue[m] > 0 \/ (InBody(w) /\ m.run = Run(w))
<1>1. CASE Takes(w)
  BY <1>1 DEF Takes, BrokerType
<1>2. CASE Hands(w)
  BY <1>2 DEF Hands, BrokerType
<1>3. CASE Keeps(w)
  BY <1>3 DEF Keeps
<1> QED BY <1>1, <1>2, <1>3 DEF Delivers

\* So a worker keeps the account.
LEMMA WorkerKeepsAccount ==
    ASSUME TypeOK, OwnedInv, StepsInv, NoDuplicateWithoutCrash, AccountInv,
           NEW w \in Workers, WorkerStep(w) \/ WorkerFault(w), ControlInv
    PROVE  AccountInv'
<1>0. BrokerType
  BY TypeParts DEF TypeConjuncts
<1>1. /\ \A v \in Workers : InBody(v) => Run(v) \in Runs /\ target[Run(v)] \in Repos
      /\ CLONING \in PROCESSING_SEQUENCE
  BY RepoOfBody, StageFacts DEF Repo
<1>2. ReportsShape(w) /\ UNCHANGED <<request, kind, target>>
      /\ \A v \in Workers : v # w => phase'[v] = phase[v] /\ task'[v] = task[v]
  BY WorkerReports DEF ReportsShape, OthersStay
<1>3. \A a \in Runs : request'[a] = "none" => result'[a] = "none"
  <2>1. \A a \in Runs : request[a] = "none" => ~(InBody(w) /\ a = Run(w))
    BY <1>1, NullsAssumption DEF OwnedInv
  <2> QED BY <1>2, <2>1, WorkerSettles DEF AccountInv, Settles
<1>4. CASE crashes' # 0
  BY <1>3, <1>4 DEF AccountInv
<1>5. CASE crashes' = 0
  <2>1. crashes = 0 /\ Settles(w) /\ Delivers(w)
    BY <1>5, WorkerSettles, WorkerDelivers
  <2>2. ASSUME NEW a \in Runs, result'[a] = "ok"
        PROVE  /\ \A m \in Messages : queue'[m] > 0 => m.run # a
               /\ \A v \in Workers : InBody(v)' => Run(v)' # a
               /\ kind'[a] = "add" => Accounted(a)'
    <3>1. CASE result[a] = "ok"
      <4>1. /\ \A m \in Messages : queue[m] > 0 => m.run # a
            /\ \A v \in Workers : InBody(v) => Run(v) # a
            /\ kind[a] = "add" => Accounted(a)
        BY <2>1, <3>1 DEF AccountInv
      <4>2. steps'[a] = steps[a] /\ (completedAt[a] => completedAt'[a])
        BY <2>1, <4>1 DEF Settles
      <4>3. \A m \in Messages : queue'[m] > 0 => m.run # a
        BY <1>0, <2>1, <4>1, WorkerQueue
      <4>4. \A v \in Workers : InBody(v)' => Run(v)' # a
        <5>1. InBody(w)' => Run(w)' # a
          BY <2>1, <4>1 DEF Delivers, Takes, Hands, Keeps, Run
        <5> QED BY <1>2, <4>1, <5>1 DEF InBody, Run
      <4> QED BY <1>2, <4>1, <4>2, <4>3, <4>4 DEF Accounted
    <3>2. CASE result[a] # "ok"
      <4>1. a = Run(w) /\ InBody(w) /\ Succeeds(w)
        BY <2>1, <2>2, <3>2 DEF Settles
      <4>2. /\ \A m \in Messages : queue[m] > 0 => m.run # a
            /\ \A v \in Workers : InBody(v) /\ Run(v) = a => v = w
        BY <2>1, <4>1 DEF NoDuplicateWithoutCrash
      <4>3. /\ \A m \in Messages : queue'[m] > 0 => m.run # a
            /\ \A v \in Workers : InBody(v)' => Run(v)' # a
        BY <1>2, <4>1, <4>2 DEF Succeeds, InBody, Run
      <4>4. ASSUME kind[a] = "add" PROVE Accounted(a)'
        <5>1. CASE phase[w] = "load" /\ repoRow[Repo(w)] = "absent"
          <6>1. request[a] # "committed"
            BY <4>1, <4>4, <5>1 DEF StepsInv, AddedInv, Repo
          <6> QED BY <4>1, <6>1 DEF StepsInv, ReportedInv, Accounted, Succeeds
        <5>2. CASE phase[w] = "clone_failed"
          BY <2>1, <4>1, <4>4, <5>2 DEF AccountInv, Accounted, Succeeds
        <5>3. CASE phase[w] = "publish"
          BY <2>1, <4>1, <4>4, <5>3 DEF AccountInv, Accounted, Settles
        <5> QED BY <4>1, <5>1, <5>2, <5>3 DEF Succeeds
      <4> QED BY <1>2, <4>3, <4>4
    <3> QED BY <3>1, <3>2
  <2>3. ASSUME NEW v \in Workers, kind'[Run(v)'] = "add", phase'[v] \in {"clone_failed", "publish"}
        PROVE  /\ phase'[v] = "clone_failed" => steps'[Run(v)'][CLONING] = "failed"
               /\ phase'[v] = "publish" => completedAt'[Run(v)']
    <3>1. CASE v # w
      <4>1. InBody(v) /\ Run(v)' = Run(v) /\ phase'[v] = phase[v] /\ Run(v) \in Runs
        BY <1>1, <1>2, <2>3, <3>1 DEF InBody, Run
      <4>2. ~(InBody(w) /\ Run(v) = Run(w))
        BY <2>1, <3>1, <4>1 DEF NoDuplicateWithoutCrash
      <4> QED BY <1>2, <2>1, <2>3, <4>1, <4>2 DEF AccountInv, Settles
    <3>2. CASE v = w
      <4>1. task'[w] = task[w] /\ PastLoad(w)
        BY <2>1, <2>3, <3>2 DEF Settles
      <4>2. Run(w)' = Run(w) /\ kind[Run(w)] = "add"
        BY <1>2, <2>3, <3>2, <4>1 DEF Run
      <4>3. request[Run(w)] = "committed"
        BY <4>1, <4>2 DEF StepsInv, ReportedInv
      <4> QED BY <2>1, <3>2, <4>2, <4>3 DEF Settles
    <3> QED BY <3>1, <3>2
  <2> QED BY <1>3, <2>2, <2>3 DEF AccountInv
<1> QED BY <1>4, <1>5

\* A request starts with a run that has no result, and touches no report.
LEMMA RequestKeepsAccount ==
    ASSUME TypeOK, OwnedInv, AccountInv,
           \/ \E a \in Runs, r \in Repos : AddRepository(a, r) \/ Reprocess(a, r)
           \/ \E a \in Runs : EndRequest(a)
           \/ \E r \in Repos : DeleteRepository(r)
           \/ UNCHANGED vars
    PROVE  AccountInv'
<1>1. UNCHANGED <<steps, completedAt, task, phase, result, crashes>>
  BY DEF AddRepository, Reprocess, EndRequest, CommitRequest, RollbackRequest, DeleteRepository,
         vars, progressVars, workerVars, brokerVars
<1>2. \A w \in Workers : (InBody(w)' <=> InBody(w)) /\ Run(w)' = Run(w)
  BY <1>1 DEF InBody, Run
<1>3. \A w \in Workers : InBody(w) => Run(w) \in Runs /\ request[Run(w)] # "none"
  <2>1. \A w \in Workers : InBody(w) => Run(w) \in Runs /\ target[Run(w)] \in Repos
    BY RepoOfBody DEF Repo
  <2> QED BY <2>1, NullsAssumption DEF OwnedInv
<1>4. CASE \E a \in Runs, r \in Repos : AddRepository(a, r) \/ Reprocess(a, r)
  <2>1. PICK a \in Runs, r \in Repos : AddRepository(a, r) \/ Reprocess(a, r)
    BY <1>4
  <2>2. /\ request[a] = "none" /\ request' = [request EXCEPT ![a] = "open"]
        /\ \E k : kind' = [kind EXCEPT ![a] = k]
        /\ UNCHANGED queue \/ queue' = [queue EXCEPT ![[run |-> a, retries |-> 0]] = @ + 1]
    BY <2>1 DEF AddRepository, Reprocess, OpenRequest, Delay
  <2>3. result[a] = "none"
    BY <2>2 DEF AccountInv
  <2>4. /\ \A b \in Runs : b # a => request'[b] = request[b] /\ kind'[b] = kind[b]
        /\ \A m \in Messages : queue'[m] > 0 => queue[m] > 0 \/ m.run = a
    <3>1. /\ request \in [Runs -> RequestStates] /\ kind \in [Runs -> RequestKinds]
          /\ queue \in [Messages -> Nat]
      BY DEF TypeOK
    <3> QED BY <2>2, <3>1
  <2>5. request'[a] = "open"
    BY <2>2 DEF TypeOK
  <2>6. \A w \in Workers : phase[w] \in {"clone_failed", "publish"} =>
            kind'[Run(w)] = kind[Run(w)]
    BY <1>3, <2>2, <2>4 DEF InBody
  <2> QED BY <1>1, <1>2, <2>2, <2>3, <2>4, <2>5, <2>6 DEF AccountInv, Accounted, Run
<1>5. CASE UNCHANGED <<kind, queue>> /\ \A a \in Runs : request'[a] = "none" => request[a] = "none"
  BY <1>1, <1>2, <1>5 DEF AccountInv, Accounted, Run
<1>6. \/ \E a \in Runs, r \in Repos : AddRepository(a, r) \/ Reprocess(a, r)
      \/ UNCHANGED <<kind, queue>> /\ \A a \in Runs : request'[a] = "none" => request[a] = "none"
  <2>1. request \in [Runs -> RequestStates]
    BY DEF TypeOK
  <2> QED
    BY <2>1 DEF EndRequest, CommitRequest, RollbackRequest, DeleteRepository, vars, requestVars,
       brokerVars
<1> QED BY <1>4, <1>5, <1>6

\* As long as nothing is lost, a successful task of an added repository has
\* completed its run, recorded that the clone failed, or found no row at all.
THEOREM SuccessHasAReason == Spec => []SuccessIsAccountedFor
<1>1. Init => AccountInv
  BY DEF Init, AccountInv
<1>2. TypeOK /\ ArtefactInv /\ StepsInv /\ NoDuplicateWithoutCrash /\ AccountInv /\ [Next]_vars
      => AccountInv'
  <2> SUFFICES ASSUME TypeOK, ControlInv, OwnedInv, StepsInv, NoDuplicateWithoutCrash, AccountInv,
                      [Next]_vars
               PROVE  AccountInv'
    BY DEF ArtefactInv
  <2>1. CASE \E w \in Workers : WorkerStep(w) \/ WorkerFault(w)
    BY <2>1, WorkerKeepsAccount
  <2> QED BY <2>1, RequestKeepsAccount DEF Next
<1>3. AccountInv => SuccessIsAccountedFor
  BY DEF AccountInv, SuccessIsAccountedFor, Accounted
<1> QED BY <1>1, <1>2, <1>3, TypeCorrect, ArtefactsInvariant, StepsInvariant,
           OneDeliveryAtATime, PTL DEF Spec

-----------------------------------------------------------------------------
(* Attempts and messages are counted.                                      *)

\* What a step does to the count of an attempt: an idle worker begins one, the
\* place stays, or there are fewer places left.
Counts(w) ==
    \/ phase[w] = "idle"
    \/ phase'[w] = phase[w] /\ stage'[w] = stage[w]
    \/ PlacesLeft(phase'[w], stage'[w]) \in 0..(PlacesLeft(phase[w], stage[w]) - 1)

\* What it does to the messages: one more of a kind at most, and that one with
\* a cause.
Publishes(w) ==
    \A m \in Messages : queue'[m] > queue[m] => queue'[m] = queue[m] + 1 /\ HasACause(m)

\* Where the body stands there are places left, more than at its end.
LEMMA PlacesInBody ==
    ASSUME WorkerType, ControlInv, NEW w \in Workers, phase[w] # "idle"
    PROVE  /\ PlacesLeft(phase[w], stage[w]) \in 1..28
           /\ InBody(w) => PlacesLeft(phase[w], stage[w]) > 1
           /\ PlacesLeft("ack", QUEUED) = 1 /\ PlacesLeft("idle", QUEUED) = 0
BY StageOrder DEF WorkerType, ControlInv, PlacesLeft, Phases, InBody, StageNumbers

\* A body that ends leaves fewer places.
LEMMA EndingCounts ==
    ASSUME WorkerType, ControlInv, NEW w \in Workers, InBody(w), phase'[w] = "ack", stage'[w] = QUEUED
    PROVE  Counts(w)
<1>1. phase[w] # "idle"
  BY DEF InBody
<1> QED BY <1>1, PlacesInBody DEF Counts

\* So does a worker that becomes idle.
LEMMA IdlingCounts ==
    ASSUME WorkerType, ControlInv, NEW w \in Workers, phase[w] # "idle", BecomeIdle(w)
    PROVE  Counts(w)
BY PlacesInBody, BecomeIdleEffect DEF Counts

\* A retry carries the number of the attempt that ends, plus one.
LEMMA RetryPublishes ==
    ASSUME WorkerType, BrokerType, OwnedInv, NEW w \in Workers, Retry(w), InBody(w)
    PROVE  Publishes(w)
<1>1. phase'[w] = "ack"
  BY RetryEffect
<1>2. task[w] \in Messages
  BY DEF OwnedInv, InBody
<1>3. CASE queue' = [queue EXCEPT ![[run |-> Run(w), retries |-> task[w].retries + 1]] = @ + 1]
  <2> DEFINE n == [run |-> Run(w), retries |-> task[w].retries + 1]
  <2>1. ASSUME NEW m \in Messages, queue'[m] > queue[m]
        PROVE  queue'[m] = queue[m] + 1 /\ HasACause(m)
    <3>1. m = n
      BY <1>3, <2>1 DEF BrokerType
    <3>2. queue'[m] = queue[m] + 1
      BY <1>3, <3>1 DEF BrokerType
    <3>3. task[w].run = m.run /\ task[w].retries + 1 = m.retries
      BY <3>1 DEF Run
    <3> QED BY <1>1, <3>2, <3>3 DEF HasACause
  <2> QED BY <2>1 DEF Publishes
<1>4. CASE UNCHANGED queue
  BY <1>4 DEF Publishes, BrokerType
<1> QED BY <1>3, <1>4 DEF Retry

\* Whoever publishes nothing needs no cause.
LEMMA SilencePublishes ==
    ASSUME BrokerType, NEW w \in Workers, UNCHANGED queue
    PROVE  Publishes(w)
BY DEF Publishes, BrokerType

\* A move along the program text counts, from place to place.
LEMMA GotoCounts ==
    ASSUME WorkerType, NEW w \in Workers, NEW s, NEW p, Goto(w, s, p),
           PlacesLeft(p, s) \in 0..(PlacesLeft(phase[w], stage[w]) - 1)
    PROVE  Counts(w)
BY GotoEffect DEF Counts

\* Every step of a worker counts down and publishes with a cause.
LEMMA WorkerCounts ==
    ASSUME TypeOK, ControlInv, OwnedInv, NEW w \in Workers, WorkerStep(w) \/ WorkerFault(w)
    PROVE  OthersStay(w) /\ Counts(w) /\ Publishes(w)
<1>0. WorkerType /\ BrokerType
  BY TypeParts DEF TypeConjuncts
<1>a. OthersStay(w)
  BY WorkerShape DEF StepShape
<1> USE <1>0, StageOrder DEF StageNumbers
<1>1. CASE Receive(w)
  <2>1. phase[w] = "idle" /\ \E m \in Messages : queue[m] > 0 /\ queue' = [queue EXCEPT ![m] = @ - 1]
    BY <1>1 DEF Receive
  <2>2. Publishes(w)
    BY <2>1 DEF Publishes, BrokerType
  <2> QED BY <1>a, <2>1, <2>2 DEF Counts
<1>2. CASE LoadRepository(w)
  <2>1. phase[w] = "load" /\ stage[w] = QUEUED /\ UNCHANGED queue
    BY <1>2 DEF LoadRepository, ControlInv
  <2>2. \/ phase'[w] = "ack" /\ stage'[w] = QUEUED
        \/ phase'[w] = "start" /\ stage'[w] = CLONING
    BY <1>2 DEF LoadRepository, Return, Goto, WorkerType
  <2>3. /\ PlacesLeft("ack", QUEUED) \in 0..(PlacesLeft("load", QUEUED) - 1)
        /\ PlacesLeft("start", CLONING) \in 0..(PlacesLeft("load", QUEUED) - 1)
    BY DEF PlacesLeft
  <2>4. Counts(w)
    BY <2>1, <2>2, <2>3 DEF Counts
  <2> QED BY <1>a, <2>1, <2>4, SilencePublishes
<1>3. CASE StartStage(w)
  <2>1. stage[w] \in 1..7 /\ phase[w] = "start" /\ UNCHANGED queue
    BY <1>3 DEF StartStage, ControlInv, brokerVars
  <2>2. stage'[w] = stage[w] /\ phase'[w] \in {"work", "finish"}
    BY <1>3, GotoEffect DEF StartStage
  <2>3. /\ PlacesLeft("work", stage[w]) \in 0..(PlacesLeft("start", stage[w]) - 1)
        /\ PlacesLeft("finish", stage[w]) \in 0..(PlacesLeft("start", stage[w]) - 1)
    BY <2>1 DEF PlacesLeft
  <2>4. Counts(w)
    BY <2>1, <2>2, <2>3 DEF Counts
  <2> QED BY <1>a, <2>1, <2>4, SilencePublishes
<1>4. CASE FinishStage(w)
  <2>1. stage[w] \in 1..8 /\ phase[w] = "finish" /\ UNCHANGED queue
    BY <1>4 DEF FinishStage, ControlInv, brokerVars
  <2>2. CASE stage[w] = COMPLETED
    <3>1. Goto(w, COMPLETED, "publish")
      BY <1>4, <2>2 DEF FinishStage
    <3>2. PlacesLeft("publish", COMPLETED) \in 0..(PlacesLeft("finish", COMPLETED) - 1)
      BY DEF PlacesLeft
    <3> QED BY <1>a, <2>1, <2>2, <3>1, <3>2, GotoCounts, SilencePublishes
  <2>3. CASE stage[w] = GRAPH
    <3>1. Goto(w, COMPLETED, "work")
      BY <1>4, <2>3 DEF FinishStage
    <3>2. PlacesLeft("work", COMPLETED) \in 0..(PlacesLeft("finish", GRAPH) - 1)
      BY DEF PlacesLeft
    <3> QED BY <1>a, <2>1, <2>3, <3>1, <3>2, GotoCounts, SilencePublishes
  <2>4. CASE stage[w] # COMPLETED /\ stage[w] # GRAPH
    <3>1. Goto(w, stage[w] + 1, "start")
      BY <1>4, <2>4 DEF FinishStage
    <3>2. PlacesLeft("start", stage[w] + 1) \in 0..(PlacesLeft(phase[w], stage[w]) - 1)
      BY <2>1, <2>4 DEF PlacesLeft
    <3> QED BY <1>a, <2>1, <3>1, <3>2, GotoCounts, SilencePublishes
  <2> QED BY <2>2, <2>3, <2>4
<1>5. CASE Clone(w) \/ CloneFails(w) \/ WriteFiles(w) \/ WriteReport(w) \/ ScheduleEmbeddings(w)
  <2>1. /\ phase[w] = "work" /\ stage[w] \in 1..6 /\ UNCHANGED queue
        /\ \/ Goto(w, stage[w], "finish")
           \/ stage[w] = CLONING /\ Goto(w, CLONING, "clone_failed")
    BY <1>5 DEF Clone, CloneFails, WriteFiles, WriteReport, ScheduleEmbeddings, At, brokerVars
  <2>2. PlacesLeft("finish", stage[w]) \in 0..(PlacesLeft(phase[w], stage[w]) - 1)
    BY <2>1 DEF PlacesLeft
  <2>3. stage[w] = CLONING =>
          PlacesLeft("clone_failed", CLONING) \in 0..(PlacesLeft(phase[w], stage[w]) - 1)
    BY <2>1 DEF PlacesLeft
  <2> QED BY <1>a, <2>1, <2>2, <2>3, GotoCounts, SilencePublishes
<1>6. CASE WriteArchitecture(w) \/ WriteDependencies(w) \/ WriteMetrics(w)
  <2>1. /\ phase[w] = "work" /\ InBody(w)
        /\ \/ Retry(w)
           \/ stage[w] \in {3, 4} /\ Goto(w, stage[w], "finish") /\ UNCHANGED queue
           \/ stage[w] = COMPLETED /\ Goto(w, COMPLETED, "search_index") /\ UNCHANGED queue
    BY <1>6 DEF WriteArchitecture, WriteDependencies, WriteMetrics, At, InBody, brokerVars
  <2>2. CASE Retry(w)
    BY <1>a, <2>1, <2>2, RetryEffect, EndingCounts, RetryPublishes
  <2>3. CASE stage[w] \in {3, 4} /\ Goto(w, stage[w], "finish") /\ UNCHANGED queue
    <3>1. PlacesLeft("finish", stage[w]) \in 0..(PlacesLeft(phase[w], stage[w]) - 1)
      BY <2>1, <2>3 DEF PlacesLeft
    <3> QED BY <1>a, <2>3, <3>1, GotoCounts, SilencePublishes
  <2>4. CASE stage[w] = COMPLETED /\ Goto(w, COMPLETED, "search_index") /\ UNCHANGED queue
    <3>1. PlacesLeft("search_index", COMPLETED) \in 0..(PlacesLeft(phase[w], stage[w]) - 1)
      BY <2>1, <2>4 DEF PlacesLeft
    <3> QED BY <1>a, <2>4, <3>1, GotoCounts, SilencePublishes
  <2> QED BY <2>1, <2>2, <2>3, <2>4
<1>7. CASE IndexForSearch(w)
  <2>1. phase[w] = "search_index" /\ Goto(w, COMPLETED, "finish") /\ UNCHANGED queue
    BY <1>7 DEF IndexForSearch, brokerVars
  <2>2. PlacesLeft("finish", COMPLETED) \in 0..(PlacesLeft(phase[w], stage[w]) - 1)
    BY <2>1 DEF PlacesLeft
  <2> QED BY <1>a, <2>1, <2>2, GotoCounts, SilencePublishes
<1>8. CASE PublishCompleted(w) \/ ReportFailure(w)
  <2>1. InBody(w) /\ Goto(w, QUEUED, "ack") /\ UNCHANGED queue
    BY <1>8 DEF PublishCompleted, ReportFailure, Return, InBody
  <2> QED BY <1>a, <2>1, GotoEffect, EndingCounts, SilencePublishes
<1>9. CASE BodyRaises(w)
  <2>1. InBody(w) /\ Retry(w)
    BY <1>9 DEF BodyRaises
  <2> QED BY <1>a, <2>1, RetryEffect, EndingCounts, RetryPublishes
<1>10. CASE Acknowledge(w) \/ HardTimeLimit(w)
  <2>1. phase[w] # "idle" /\ BecomeIdle(w) /\ UNCHANGED queue
    BY <1>10 DEF Acknowledge, HardTimeLimit, InBody, brokerVars
  <2> QED BY <1>a, <2>1, IdlingCounts, SilencePublishes
<1>11. CASE WorkerLost(w) \/ ConnectionLost(w)
  <2>1. phase[w] # "idle" /\ queue' = [queue EXCEPT ![task[w]] = @ + 1] /\ crashes' = crashes + 1
    BY <1>11 DEF WorkerLost, ConnectionLost
  <2>2. Publishes(w)
    BY <2>1 DEF Publishes, HasACause, BrokerType
  <2>3. Counts(w)
    BY <1>11, <2>1, IdlingCounts DEF WorkerLost, ConnectionLost, workerVars, Counts
  <2> QED BY <1>a, <2>2, <2>3
<1> QED
  BY <1>1, <1>2, <1>3, <1>4, <1>5, <1>6, <1>7, <1>8, <1>9, <1>10, <1>11
  DEF WorkerStep, WorkerFault, Body

\* A request publishes the first message of its run, or none.
LEMMA RequestPublishes ==
    ASSUME TypeOK, NEW a \in Runs, Delay(a), request[a] = "none", request'[a] = "open",
           NEW m \in Messages, queue'[m] > queue[m]
    PROVE  queue'[m] = queue[m] + 1 /\ HasACause(m)
<1>1. BrokerType
  BY TypeParts DEF TypeConjuncts
<1>2. queue' = [queue EXCEPT ![[run |-> a, retries |-> 0]] = @ + 1]
  BY <1>1 DEF Delay, BrokerType
<1>3. m = [run |-> a, retries |-> 0] /\ queue'[m] = queue[m] + 1
  BY <1>1, <1>2 DEF BrokerType
<1> QED BY <1>3 DEF HasACause

\* Every attempt runs out of places, every retry out of tries, and nothing but
\* a request or a loss adds a message: what makes every task end, for any number
\* of runs, workers, retries and losses.
THEOREM TasksAreBounded == Spec => AttemptsAreCounted
<1> DEFINE Counted ==
        /\ \A w \in Workers :
             phase[w] # "idle" /\ <<phase[w], stage[w]>>' # <<phase[w], stage[w]>>
                 => AttemptLeft(w)' \in 0..(AttemptLeft(w) - 1)
        /\ \A m \in Messages : queue'[m] > queue[m] =>
             queue'[m] = queue[m] + 1 /\ HasACause(m)
<1>1. TypeOK /\ ArtefactInv /\ [Next]_vars => [Counted]_vars
  <2> SUFFICES ASSUME TypeOK, ArtefactInv, Next PROVE Counted
    OBVIOUS
  <2>0. BrokerType
    BY TypeParts DEF TypeConjuncts
  <2>1. CASE \E w \in Workers : WorkerStep(w) \/ WorkerFault(w)
    <3>1. PICK w \in Workers : WorkerStep(w) \/ WorkerFault(w)
      BY <2>1
    <3>2. OthersStay(w) /\ Counts(w) /\ Publishes(w)
      BY <3>1, WorkerCounts DEF ArtefactInv
    <3>3. ASSUME NEW v \in Workers, phase[v] # "idle",
                 <<phase[v], stage[v]>>' # <<phase[v], stage[v]>>
          PROVE  AttemptLeft(v)' \in 0..(AttemptLeft(v) - 1)
      <4>1. v = w
        BY <3>2, <3>3 DEF OthersStay
      <4> QED BY <3>2, <3>3, <4>1 DEF Counts, AttemptLeft
    <3> QED BY <3>2, <3>3 DEF Publishes
  <2>2. ASSUME NEW a \in Runs, NEW r \in Repos, AddRepository(a, r) \/ Reprocess(a, r)
        PROVE  Counted
    <3>1. /\ Delay(a) /\ request[a] = "none" /\ request' = [request EXCEPT ![a] = "open"]
          /\ UNCHANGED <<phase, stage>>
      BY <2>2 DEF AddRepository, Reprocess, OpenRequest, workerVars
    <3>2. request'[a] = "open"
      BY <3>1 DEF TypeOK
    <3> QED BY <3>1, <3>2, RequestPublishes
  <2>3. CASE UNCHANGED <<queue, phase, stage>>
    BY <2>0, <2>3 DEF BrokerType
  <2> QED
    BY <2>1, <2>2, <2>3
    DEF Next, EndRequest, CommitRequest, RollbackRequest, DeleteRepository, brokerVars, workerVars
<1> QED
  BY <1>1, TypeCorrect, ArtefactsInvariant, PTL DEF Spec, AttemptsAreCounted
=============================================================================
