# RepoInfo-backend: specifications and proofs

TLA+ models of the RepoInfo backend (`src/`): a FastAPI service that analyses
git repositories in Celery workers, chats about them over Server-Sent Events,
exports reports, and keeps its state in Postgres (Redis carries OAuth states
and progress events, Elasticsearch and Milvus hold derived documents, S3 holds
exports and uploads). Every definition is translated from the source; the
`map` of `PROJECT.json` names the lines of each.

## 1. Inventory

| Component | State it keeps | Operations | Interacts through |
|---|---|---|---|
| Analysis pipeline (`workers/tasks/repository.py`) | `repositories` row (stage, last analysis), one `repository_analyses` row and nine `repository_processing_steps` per run, file, architecture, dependency, security and metrics rows | `analyze_repository`: clone, index, structure, dependencies, security, embeddings, graph, metrics, search index | Celery (one message per run, acks late, two retries), Postgres (one transaction per `db_session_ctx`), Redis pub/sub, Elasticsearch, `embed_repository_files` |
| Repository catalogue (`services/repository_service.py`) | `repositories`, favourites, pins | add, reprocess, delete (soft), toggles, list, render | creates runs and publishes their tasks before its own commit |
| Chat and RAG (`services/chat_service.py`, `ai/agents/rag_agent.py`) | conversations with a message counter, messages with a status, AI responses, daily usage | send, stream, regenerate, rename, pin, save, delete | SSE generator that outlives the request's transaction; a chain of AI providers |
| Exports (`workers/tasks/export.py`) | `export_jobs` (status, storage key, expiry), S3 objects | request, build, list, download link, expire | Celery, S3, the cleanup every six hours |
| Authentication (`services/auth_service.py`) | users, login sessions, refresh tokens, one-time codes | register, verify, login, refresh, logout, forgot, reset, change password, revoke | cookies/headers, e-mail task, cleanup |
| OAuth (`services/oauth_service.py`) | OAuth accounts, states in Redis | authorize, callback | provider APIs, Redis, the tables of authentication |
| Billing (`services/billing_service.py`) | subscription of a user, the plan on the user's row | read (shows the free plan without one), change plan, cancel | none |
| Projects (`services/project_service.py`) | projects with a unique slug | create, update, delete, list | none |
| Search index (`workers/tasks/embeddings.py`, `vectorstore/`, `search/`) | chunks of index entries in Milvus (a path is embedded as "File index entry for ...", a file's text never is), documents in Elasticsearch | chunk, embed, insert, search | Celery, the analysis, the chat |
| Notifications, settings, profile, API keys | single rows of one user | create, read, update, delete | none |
| Providers, S3, e-mail clients | none | I/O | external services |
| HTTP shell | none | middlewares, error handlers, configuration | all endpoints |

### What is hard here

* A request publishes a Celery task *before* its endpoint commits, so the
  worker may overtake the rows it is about (`repository_service.py:169, 191`,
  and `:391` for exports).
* Messages are acknowledged late and rejected on worker loss
  (`celery_app.py:37-38`): an attempt may be delivered again after some of its
  transactions have committed, also when `self.retry` has already published
  its successor.
* The pipeline's inserts are guarded by unique constraints in some tables
  (architecture, dependencies, metrics) and by nothing in others (files,
  security reports), so a second attempt dies somewhere in the middle. Each
  attempt clones anew, so two attempts may see two different repositories.
* Streams and read-modify-write counters of the chat live across several
  transactions.
* One-time tokens (refresh, OTP, OAuth state) must be used once although each
  request reads, checks and writes them in separate statements; an exception
  after a write rolls the write back.
* Everywhere a request reads rows, decides, and writes at its commit: what it
  has read may be stale by then. Unique keys stop some of these races, and
  count softly deleted rows; where a key column is NULL they stop nothing.
* SQLAlchemy writes an attribute only when it differs from what was loaded,
  and an object whose attributes were expired by an UPDATE cannot be read
  outside of its greenlet: some endpoints always fail after their UPDATE.

### What makes each component correct

* Pipeline: a reader finds at most one architecture, one latest report and one
  metrics row, and finds them in stage order; a completed run has all its
  results; no repository is completed twice; progress is reported in order; a
  successful task has done what it reports; a task ends.
* Contents: the file tree is whole; what is shown together is of one checkout.
* Search: once the embeddings message is acknowledged, the chunks of every path
  in it cover the path's index entry, unless an error cost one.
* Catalogue: a name has one row, a flag counts its toggles.
* Billing: the plan of the user and of the subscription agree.
* Chat: a complete message holds what was delivered, from one provider; every
  stream ends in a state the client can see; usage counts every answer.
* Exports: a job is completed only with its object; an expired job is not
  offered; a job ends.
* Authentication: a refresh token has at most one successor, a login has one
  live token, a logout everywhere ends every login; a secret is accepted once;
  a verified address was proven; nobody is locked out of an account.

## 2. The modules

| Part | Modules | Abstract specification | Proofs |
|---|---|---|---|
| Analysis pipeline | `AnalysisPipeline`, `MCAnalysisPipeline` | `AnalysisArtefacts` | `AnalysisPipelineProofs` |
| What an analysis shows | `RepositoryContents` | | `ContentsProofs` |
| Search index | `SearchIndex` | | `ContentsProofs` |
| Catalogue and projects | `Catalogue`, over `Requests` | | `RequestsProofs` |
| Billing | `Subscriptions`, over `Requests` | | `RequestsProofs` |
| The last four side by side | `MCWorkspace` | | `WorkspaceProofs` |
| Chat | `ChatStream`, `MCChatStream` | `AnswerContract` | `ChatStreamProofs` |
| Exports | `ExportJobs`, `MCExportJobs` | `ExportLifecycle` | `ExportJobsProofs` |
| Refresh tokens and sessions | `AuthTokens`, `MCAuthTokens` | | `AuthTokensProofs` |
| Accounts, codes, OAuth | `Accounts`, `MCAccounts` | `OneTimeCodes` | `AccountsProofs` |

`Requests` is the session of an API request, which `Catalogue` and
`Subscriptions` share; `NullValue` declares Python's None. `MCWorkspace`
instantiates `Subscriptions`, `Catalogue`, `RepositoryContents` and
`SearchIndex` together.

The definitions that a comment calls "faulty variant" are not part of a
specification: they are the code with a plausible bug, and each property of a
passing run is violated when one of them takes the place of the definition it
varies (`mutants` in `PROJECT.json`).

## 3. The analysis pipeline

`AnalysisPipeline` puts four parties together: requests, the broker, workers
and the tables they share. An action is one database transaction or one call
to the broker.

| Model | Code |
|---|---|
| `request`, `kind`, `target`, `rowWritten` | the open transaction of `POST /repositories` or `.../reprocess`; a run's id stands for the request that creates it |
| `repoRow`, `repoStage`, `lastAnalyzed` | the `repositories` row |
| `runStage`, `completedAt`, `steps` | `repository_analyses` and its steps |
| `fileSets`, `architecture`, `dependencies`, `reports`, `metrics`, `embedJobs`, `searchDoc` | the rows and documents a run produces: counters where nothing prevents a second set, booleans where a unique constraint does |
| `queue`, `result` | Redis as Celery's broker (a bag of messages with their retry count) and result backend |
| `task`, `phase`, `stage`, `sawLanguage` | a worker process: its message, where in `_run_pipeline` it is, and what the repository object it loaded first knows |

`AddRepository`/`Reprocess` run the service method up to its last flush and
publish the task (or fail to: `Delay` swallows a broker error);
`CommitRequest`/`RollbackRequest` end the transaction. Any exception after
`delay` rolls back, so `RollbackRequest` is enabled for every open request. One
cause is certain: the UPDATE of `reprocess` expires `updated_at`, which
`_to_out` reads outside of SQLAlchemy's greenlet, so a request that has written
the row (`rowWritten`) can only roll back, while its task is already published.
An UPDATE of the `repositories` row holds its lock until the end of the
transaction (`RowLocked`), and `_advance_step` and `DeleteRepository` wait for
it. The
statistics that INDEXING writes change the row only when they differ from what
is stored, so that action does not wait.

A worker runs `Receive`, `LoadRepository`, then per stage `StartStage`, the
stage's own action (`Clone`, `WriteFiles`, `WriteArchitecture`, ...) and
`FinishStage`; `BUILDING_GRAPH` has no work, and `COMPLETED` is never started.
`AdvanceStep` is `_advance_step` with its early return: no step row (the run is
not committed, or the stage is FAILED), no change. An exception anywhere
(`BodyRaises`, or a unique constraint in `WriteArchitecture`,
`WriteDependencies`, `WriteMetrics`) reaches `Retry`: the next attempt is
published and the current one acknowledged, or the task fails. `WorkerLost`
puts the message of a lost process back with the retries it had, and
`ConnectionLost` does so while the process works on, so that two processes run
one attempt; `HardTimeLimit` ends the task without a retry.

Abstracted: the contents of rows, `progress`, `detail` and error texts,
timestamps, `celery_task_id`, the progress ticks on Redis (a failing publish is
a `BodyRaises`), the countdown of a retry. Repository names are not modelled;
ids are UUIDs and `AddRepository` takes a fresh one.

### Abstract specification

`AnalysisArtefacts` is what a reader of one repository may rely on:
architecture, latest report and metrics appear one after the other, each once.
`ArtefactsPublishedOnce` says that the pipeline implements it; TLC checks it
and `AnalysisPipelineProofs` proves it.

### Runs

| Run (cfg) | Instance | Shows |
|---|---|---|
| `pipeline_interleavings` (`AnalysisPipeline.cfg`) | 1 repository, 2 runs, 2 workers, no retry, no crash; ~331 000 states | two requests on one repository in every interleaving: `TypeOK`, `ArtefactInv` (the inductive invariant of the proofs), `CompletedRunHasResults`, `OneCompletedRun`, `AddedRunReportsInOrder`, the refinement `ArtefactsPublishedOnce`, from which the theorem `LatestReportIsUnique` takes one part |
| `pipeline_redelivery` (`AnalysisRedelivery.cfg`) | 1 run, 1 worker, the 2 retries of the source, 1 lost process or connection; ~326 000 states | duplicates only after a loss (`NoDuplicateWithoutCrash`), a successful task is accounted for (`SuccessIsAccountedFor`), the search document is written once (`SearchDocWrittenOnce`), attempts run out of places and retries of tries (`AttemptsAreCounted`), `TasksEnd` under `Fairness` |
| `pipeline_failed_stage` (`AnalysisFailedStage.cfg`) | 1 run, no retry | violates `FailedTaskMarksItsStage`: a stage that raises stays IN_PROGRESS |
| `pipeline_silent_nothing` (`AnalysisSilentNothing.cfg`) | 1 run | violates `NoSilentNothing`: a task that overtakes its commit ends as ok and leaves no trace |

Two runs are enough for every conflict between attempts (all of them are
between two attempts at one row), two workers for every overlap; a second
repository shares nothing with the first but workers. The first run has the
overlaps and no retry, the second the retries and redeliveries one after the
other; both together, on any number of workers, are what the theorems of
section 9 cover: every safety property of the two runs is proved. `CHECK_DEADLOCK FALSE` because
the requests of an instance are used up. Symmetry is used in the safety runs
only.

Fairness: a request that has been accepted ends (uvicorn runs its coroutine to
the end), and a live worker process keeps taking messages and running its body
(a blocking Celery worker loop). No user request and no fault is fair.
Weak fairness is enough: a step that waits for a row lock stays enabled once
the lock is released for the last time, and a request never takes it twice.

### What the properties say of the code

Nothing in the code clears `is_latest`, checks whether an analysis is already
running, or makes an attempt idempotent. What keeps the artefacts consistent is
one unique index: `repository_architectures.repository_id`, the first of the
pipeline's constrained inserts. Whoever inserts that row is the only attempt
that ever passes it, and the later artefacts are its own. The price is that a
retry or a reprocess after the architecture has been stored can never
complete: its insert fails, its step stays IN_PROGRESS, and after the retries
the task fails (`OneCompletedRun`, `SearchDocWrittenOnce`).

### What the attempts show

`RepositoryContents` opens up what the pipeline counts: the rows of one
repository that attempts write, each from a checkout of its own, and what the
read endpoints make of them. How attempts come about is left to
`AnalysisPipeline`; here any number of them start, overlap and raise
(`Raise`). `IterRepoFiles`, `Listings`, `IndexTree`, `LanguageStats`,
`ParseDependencies`, `DetectArchitecture`, `SecurityScan` and `Score` are the
functions of `workers/tasks/repository.py` as operators over a checkout, which
is a set of paths with sizes and the packages of four manifests. A walk that
has more than `max_files` files stops after any that many (the order is the
file system's). The stages insert under the constraints of the tables: the
architecture and the metrics once per repository, a package once per
repository, name and ecosystem, so that a package listed twice in a checkout
raises. `GetTreeParents`, `GetMetrics`, `GetSecurity` and `GetDependencies` are
the endpoints: where several rows fit, any of them is served.

`TreeIsWhole` says that a row of the file tree hangs below its directory,
however many attempts have indexed which checkouts. Two checkouts that disagree
about a path (a file in one, a directory in the other) are excepted: the tree
may take the file for the parent. `OneSnapshot` says that architecture,
packages, findings and metrics, which four requests fetch from four tables,
come from one attempt and so from one checkout. The files are not among them:
every attempt adds its own.

Files whose size cannot be read are among the `max_files` but get no row
(`Listings`).

`SearchIndex` has `embed_repository_files`, the task that the pipeline
publishes, with its message. The task never reads a file: what it embeds of a
path is a stand-in, the string "File index entry for" with the path
(`embeddings.py:17-23`), here the path's *index entry*, known by its number of
tokens. Nor does it get every path: an attempt passes on the files among the
first 200 entries it has listed (`repository.py:492`; `MaxEmbedded`,
`Messages`), and since one attempt per repository gets that far, one message
per repository is published (`Publish`). What is in a file is therefore out of
reach of a semantic search, and so are the paths after the first 200; no
property says otherwise.

The task takes the paths one at a time, cuts the entry into windows
(`ChunkText`), embeds them in one call and inserts them one by one; every
failure costs a path or a chunk and is swallowed (`EmbedPath`, `InsertChunk`,
`GiveUpPath`). The message is acknowledged when the body has returned
(`Finish`) or the time limit has ended it (`TimeLimit`); when the process is
lost it goes back to the queue (`LoseProcess`), and so it does when the
acknowledgement gets lost. A delivery then starts all over. `EntriesAreCovered`
says what that comes to: once a message is acknowledged, its last delivery has
stored the whole index entry of every path in it, with neighbouring chunks
overlapping by `TokenOverlap` and each chunk once, unless an error or the time
limit cost the path a chunk; of a path not in the message nothing is stored. It
rests on the message being acknowledged late: the mutant, which acknowledges
the message of a lost process, leaves paths without an entry for good.

The price is duplicates: the second delivery inserts every chunk again
(`auto_id`) beside the one that is there, and nothing ever leaves the index;
the property therefore speaks of the rows of one delivery. (The docstring of
`milvus_client.py` calls repository, source and chunk number the key of a row;
it is one per delivery.)
`SearchAssumption` says that the overlap is smaller than the window, as in the
only call (`service.py:61`, which leaves `chunk_text` at its 512 and 64
tokens): with an overlap as large as the window `range` would have no step to
take.

`TreeIsWhole`, `OneSnapshot` and `EntriesAreCovered` are checked in the run
`workspace` (section 8).

## 4. Chat

`ChatStream` has the sends into one conversation. A send goes through three
transactions: the request's, which stores question and placeholder and counts
the message (`ReadConversation`, `SaveMessages`); and, from the generator that
outlives the request, the one that stores an error (`StoreError`) or the one
that stores the answer, its `AIResponse` and the usage of the day
(`ReadUsage`, `StoreAnswer`, or `UsageConflict` when two answers insert the
unique row). `regenerate` makes the same state changes as a send. Both counters
are read in one statement and written as an absolute value in another, so the
read is a step of its own; the write and the commit after it are one step,
because the row's lock is held in between.

`ProviderChain` and `ProviderFails` are the fallback of `rag_agent.py`. The
chain is a set of links: the requested provider (link 0), then the places of
the fallback order, without the names that are unknown or already in the
chain. The next link is asked only when the current one is out of quota or has
no valid key, and only before its first chunk. `Delta` appends the provider to the
parts, since an answer is abstracted to who gave each part. `Disconnect` is the
cancellation of the generator by Starlette; `except Exception` does not see it,
and the placeholder stays STREAMING. `Break` is a failure outside of the `try`.
`heard` is what the client was told last.

`AnswerContract` is what one answer promises its reader, without chain,
counters, transactions or other sends: its parts are of one author, its row is
completed with all of them and under that author's name before "done" is said,
an error is said before the row keeps what had arrived, and a row is written
once. It may stop anywhere. That a complete answer has one voice, that the row
never contradicts what the client heard, and that a settled row stays are parts
of it (`CompleteAnswerHasOneVoice`, `ClientAndRowAgree`, `SettledRowsStay`);
they are stated on their own for the theorems of section 9.

`SendsCountDown` is the safety half of `SendsEnd`: every step of a send leaves
fewer of its places, links and parts before it (`StepsLeft`), and the steps of
others leave it as it is.

| Run (cfg) | Instance | Shows |
|---|---|---|
| `chat_stream` (`ChatStream.cfg`) | 2 sends, 2 providers, up to 2 parts, a fallback order with a repeat and an unknown name; ~181 000 states | `AnswersKeepTheContract` (the refinement of `AnswerContract`), `UsageNeverAhead`, `StrandedAnswersHaveACause` (a placeholder is left streaming by a client that went away, a broken database, or the usage row of an answer that was stored, and its reader never heard "done"), `SendsCountDown`, `SendsEnd` |
| `chat_usage` (`ChatUsage.cfg`) | 3 sends, empty answers | violates `UsageIsCurrent`: two answers settled together count once |

Two sends have every overlap of two read-modify-writes; the lost update of the
usage row needs a third answer, because the first insert is guarded by the
unique constraint. Two parts are enough for a provider to fail before, in and
after its answer. All answers fall on one day.

Fairness: the event loop runs every coroutine on (`ServerStep`), and a provider
goes on, ends or fails (`ProviderStep`). The SDK clients bound each read by a
timeout; the Ollama client has none, so that for Ollama this is an assumption
about its server. Disconnects and failures owe nothing.

## 5. Exports

`ExportJobs`: `RequestExport` creates the row and publishes the task, the
endpoint commits (`CommitRequest`) or an error rolls back while the task stays.
A worker loads and marks the job in one transaction, uploads, and completes it
in another. Load and commit are separate steps, since SQLAlchemy writes only
what differs from what was loaded (`WriteStatus`): a redelivered build that
loaded PROCESSING does not write PROCESSING again over what another one has
written since. `CleanupExports` is one UPDATE; beat runs it every six hours.
Broker, loss of a process and loss of a connection are as in the pipeline; the
task has no retry.

`ExportLifecycle` is what a client sees that polls the list: row, key and
object of a job, and the number of losses. Without a loss a job goes from
pending over processing and completed to expired and stays there; at any time
it is completed, and has a key, only when its object is there
(`CompletedCanBeFetched` and `FinishedStaysFinished` are these two parts).
Requests, messages, workers and the cleanup's clock are not in it.

| Run (cfg) | Instance | Shows |
|---|---|---|
| `export_jobs` (`ExportJobs.cfg`) | 2 jobs, 2 workers, 2 losses; ~389 000 states | `JobsFollowTheLifecycle` (the refinement of `ExportLifecycle`), `UnfinishedJobsHaveACause`, `DeliveriesAreBounded` (one copy of a task for its request and one for each loss), `ExportsEnd` |

Two losses let one task be delivered three times, to both workers at once. With
losses a finished job may be reopened (a redelivered build sets it to
PROCESSING), which is why `UnfinishedJobsHaveACause` speaks of executions
without one and `ExportLifecycle` lets a job be reopened after one only. Fairness is that of
the pipeline; time, cleanup and faults are not fair.

## 6. Tokens and sessions

`AuthTokens` has the refresh tokens of one user, each with the session that
`_issue_tokens` creates along with it. Sign-in and refresh are two steps
(credential read, commit). Logout, revocation of a session and of all tokens
are one: none of them reads anything that a concurrent request could change
under it, and the UPDATE of `revoke_all_for_user` is one statement over the
rows committed by then. `sweeps`, `readAt`, `parent`, `login`, `signedInAt` and
`overlapped` are history variables; no action reads them in a guard, except
that `MaxSweeps` bounds their number.

The code compares `expires_at` with a naive timestamp. On the schema that the
migrations end with (`timestamptz`), this raises for every live token, so that
`refresh` answers with a server error; on the naive columns of which `_db_now`
speaks, it works. `Schemas` says which of the two an instance considers: the
properties hold on both, and on the migrated one there are no rotations.

| Run (cfg) | Instance | Shows |
|---|---|---|
| `auth_tokens` (`AuthTokens.cfg`) | 3 tokens, 2 requests, 2 sweeps, both schemas; ~549 000 states | `RotationInv`, `OneLiveTokenPerLogin`, `SweepEndsEveryLogin`, `NoHiddenLogin`, `EndedLoginsStayEnded` (a login none of whose tokens is live or being refreshed never has a live one again) |
| `auth_reuse` (`AuthReuse.cfg`) | 3 tokens, the migrated schema | violates `ReuseRevokesAll`: the revocation on reuse is rolled back by the exception that follows it |
| `auth_expiry` (`AuthExpiry.cfg`) | 3 tokens, the migrated schema | violates `ExpiryCanBeCompared` |

Three tokens are a sign-in with two rival successors, or a chain of two
rotations; two requests are every overlap of two.

## 7. Accounts

`Accounts` has what leads to a sign-in: registration, the codes that verify an
address, login, forgotten and changed passwords, and OAuth. A request reads in
one step (`Begin...`) and writes in another (`Commit...`), so that two requests
overlap in every way; `Fail` is a rollback in between. `raced` is a history
variable: since this request has read, another has committed an account or a
link. The callback has more steps, because it talks to Redis and to the
provider before it reads the tables: `BeginCallback` gets the state,
`TakeState` deletes it, `LoadProfile` decides whose account it is.

| Model | Code |
|---|---|
| `email`, `name`, `password`, `verified` | `users`; a row exists when it has an address |
| `linked` | `oauth_accounts`, unique per provider and account |
| `kind`, `owner`, `spent`, `expired`, `gone` | `email_otps`, `password_reset_tokens`, and the OAuth states in Redis; a secret is a number in the order of `created_at` |
| `req` | a request: what it does and what it has loaded |
| `aware` | whether the timestamps carry a time zone (migration `d70e7d786901`, either way) |

A mail with a code leaves before the commit that stores it, so the model lets
anyone present any secret ever numbered. The count of failed attempts of a code
has no variable: the exception that follows rolls it back.

`OneTimeCodes` is the abstract specification: a holder presents a secret while
it is unspent, accepting it spends it. The code reads a secret unconsumed and
marks it consumed at its commit, without a lock, so two requests that overlap
may both be accepted; `AcceptedOnce`, a refinement, says that this is all:
no request that begins after an acceptance is accepted with the same secret.

| Run (cfg) | Instance | Shows |
|---|---|---|
| `accounts` (`Accounts.cfg`) | 2 users, 2 addresses, 2 logins (one of the column's width), 2 identities, 2 passwords, 2 secrets, 2 requests, the schema migrated both ways; ~325 000 states | `AcceptedOnce`, `VerifiedMeansProven` (neither a reset nor a link verifies an address), `EveryAccountCanSignIn` (no interleaving leaves an account without password and identity), `ConflictHasACause` (an IntegrityError means a race, or a login cut to its column) |

Two requests are every overlap of two; two secrets are a newer code that
overtakes an older one, or a code and a token of one account; two users are
what the unique keys tell apart. All sets are symmetric but the logins.

## 8. Workspace: billing, catalogue, contents, search

`Requests` is one API request with its session: `Begin` reads, `End` commits or
rolls back, and `before` records which requests had been answered when one
began, so that a property can say that two overlapped (`Overlap`, `Serial`).

`Subscriptions`: `BeginRequest` loads the user's row and the plan asked for
(`RefuseUnknownPlan` when there is none), `LoadSubscription` the
active subscription, `CommitChange` and `CommitCancel` write what differs from
what was loaded, which is what the ORM does. `PlansAgree`: as long as the
writes of a user did not overlap, there is one active subscription and its plan
is that of the user's row.

`Catalogue`: the insertions of repositories, projects and conversations
(`AddRepository`, `CreateProject`, `CreateConversation`, `CommitInsert`), the
two flags (`Toggle`, `CommitToggle`), the deletions and the edits. The rows
that an operation finds are `Owned` (by id, deleted ones too) or `Visible`. The
edits of projects and conversations change no row: an UPDATE that changes
something expires `updated_at`, and the answer that reads it fails.
`NameHasOneRow`: a full name or a slug has one row for good, and whoever is
refused a name was refused it because of such a row. `TogglesCount`: a flag is
set after an odd number of toggles that did not overlap, and the filtered list
agrees.

| Run (cfg) | Instance | Shows |
|---|---|---|
| `workspace` (`Workspace.cfg`) | 3 billing requests over 3 plans; 4 catalogue requests over 4 URLs and 2 names with one slug; 2 attempts over 4 checkouts; 2 deliveries of messages with up to 2 of 4 paths in 2 repositories; ~558 000 states | `PlansAgree`, `NameHasOneRow`, `TogglesCount`, `TreeIsWhole`, `OneSnapshot`, `EntriesAreCovered` |

The four parts share no row and no key, so one run takes them one at a time
(`area`) instead of multiplying their states. Requests are numbered as they
begin, so there is no symmetry among them. Four catalogue requests are a
repository, a deletion and two rivals for its name, or a repository and three
toggles; three billing requests are a first subscription and two changes that
overlap it or each other. The four checkouts have a package listed twice, a
path that is a file in one and a directory in another, more files than
`MaxFiles`, one of them unreadable, and no file at all; the index entries have
less than one window, two windows that end with the entry, and three windows,
and one repository has more paths than a message. Two deliveries are a first one
that is cut short anywhere and its successor, or one for each repository.
`ASSUME`s of the components are evaluated by this run.

## 9. What is proved

Eight modules of proofs, each for all values of the constants of its component
that satisfy the named assumptions: all 37 safety properties that the passing
runs check, the four refinements of the pipeline, the chat, the exports and the
codes among them. No set of repositories, runs, jobs, tokens, attempts, paths
or identities needs to be finite; users, sends, API requests
and the workers of the exports do, where the code or a property counts them.

`AnalysisPipelineProofs`, from `BoundsAssumption` (retries and crashes are
naturals) and `NullsAssumption` (the null values are not members of the sets
they extend):

* `TypeCorrect`: `Spec => []TypeOK`.
* `ArtefactsInvariant`: `Spec => []ArtefactInv`. `SingleLatestReport` is not
  inductive: from one report the next `WriteReport` makes two. `ArtefactInv`
  adds where the program counters of the workers can be (`ControlInv`), that
  messages and attempts belong to runs with a target (`OwnedInv`), and the
  heart of it (`SlotInv`): per repository at most one attempt is past the
  architecture insert, and for that attempt the report and the metrics are
  there exactly when it is past their inserts. `WorkerShape` reduces all the
  worker's steps to two kinds, quiet ones and insertions, so that the
  preservation is proved twice and not sixteen times.
* `LatestReportIsUnique`: `Spec => []SingleLatestReport`, from it.
* `Refinement`: `Spec => ArtefactsPublishedOnce`. Every insertion maps to its
  abstract action, every other step to a stutter.
* `ResultsInvariant`: an attempt past the architecture knows that no run of its
  repository has completed (`SettlingInv`), and what a completed run has left
  stays (`CompletedInv`). From it `CompletedRunsServe`, `OneRunCompletes` and
  `DocumentIsFinal`.
* `OneDeliveryAtATime`: `Spec => []NoDuplicateWithoutCrash`, which is inductive
  with `OwnedInv`: without a loss, a step takes a message, hands its run over
  to a retry, or keeps the attempt it has (`Delivers`).
* `StepsInvariant`: the repository's row and the steps of its first run are
  committed together (`AddedInv`), so an attempt that has found the row has
  reported every stage it has started (`ReportedInv`). From it
  `ReportsComeInOrder`.
* `SuccessHasAReason`: `Spec => []SuccessIsAccountedFor`, through `AccountInv`:
  nothing of a successful run is left in flight, and an attempt about to
  succeed has reported why. It rests on the two invariants before it.
* `TasksAreBounded`: `Spec => AttemptsAreCounted`. A worker's places fall until
  it is idle (`GotoCounts`, `WorkerCounts`), and a message is added only by a
  request, by an attempt that ends with a higher retry count (`RetryPublishes`)
  or by a loss. Since retries and losses are bounded, messages and attempts
  form a multiset that falls: with fairness this is `TasksEnd`.

`AuthTokensProofs`, from `AuthAssumption`:

* `TypeCorrect`, and `Invariance`: `Spec => []Inv`, from which
  `RotationIsRecorded`, `SweepsEndLogins` and `LiveTokensAreListed` follow.
  `SweepEndsEveryLogin` is not inductive: a refresh may commit after its token
  was revoked, and what it issues must be bounded by what it had read.
  `LoadedInv` says so of requests under way; `RequestsInv` and `FreshInv` keep
  lineages apart from rows that are not there yet. Every step is quiet
  (`QuietKeeps`), revokes (`RevokingKeeps`), or issues a token (`SignInKeeps`,
  `RotationKeeps`).
* `LoginsHaveOneLiveToken`: a token that was replaced is not live, and a
  lineage that has not branched has one token that was not replaced
  (`NewestInv`).
* `EndedLoginsAreFinal`: an action property, by cases in `EndedStep`: a refresh
  begins with a live token, and what it issues is of that token's login.

`AccountsProofs`, from `AccountsAssumption`: `TypeCorrect`,
`VerifiedIsProven`, `NobodyIsLockedOut`, `ConflictsAreExplained` and
`SecretsAreAcceptedOnce`. The refinement needs to know of secrets what a
request has loaded of them (`HeldInv`), that a number is given once
(`NumberInv`) and that only stored secrets are spent (`SpentInv`); the
conflicts need that the name and the identity a request has found free are
free until another inserts (`FreeInv`).

`ChatStreamProofs`, from `ChatAssumption` (sends are finitely many, names of
providers are strings):

* `Invariance`: `RowInv` ties the row and what the client has heard to where
  the send stands, `VoiceInv` all parts to the current link of the chain,
  `UsageInv` what an answer has read of the counter to the answers counted by
  then, which are only added to. `TypeCorrect`, `AnswersHaveOneVoice`,
  `ClientSeesTheRow`, `UsageIsBounded`, `ConflictsAreLost`,
  `SettledRowsAreFinal` and `StrandedAnswersAreExplained` follow.
* `ChatKeepsTheContract`: `Spec => AnswersKeepTheContract`. Row, text, author,
  parts and last event map to themselves; the chain and the counters are not in
  the contract. `VoiceInv` gives the author of a part (`OneAuthor`), `RowInv`
  the guards (`ContractStep`).
* `SendsAreBounded`: `Spec => SendsCountDown`. `StepsLeft` is a natural
  (`LeftIsANumber`), the sends that do not step keep it (`OthersStandStill`),
  and the one that does has less (`OwnStepCounts`).

`ExportJobsProofs`, from `ExportAssumption` (workers are finitely many):

* `TypeCorrect`, `CompletedIsFetchable` (`StoredInv`: past the upload the
  object is there), `LeftoversAreExplained` and `FinishedIsFinal` (`OnceInv`:
  without a loss the message, the worker and the row of a job are in step).
* `DeliveriesAreCounted`: `Spec => []DeliveriesAreBounded`, inductive with what
  `DeliveryInv` adds of jobs without a request. A worker that takes a message
  or puts it back moves one copy (`TakesAJob`, `LeavesAJob`); only a loss of a
  connection adds one.
* `ExportsFollowTheLifecycle`: `Spec => JobsFollowTheLifecycle`. A step of a
  redelivered build maps to a reopening, which `OnceInv` excludes before the
  first loss.

`RequestsProofs`, from `RequestsAssumption`, `CatalogueAssumption` and
`SubscriptionsAssumption`: both parts share the lemmas about requests
(`BeforeInv`: what had been answered when a request began stays answered).
`CatalogueIsTyped`, `NamesAreUnique` (a request names a row only of its own user
and key) and `TogglesAreCounted` (an open toggle that no write has overtaken
knows the flag as it is); `SubscriptionsAreTyped` and `PlansAlwaysAgree`,
through what a request that no write has overtaken knows of the rows (`KnowInv`,
`AgreeInv`).

`ContentsProofs`, from `CheckoutsAssumption` (a checkout has finitely many
files, each with a path), `MaxFilesAssumption`, `NoneAssumption` and
`SearchAssumption`:

* `TreesAreWhole` (every row of `IndexTree` has its directory in it, and rows
  are never deleted), `SnapshotsAreOne` (the attempt whose architecture is
  stored is the only one that gets beyond it, `OwnerInv`, and what its stages
  leave is of its checkout, `LeftInv`) and `ContentsAreTyped` (the statistics
  count at most `MaxFiles` files, a score lies between 0 and 100), for every
  possible checkout.
* `ChunksOf`: for every length, window and overlap, `ChunkText` covers the text,
  repeats no window, and neighbours overlap by `TokenOverlap`. The number of
  windows is a quotient, whose bounds `Quotient` and `LastWindow` state.
* `EntriesAreWhole`: `SearchSpec => []EntriesAreCovered`. `MessageInv` keeps
  what is stored, and what is still to do, to the paths in the message.
  `ProgressInv` accounts for the delivery in progress: nothing is stored of a
  path that waits, a prefix of the chunks of the path in hand, all of one that
  is done, unless an error cost it one. `DoneInv` carries this over to the end:
  an acknowledged message has a last delivery whose paths are done. No step
  after the acknowledgement adds to that delivery, because only the delivery in
  progress stores anything.

`WorkspaceProofs`, from all of these: in `MCWorkspace` each part takes the steps
of its own specification or stands still (`ContentsAndSearch`, `BillingArea`,
`OtherAreas`), so that what is proved of the parts holds of the whole:
`WorkspaceIsTyped`, `WorkspacePlansAgree`, `WorkspaceRowsAreSound` and
`WorkspaceContentsAreSound`.

Only model-checked: liveness (`TasksEnd`, `SendsEnd`, `ExportsEnd`), which is
out of the prover's reach. Its safety halves are proved: `AttemptsAreCounted`,
`SendsCountDown` and `DeliveriesAreBounded`.

## 10. Where code and documentation differ

The five runs that expect a violation state what a comment or docstring of the
repository says; `findings` in `PROJECT.json` quotes each: a failing stage is
not marked FAILED, a task that overtakes its commit leaves "a silent nothing",
the daily usage row is not kept current by overlapping answers, presenting a
revoked refresh token does not revoke the user's tokens, and on the migrated
schema the comparison of expiry times raises.

## 11. Not modelled

* The texts of files: nothing in the code embeds them. Of the index entries the
  wording is left out, and so is the cut of a stored chunk to 8000 characters
  (`milvus_client.py:111`): a path has 2048 at most, so no entry is as long.
* Manifests as texts: a checkout comes with the packages that parsing yields,
  which after a parse error are those before the error, or none.
* User settings and profile: `user.settings` and `user.profile` are loaded
  lazily, which the asynchronous session refuses, so every request that would
  change them ends before its commit. API keys are inserted and revoked, and
  nothing reads them.
* Notifications: a row, and a flag that is only ever set.
* Uploads: calls to S3 under fresh keys; progress events: Redis pub/sub without
  state (a publish that fails is a `BodyRaises`); e-mail: the sending of
  templates.
* Analytics and the other reads: queries without effect. Of the lists, the text
  filter, the sort order and the paging are left out.
* Access tokens and their list of revoked ids; the role lookup of the access
  control, which no endpoint depends on; rate limits, headers, logging and
  configuration.
* Prompts, history and retrieved context; the SDKs of the providers, whose
  streams are reduced to deltas, an end or a failure.
* The stub tasks `rescan_security` and `rollup_daily_usage`, which change
  nothing, and the tables no code writes (organisations, branches, commits,
  invoices).
* All migrations but that of the timestamps, the deployment and the scripts.

`PROJECT.json` lists every component with its status, and under `hazards` what
is hard to test in this code, each with the properties that would catch it.
