---------------------------- MODULE SearchIndex -----------------------------
(***************************************************************************)
(* The index of paths in Milvus, the document of a repository in           *)
(* Elasticsearch, and the searches in both.                                *)
(*                                                                         *)
(* embed_repository_files is a Celery task of its own, published by the    *)
(* analysis (AnalysisPipeline) with the first paths it has listed, and     *)
(* acknowledged when it has returned. What is embedded of a path is not    *)
(* the text of the file, which the task never reads, but a stand-in that   *)
(* names the path, its index entry: "File index entry for <path>". It is   *)
(* known by its length in tokens. delete_by_repository, of both clients,   *)
(* is called from nowhere: nothing leaves the index.                       *)
(***************************************************************************)
EXTENDS NullValue, Integers, FiniteSets, SequencesExt

CONSTANTS
    Paths,          \* pairs of a repository and the path of a file in some checkout of it
    EntryTokens(_), \* tokens in the index entry of a path
    MaxTokens,
    TokenOverlap,
    MaxEmbedded,    \* the files that one attempt passes on, 200 in the code
    MaxDeliveries   \* bound on the deliveries of the task

VARIABLES
    mail,       \* what has become of the message of a repository
    message,    \* the paths in it, none before it is published
    task,       \* the delivery in progress: paths still to do, the path in hand and
                \* its pieces still to insert; None while no process has one
    deliveries, \* the repository of each delivery there has been
    failed,     \* paths that raised in a delivery, of which an insert failed, or which
                \* the time limit cut off
    vectors,    \* the rows in Milvus: the delivery stands for the auto_id, the primary key
    document    \* whether Elasticsearch has the repository's document

searchVars == <<mail, message, task, deliveries, failed, vectors, document>>

Repositories == {p[1] : p \in Paths}

-----------------------------------------------------------------------------
(* The windows of chunk_text: pairs <<start, end>>, the end excluded.      *)

Least(m, n) == IF m < n THEN m ELSE n

\* chunk_text: a window begins every MaxTokens - TokenOverlap tokens until one
\* reaches the end.
ChunkText(n) ==
    LET step    == MaxTokens - TokenOverlap
        starts  == {s \in 0..(n - 1) : s % step = 0}
        reaches == {s \in starts : s + MaxTokens >= n}
        used    == {s \in starts : \A e \in reaches : s <= e} IN
    [i \in 1..Cardinality(used) |->
        <<(i - 1) * step, Least((i - 1) * step + MaxTokens, n)>>]

\* The chunks of a path, numbered from 0.
Pieces(p) ==
    LET windows == ChunkText(EntryTokens(p)) IN
    [i \in 1..Len(windows) |-> [index |-> i - 1, window |-> windows[i]]]

Deliveries == [todo : SUBSET Paths, path : Paths \cup {None},
               pieces : Seq([index : Nat, window : Nat \X Nat])]

\* What an attempt publishes: the files among the first MaxEmbedded entries, which
\* begin with the files. A checkout may have any of the paths, and the walk's order
\* picks the first ones.
Messages(r) ==
    {some \in SUBSET {p \in Paths : p[1] = r} :
        IsFiniteSet(some) /\ Cardinality(some) <= MaxEmbedded}

\* chunk_text is called with its defaults, 512 and 64 tokens.
ASSUME SearchAssumption ==
    /\ MaxTokens \in Nat /\ TokenOverlap \in Nat /\ TokenOverlap < MaxTokens
    /\ MaxEmbedded \in Nat /\ MaxDeliveries \in Nat
    /\ \A p \in Paths : EntryTokens(p) \in Nat
    /\ None \notin Paths /\ None \notin Deliveries

-----------------------------------------------------------------------------
MailStates == {"unpublished", "queued", "taken", "acknowledged"}

SearchOK ==
    /\ mail \in [Repositories -> MailStates]
    /\ message \in [Repositories -> SUBSET Paths]
    /\ task \in Deliveries \cup {None}
    /\ deliveries \in Seq(Repositories) /\ Len(deliveries) <= MaxDeliveries
    /\ failed \subseteq Paths \X (1..MaxDeliveries)
    /\ \A v \in vectors : v.path \in Paths /\ v.delivery \in DOMAIN deliveries
    /\ document \subseteq Repositories

SearchInit ==
    /\ mail = [r \in Repositories |-> "unpublished"]
    /\ message = [r \in Repositories |-> {}]
    /\ task = None
    /\ deliveries = <<>>
    /\ failed = {}
    /\ vectors = {}
    /\ document = {}

\* index_repository: the document is put under the repository's id, so a
\* second one replaces the first; an error is logged by the caller.
IndexRepository(r) ==
    /\ document' \in {document, document \cup {r}}
    /\ UNCHANGED <<mail, message, task, deliveries, failed, vectors>>

\* The stage generating_embeddings. One attempt per repository gets as far, since
\* the row of the architecture is unique (AnalysisPipeline); when the broker refuses
\* the message, a warning is all there is.
Publish(r) ==
    /\ mail[r] = "unpublished"
    /\ mail' = [mail EXCEPT ![r] = "queued"]
    /\ \E some \in Messages(r) : message' = [message EXCEPT ![r] = some]
    /\ UNCHANGED <<task, deliveries, failed, vectors, document>>

\* A worker takes a message, for the first time or again. Deliveries read no row, so
\* that of two at once each does what it does alone: here they take turns.
Deliver(r) ==
    /\ task = None /\ mail[r] = "queued"
    /\ Len(deliveries) < MaxDeliveries
    /\ mail' = [mail EXCEPT ![r] = "taken"]
    /\ deliveries' = Append(deliveries, r)
    /\ task' = [todo |-> message[r], path |-> None, pieces |-> <<>>]
    /\ UNCHANGED <<message, failed, vectors, document>>

\* _embed_files, embed_and_store: the index entry of the next path is cut and
\* embedded in one call; when the provider fails, so does this path alone. A
\* string without tokens would have nothing to store; an entry has some.
EmbedPath(p) ==
    /\ task # None /\ task.path = None /\ p \in task.todo
    /\ \/ /\ task' = [todo |-> task.todo \ {p}, pieces |-> Pieces(p),
                      path |-> IF Pieces(p) = <<>> THEN None ELSE p]
          /\ UNCHANGED failed
       \/ /\ task' = [task EXCEPT !.todo = @ \ {p}]
          /\ failed' = failed \cup {<<p, Len(deliveries)>>}
    /\ UNCHANGED <<mail, message, deliveries, vectors, document>>

\* insert, of one chunk, flushed at once: a failure, such as a path of more than
\* 1024 characters, is logged and answered with None, and the loop goes on with
\* the next chunk. The cut to 8000 characters leaves a chunk as it is: a path has
\* 2048 characters at most (repository_files.path), so an entry has fewer.
InsertChunk ==
    /\ task # None /\ task.path # None
    /\ task' = [task EXCEPT !.pieces = Tail(@),
                            !.path = IF Len(task.pieces) = 1 THEN None ELSE @]
    /\ \/ /\ vectors' = vectors \cup {[path |-> task.path, delivery |-> Len(deliveries),
                  index |-> Head(task.pieces).index, window |-> Head(task.pieces).window]}
          /\ UNCHANGED failed
       \/ /\ failed' = failed \cup {<<task.path, Len(deliveries)>>}
          /\ UNCHANGED vectors
    /\ UNCHANGED <<mail, message, deliveries, document>>

\* The rest of a path is given up when the collection cannot be opened.
GiveUpPath ==
    /\ task # None /\ task.path # None
    /\ task' = [task EXCEPT !.path = None, !.pieces = <<>>]
    /\ failed' = failed \cup {<<task.path, Len(deliveries)>>}
    /\ UNCHANGED <<mail, message, deliveries, vectors, document>>

\* The delivery in progress is over, and its message is as given.
LetGo(state) ==
    /\ task # None
    /\ task' = None
    /\ mail' = [mail EXCEPT ![Last(deliveries)] = state]
    /\ UNCHANGED <<message, deliveries, vectors, document>>

\* The paths are done, and the message is acknowledged, unless the connection to
\* the broker is gone, which then delivers the message again (task_acks_late).
Finish ==
    /\ task # None /\ task.todo = {} /\ task.path = None
    /\ LetGo("acknowledged") \/ LetGo("queued")
    /\ UNCHANGED failed

\* The time limit, hard or soft, ends the body, and the message is acknowledged:
\* what was still to be stored never is.
TimeLimit ==
    /\ LetGo("acknowledged")
    /\ failed' = failed \cup
          {<<p, Len(deliveries)>> : p \in task.todo \cup ({task.path} \ {None})}

\* Faulty variant: the message is acknowledged when it is taken, as without
\* task_acks_late.
LoseProcessAcknowledged == LetGo("acknowledged") /\ UNCHANGED failed

\* The process dies on the way: the message goes back to the queue
\* (task_reject_on_worker_lost).
LoseProcess == LetGo("queued") /\ UNCHANGED failed

SearchNext ==
    \/ \E r \in Repositories : IndexRepository(r) \/ Publish(r) \/ Deliver(r)
    \/ \E p \in Paths : EmbedPath(p)
    \/ InsertChunk
    \/ GiveUpPath
    \/ Finish
    \/ TimeLimit
    \/ LoseProcess

SearchSpec == SearchInit /\ [][SearchNext]_searchVars

-----------------------------------------------------------------------------
(* The searches: of any repository (None) or of one.                       *)

\* Milvus.search: the chunks nearest to the question; any error finds nothing.
SemanticHits(r) ==
    {{v \in vectors : r = None \/ v.path[1] = r}, {}}

\* Elasticsearch.search in the scope "repositories", which takes no notice of
\* the repository asked for; without a connection nothing is found, and any
\* other error is raised.
RepositoryHits == {document, {}}

-----------------------------------------------------------------------------
\* Windows W cover the first n tokens.
Cover(W, n) == \A t \in 0..(n - 1) : \E w \in W : w[1] <= t /\ t < w[2]

\* The rows that a search of the repository may find of a path, from one delivery.
Found(p, d) == {v \in UNION SemanticHits(p[1]) : v.path = p /\ v.delivery = d}

\* The rows of a path are its whole index entry: their windows cover it, none lies
\* within another, two neighbours share TokenOverlap tokens, each is there once.
Whole(rows, p) ==
    LET W == {v.window : v \in rows} IN
    /\ Cover(W, EntryTokens(p))
    /\ Cardinality(W) = Cardinality(rows)
    /\ \A v, w \in rows : v.index + 1 = w.index =>
          v.window[2] - w.window[1] = TokenOverlap /\ v.window[2] < w.window[2]

\* What a semantic search can find once the message is acknowledged: of every path
\* in it, the last delivery has stored the whole index entry, unless an error or the
\* time limit cost it a chunk. A process that dies on the way, or an acknowledgement that gets lost,
\* costs nothing. Of a path that is not in the message nothing is ever found.
\* (task_acks_late, task_reject_on_worker_lost, _embed_files, embed_and_store.)
EntriesAreCovered ==
    \A p \in Paths :
        /\ p \notin message[p[1]] => \A d \in DOMAIN deliveries : Found(p, d) = {}
        /\ p \in message[p[1]] /\ mail[p[1]] = "acknowledged" =>
              \E d \in DOMAIN deliveries :
                  /\ deliveries[d] = p[1]
                  /\ \A e \in DOMAIN deliveries : deliveries[e] = p[1] => e <= d
                  /\ <<p, d>> \in failed \/ Whole(Found(p, d), p)
=============================================================================
