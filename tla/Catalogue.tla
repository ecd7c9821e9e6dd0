----------------------------- MODULE Catalogue ------------------------------
(***************************************************************************)
(* The rows a user owns: repositories with their favourites and pins,      *)
(* projects, and conversations about repositories. A row is named by the   *)
(* request that inserted it and is deleted softly: it stays in its table,  *)
(* and in the table's unique key. The analysis a repository request starts *)
(* is in AnalysisPipeline, the messages of a conversation in ChatStream.   *)
(***************************************************************************)
EXTENDS Requests, TLC

CONSTANTS
    Urls,        \* addresses of repositories: records of host, full_name and suffix
    ProjectNames,
    Slug(_)      \* slugify

VARIABLES
    stored,      \* "none", "live" or "deleted"
    flagged      \* favourites and pins: pairs of a flag and a repository row

catalogueVars == <<stored, flagged>>

Flags  == {"favorite", "pin"}
Tables == {"repositories", "projects", "conversations"}

Providers == ("github.com" :> "github" @@ "gitlab.com" :> "gitlab"
              @@ "bitbucket.org" :> "bitbucket")

\* parse_git_url: a suffix, .git or a slash, is dropped; other hosts raise.
ParseGitUrl(url) ==
    IF url.host \in DOMAIN Providers
    THEN [provider |-> Providers[url.host], full_name |-> url.full_name]
    ELSE None

\* UniqueConstraint(added_by_id, full_name) and (owner_id, slug): the provider
\* of a repository is no part of its name. A conversation has no key.
FullNames == {u.full_name : u \in Urls}
Keys      == FullNames \cup {Slug(n) : n \in ProjectNames} \cup {None}

CatalogueCalls ==
    [op : {"insert"}, user : Users, table : Tables, key : Keys]
    \cup [op : {"toggle"}, user : Users, row : Requests \cup {None}, flag : Flags, on : BOOLEAN]
    \cup [op : {"delete", "edit"}, user : Users, row : Requests \cup {None}]

ASSUME CatalogueAssumption == None \notin CatalogueCalls

CatalogueOK ==
    /\ RequestsOK
    /\ call \in [Requests -> CatalogueCalls \cup {None}]
    /\ stored \in [Requests -> {"none", "live", "deleted"}]
    /\ flagged \subseteq Flags \X Requests
    /\ \A r \in Requests : stored[r] # "none" => call[r].op = "insert" /\ answer[r] = "ok"
    /\ \A f \in flagged : stored[f[2]] # "none" /\ call[f[2]].table = "repositories"

CatalogueInit ==
    /\ NoRequests
    /\ stored = [r \in Requests |-> "none"]
    /\ flagged = {}

\* db.get and the check of the owner: deleted rows are found as well.
Owned(u, table) ==
    {x \in Requests : stored[x] # "none" /\ call[x].user = u /\ call[x].table = table}

\* get_full, get_by_full_name, get_for_user, the lists: deleted rows are not.
Visible(u, table) == {x \in Owned(u, table) : stored[x] = "live"}

Keyed(rows, key) == {x \in rows : call[x].key = key /\ key # None}

\* RepositoryRepository.get_by_full_name.
GetByFullName(u, name) == Keyed(Visible(u, "repositories"), name)

\* is_favorite, is_pinned.
IsFlagged(flag, x) == <<flag, x>> \in flagged

\* RepositoryRepository.list_for_user, restricted by pinned_only and
\* favorites_only: a row is listed as soon as anybody has flagged it.
ListForUser(u, wanted) ==
    {x \in Visible(u, "repositories") : \A flag \in wanted : IsFlagged(flag, x)}

\* RepositoryService._to_out, what a toggle can change of it.
ToOut(x) == [id |-> x, is_favorite |-> IsFlagged("favorite", x),
             is_pinned |-> IsFlagged("pin", x)]

\* GET /repositories.
ListRepositories(u, wanted) == {ToOut(x) : x \in ListForUser(u, wanted)}

Insertion(u, table, key) == [op |-> "insert", user |-> u, table |-> table, key |-> key]

-----------------------------------------------------------------------------
(* Insertions.                                                             *)

\* RepositoryService.add: a live row of the same name is reported at once.
AddRepository(r, u, url) ==
    LET location == ParseGitUrl(url)
        c == Insertion(u, "repositories",
                       IF location = None THEN None ELSE location.full_name) IN
    /\ IF location = None THEN AnswerAtOnce(r, c, "error")
       ELSE IF GetByFullName(u, location.full_name) # {} THEN AnswerAtOnce(r, c, "conflict")
       ELSE Receive(r, c)
    /\ UNCHANGED catalogueVars

\* ProjectService.create looks for nothing.
CreateProject(r, u, name) ==
    /\ Receive(r, Insertion(u, "projects", Slug(name)))
    /\ UNCHANGED catalogueVars

\* ChatService.create_conversation: on any repository of the user, a deleted
\* one as well.
CreateConversation(r, u, x) ==
    LET c == Insertion(u, "conversations", None) IN
    /\ IF x \in Owned(u, "repositories")
       THEN Receive(r, c)
       ELSE AnswerAtOnce(r, c, "not_found")
    /\ UNCHANGED catalogueVars

\* Faulty variant: the constraint is a partial index on the live rows.
CommitInsertIgnoringDeleted(r) ==
    LET c == call[r] IN
    /\ r \in Open /\ c.op = "insert"
    /\ IF Keyed(Visible(c.user, c.table), c.key) # {}
       THEN End(r, "conflict") /\ UNCHANGED stored
       ELSE End(r, "ok") /\ stored' = [stored EXCEPT ![r] = "live"]
    /\ UNCHANGED flagged

\* The INSERT: an IntegrityError when the key is in the table, whoever
\* put it there since. It waits for an open transaction with the same key,
\* which comes to inserting at the commit.
CommitInsert(r) ==
    LET c == call[r] IN
    /\ r \in Open /\ c.op = "insert"
    /\ IF Keyed(Owned(c.user, c.table), c.key) # {}
       THEN End(r, "conflict") /\ UNCHANGED stored
       ELSE End(r, "ok") /\ stored' = [stored EXCEPT ![r] = "live"]
    /\ UNCHANGED flagged

-----------------------------------------------------------------------------
(* Favourites and pins.                                                    *)

Toggling(u, x, flag, on) == [op |-> "toggle", user |-> u, row |-> x, flag |-> flag, on |-> on]

\* toggle_favorite, toggle_pin: the flag is read ...
Toggle(r, u, x, flag) ==
    LET c == Toggling(u, x, flag, IsFlagged(flag, x)) IN
    /\ IF x \in Visible(u, "repositories")
       THEN Receive(r, c)
       ELSE AnswerAtOnce(r, c, "not_found")
    /\ UNCHANGED catalogueVars

\* Faulty variant: a flag is set, never taken back.
CommitToggleOnlyAdds(r) ==
    LET c == call[r] IN
    /\ r \in Open /\ c.op = "toggle"
    /\ End(r, "ok")
    /\ flagged' = flagged \cup {<<c.flag, c.row>>}
    /\ UNCHANGED stored

\* ... and its row deleted, however many are left, or inserted, where the
\* unique pair of user and repository may hold already.
CommitToggle(r) ==
    LET c == call[r]
        f == <<c.flag, c.row>> IN
    /\ r \in Open /\ c.op = "toggle"
    /\ \/ c.on /\ End(r, "ok") /\ flagged' = flagged \ {f}
       \/ ~c.on /\ f \notin flagged /\ End(r, "ok") /\ flagged' = flagged \cup {f}
       \/ ~c.on /\ f \in flagged /\ End(r, "conflict") /\ UNCHANGED flagged
    /\ UNCHANGED stored

-----------------------------------------------------------------------------
(* Changes and deletions.                                                  *)

\* A deletion, of one of the rows it finds.
DeleteOneOf(r, u, x, found) ==
    LET c == [op |-> "delete", user |-> u, row |-> x] IN
    /\ IF x \in found THEN Receive(r, c) ELSE AnswerAtOnce(r, c, "not_found")
    /\ UNCHANGED catalogueVars

\* RepositoryService.delete and ProjectService.delete find deleted rows, too.
DeleteRepository(r, u, x)   == DeleteOneOf(r, u, x, Owned(u, "repositories"))
DeleteProject(r, u, x)      == DeleteOneOf(r, u, x, Owned(u, "projects"))
DeleteConversation(r, u, x) == DeleteOneOf(r, u, x, Visible(u, "conversations"))

\* deleted_at is set, again if it has been.
CommitDelete(r) ==
    /\ r \in Open /\ call[r].op = "delete"
    /\ End(r, "ok")
    /\ stored' = [stored EXCEPT ![call[r].row] = "deleted"]
    /\ UNCHANGED flagged

\* An UPDATE expires updated_at, which the answer then reads outside of
\* SQLAlchemy's greenlet: the request fails and is rolled back, unless it
\* changes nothing.
EditOneOf(r, u, x, found, answers) ==
    LET c == [op |-> "edit", user |-> u, row |-> x] IN
    /\ IF x \in found
       THEN \E a \in answers : AnswerAtOnce(r, c, a)
       ELSE AnswerAtOnce(r, c, "not_found")
    /\ UNCHANGED catalogueVars

\* ProjectService.update: the slug of the new name may be taken.
UpdateProject(r, u, x) ==
    LET mine == Owned(u, "projects") IN
    EditOneOf(r, u, x, mine,
              {"ok", "error"} \cup (IF mine = {x} THEN {} ELSE {"conflict"}))

\* rename, toggle_pin and toggle_save of a conversation.
EditConversation(r, u, x) ==
    EditOneOf(r, u, x, Visible(u, "conversations"), {"ok", "error"})

\* An exception before the commit: get_db rolls back.
CatalogueFails(r) == End(r, "error") /\ UNCHANGED catalogueVars

-----------------------------------------------------------------------------
(* The endpoints that write; each that reads is one of the sets above.     *)

\* The ids a client can send: of a row that has been inserted, and an unknown one.
Ids == {x \in Requests : stored[x] # "none"} \cup {None}

RepositoryEndpoints(r, u) ==
    \/ \E url \in Urls : AddRepository(r, u, url)
    \/ \E x \in Ids : DeleteRepository(r, u, x)

FlagEndpoints(r, u) ==
    \E x \in Ids, flag \in Flags : Toggle(r, u, x, flag)

ProjectEndpoints(r, u) ==
    \/ \E name \in ProjectNames : CreateProject(r, u, name)
    \/ \E x \in Ids : UpdateProject(r, u, x) \/ DeleteProject(r, u, x)

ConversationEndpoints(r, u) ==
    \E x \in Ids :
        CreateConversation(r, u, x) \/ EditConversation(r, u, x) \/ DeleteConversation(r, u, x)

CatalogueNext ==
    \E r \in Requests :
        \/ \E u \in Users :
              \/ RepositoryEndpoints(r, u) \/ FlagEndpoints(r, u)
              \/ ProjectEndpoints(r, u) \/ ConversationEndpoints(r, u)
        \/ CommitInsert(r) \/ CommitToggle(r) \/ CommitDelete(r) \/ CatalogueFails(r)

catalogueState == <<requestVars, catalogueVars>>
CatalogueSpec == CatalogueInit /\ [][CatalogueNext]_catalogueState

-----------------------------------------------------------------------------
Done(op) == {r \in Answered : answer[r] = "ok" /\ call[r].op = op}

\* A name belongs to one row for good: no two rows of a user ever share a full
\* name or a slug, deleted ones included, and a request that was refused a
\* name was refused it because of such a row: two requests for the same name
\* never both lose it, whichever of them looked first.
NameHasOneRow ==
    \A r \in Sent : call[r].op = "insert" =>
        LET c    == call[r]
            rows == Keyed(Owned(c.user, c.table), c.key) IN
        /\ Cardinality(rows) <= 1
        /\ answer[r] = "conflict" => rows # {}

\* A flag counts its toggles: when the successful toggles of a flag of a
\* repository followed one another, the flag is set after an odd number of
\* them, and the list filtered by the flag shows the repository exactly then.
\* (Two that overlap may both delete the row: one of them is lost.)
TogglesCount ==
    \A u \in Users, flag \in Flags : \A x \in Visible(u, "repositories") :
        LET toggles == {r \in Done("toggle") : call[r].row = x /\ call[r].flag = flag} IN
        Serial(toggles) =>
            (ToOut(x) \in ListRepositories(u, {flag}) <=> Cardinality(toggles) % 2 = 1)
=============================================================================
