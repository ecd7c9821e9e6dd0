---------------------------- MODULE MCWorkspace -----------------------------
(***************************************************************************)
(* Four parts of the service that share no row and no key: billing, the    *)
(* catalogue, the contents of a repository and the search index. Since no  *)
(* step of one reads what another writes, nothing is lost by running one   *)
(* of them at a time: area says which, from the initial state on.          *)
(***************************************************************************)
EXTENDS Subscriptions, Catalogue, RepositoryContents, SearchIndex

CONSTANT PlanRequests  \* bound on the requests of billing
VARIABLE area

-----------------------------------------------------------------------------
(* The same repository of two providers, one of them written in two ways,  *)
(* an unknown host, and two names with one slug.                           *)

Url(host, suffix) == [host |-> host, full_name |-> "a/b", suffix |-> suffix]
UrlsOf == {Url("github.com", ""), Url("github.com", ".git"), Url("gitlab.com", "/"),
           Url("example.org", "")}
SlugOf(name) == "slug"

(* Checkouts: with a package listed twice, with a path that is a file in   *)
(* one of them and a directory in another, with more files than MaxFiles,  *)
(* one of which cannot be read.                                            *)

Web  == {<<<<"src", "controllers", "a.py">>, 2>>, <<<<"src", "services", "b.ts">>, 2>>,
         <<<<"main.py">>, 1>>, <<<<".env">>, 1>>}
Deep == {<<<<"components", "deep", "c.ts">>, 1>>, <<<<"node_modules", "d.ts">>, 9>>}
Locked == {<<<<"e.py">>, 1>>}

Files(some, unreadable, npm, dev, pip, pyproject) ==
    [files |-> some, unreadable |-> unreadable, npm |-> npm, dev |-> dev, pip |-> pip,
     pyproject |-> pyproject]

CheckoutsOf ==
    {Files(Web, {}, <<"x", "y">>, <<>>, <<"z">>, <<>>),
     Files({<<<<"src">>, 3>>} \cup Deep, {}, <<"x">>, <<"x">>, <<>>, <<>>),
     Files({}, {}, <<>>, <<>>, <<"z", "w">>, <<>>),
     Files(Web \cup Deep \cup Locked, Locked, <<>>, <<>>, <<>>, <<"z">>)}

LangOf(name) ==
    CASE name \in {"a.py", "e.py", "main.py"} -> "Python"
      [] name \in {"b.ts", "c.ts", "d.ts"}    -> "TypeScript"
      [] OTHER                                -> None
Same(name, word) == name = word
EntryPointsOf == {<<"main.py">>}

(* Index entries of less than a window, of two windows that end with it,   *)
(* of three windows; one repository has more files than MaxEmbedded.       *)

PathsOf == {<<"r1", "short">>, <<"r1", "exact">>, <<"r1", "long">>, <<"r2", "short">>}
TokensOf(path) == CASE path[2] = "short" -> 3 [] path[2] = "exact" -> 7 [] path[2] = "long" -> 9

-----------------------------------------------------------------------------
MCInit ==
    /\ area \in {"billing", "catalogue", "contents", "search"}
    /\ BillingInit /\ CatalogueInit /\ ContentsInit /\ SearchInit

MCNext ==
    /\ UNCHANGED area
    /\ \/ /\ area = "billing" /\ BillingNext /\ Sent' \subseteq PlanRequests
          /\ UNCHANGED <<catalogueVars, contentsVars, searchVars>>
       \/ /\ area = "catalogue" /\ CatalogueNext
          /\ UNCHANGED <<billingVars, contentsVars, searchVars>>
       \/ /\ area = "contents" /\ ContentsNext
          /\ UNCHANGED <<requestVars, billingVars, catalogueVars, searchVars>>
       \/ /\ area = "search" /\ SearchNext
          /\ UNCHANGED <<requestVars, billingVars, catalogueVars, contentsVars>>

MCSpec ==
    MCInit /\ [][MCNext]_<<area, requestVars, billingVars, catalogueVars, contentsVars,
                           searchVars>>

\* The types of the four parts.
TypeOK ==
    /\ IF area = "billing" THEN SubscriptionsOK ELSE CatalogueOK
    /\ ContentsOK
    /\ SearchOK
=============================================================================
