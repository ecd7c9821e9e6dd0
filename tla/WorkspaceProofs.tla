--------------------------- MODULE WorkspaceProofs ---------------------------
(***************************************************************************)
(* The four parts that MCWorkspace runs side by side: each behaves as its  *)
(* own specification says, so that what is proved of a part holds of the   *)
(* whole, for all values of the constants.                                 *)
(***************************************************************************)
EXTENDS MCWorkspace, RequestsProofs, ContentsProofs

\* The rows of billing, and those of the catalogue, as they are before any request.
NoSubscriptions ==
    /\ userPlan = [u \in Users |-> Free]
    /\ status = [r \in Requests |-> "none"]

NoRows == stored = [r \in Requests |-> "none"] /\ flagged = {}

workspaceVars ==
    <<area, requestVars, billingVars, catalogueVars, contentsVars, searchVars>>

\* The contents of a repository and the search index follow their specifications,
\* whatever the requests do (RepositoryContents, SearchIndex).
THEOREM ContentsAndSearch == MCSpec => ContentsSpec /\ SearchSpec
<1>1. MCInit => ContentsInit /\ SearchInit
    BY DEF MCInit
<1>2. [MCNext]_workspaceVars => [ContentsNext]_contentsVars /\ [SearchNext]_searchVars
    BY DEF MCNext, workspaceVars
<1> QED
    BY <1>1, <1>2, PTL DEF MCSpec, ContentsSpec, SearchSpec, workspaceVars

\* Where the requests are those of billing, they follow Subscriptions, and no row of
\* the catalogue appears.
THEOREM BillingArea ==
    MCSpec /\ area = "billing" => BillingSpec /\ [](area = "billing") /\ []NoRows
<1>1. MCInit => BillingInit /\ NoRows
    BY DEF MCInit, CatalogueInit, NoRows
<1>2. area = "billing" /\ [MCNext]_workspaceVars
          => [BillingNext]_billingState /\ (area = "billing")'
    BY DEF MCNext, workspaceVars, billingState
<1>3. area = "billing" /\ NoRows /\ [MCNext]_workspaceVars => NoRows'
    BY DEF MCNext, workspaceVars, catalogueVars, NoRows
<1> QED
    BY <1>1, <1>2, <1>3, PTL DEF MCSpec, BillingSpec, workspaceVars

\* Where they are not, they follow Catalogue, and no subscription appears.
THEOREM OtherAreas ==
    MCSpec /\ area # "billing" => CatalogueSpec /\ [](area # "billing") /\ []NoSubscriptions
<1>1. MCInit => CatalogueInit /\ NoSubscriptions
    BY DEF MCInit, BillingInit, NoSubscriptions
<1>2. area # "billing" /\ [MCNext]_workspaceVars
          => [CatalogueNext]_catalogueState /\ (area # "billing")'
    BY DEF MCNext, workspaceVars, catalogueState
<1>3. area # "billing" /\ NoSubscriptions /\ [MCNext]_workspaceVars => NoSubscriptions'
    BY DEF MCNext, workspaceVars, billingVars, NoSubscriptions
<1> QED
    BY <1>1, <1>2, <1>3, PTL DEF MCSpec, CatalogueSpec, workspaceVars

\* Every row of the four parts keeps its type (MCWorkspace!TypeOK).
THEOREM WorkspaceIsTyped == MCSpec => []TypeOK
<1>1. /\ area = "billing" /\ SubscriptionsOK /\ ContentsOK /\ SearchInv => TypeOK
      /\ area # "billing" /\ CatalogueOK /\ ContentsOK /\ SearchInv => TypeOK
    BY DEF TypeOK, SearchInv
<1>2. area = "billing" \/ area # "billing"
    OBVIOUS
<1> QED
    BY <1>1, <1>2, ContentsAndSearch, BillingArea, OtherAreas, SubscriptionsAreTyped,
        CatalogueIsTyped, ContentsAreTyped, SearchInvariance, PTL

\* Plans agree in every state of the whole: where no subscription can appear, a
\* user's plan is the free one, and the one shown (Subscriptions!PlansAgree).
THEOREM WorkspacePlansAgree == MCSpec => []PlansAgree
<1>1. NoSubscriptions => PlansAgree
    <2> SUFFICES ASSUME NoSubscriptions, NEW u \in Users
                 PROVE  /\ Cardinality(Active(u)) <= 1
                        /\ userPlan[u] = GetSubscription(u)
        BY DEF PlansAgree
    <2>1. Active(u) = {}
        BY DEF NoSubscriptions, Active, Rows
    <2>2. Cardinality(Active(u)) = 0 /\ ActiveForUser(u) = None
        BY <2>1, FS_EmptySet DEF ActiveForUser
    <2> QED
        BY <2>2 DEF GetSubscription, NoSubscriptions
<1>2. area = "billing" \/ area # "billing"
    OBVIOUS
<1> QED
    BY <1>1, <1>2, BillingArea, OtherAreas, PlansAlwaysAgree, PTL

\* A name has one row, and a flag counts its toggles, in every state of the whole:
\* billing inserts no row of the catalogue, nor does a request of it ask for one
\* (Catalogue!NameHasOneRow, Catalogue!TogglesCount).
THEOREM WorkspaceRowsAreSound == MCSpec => [](NameHasOneRow /\ TogglesCount)
<1>1. BillingInv /\ NoRows => NameHasOneRow /\ TogglesCount
    <2> SUFFICES ASSUME BillingInv, NoRows
                 PROVE  NameHasOneRow /\ TogglesCount
        OBVIOUS
    <2>1. \A r \in Sent : call[r].op # "insert"
        BY DEF BillingInv, BillingTypeInv, BillingCalls, Sent
    <2>2. \A u \in Users : Visible(u, "repositories") = {}
        BY DEF NoRows, Visible, Owned
    <2> QED
        BY <2>1, <2>2 DEF NameHasOneRow, TogglesCount
<1>2. area = "billing" \/ area # "billing"
    OBVIOUS
<1> QED
    BY <1>1, <1>2, BillingArea, OtherAreas, BillingInvariance, NamesAreUnique,
        TogglesAreCounted, PTL

\* What the read endpoints and the search make of a repository is right in every
\* state of the whole (RepositoryContents!TreeIsWhole and OneSnapshot,
\* SearchIndex!EntriesAreCovered).
THEOREM WorkspaceContentsAreSound ==
    MCSpec => [](TreeIsWhole /\ OneSnapshot /\ EntriesAreCovered)
BY ContentsAndSearch, TreesAreWhole, SnapshotsAreOne, EntriesAreWhole, PTL
=============================================================================
