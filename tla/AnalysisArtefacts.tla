------------------------- MODULE AnalysisArtefacts --------------------------
(***************************************************************************)
(* What a reader of a repository may rely on, whatever the number of runs, *)
(* attempts and workers behind it: the architecture, the latest security   *)
(* report and the metrics of a repository appear one after the other, each *)
(* exactly once, and none of them is ever replaced or withdrawn.           *)
(***************************************************************************)
EXTENDS Naturals

CONSTANT Repos

VARIABLE shelf    \* what GET .../architecture, /security and /metrics find

Shelf(a, r, m) == [architecture |-> a, reports |-> r, metrics |-> m]

Init == shelf = [r \in Repos |-> Shelf(FALSE, 0, FALSE)]

Publish(r, from, to) ==
    /\ shelf[r] = from
    /\ shelf' = [shelf EXCEPT ![r] = to]

PublishArchitecture(r) == Publish(r, Shelf(FALSE, 0, FALSE), Shelf(TRUE, 0, FALSE))
PublishReport(r)       == Publish(r, Shelf(TRUE, 0, FALSE), Shelf(TRUE, 1, FALSE))
PublishMetrics(r)      == Publish(r, Shelf(TRUE, 1, FALSE), Shelf(TRUE, 1, TRUE))

Next == \E r \in Repos :
            PublishArchitecture(r) \/ PublishReport(r) \/ PublishMetrics(r)

Spec == Init /\ [][Next]_shelf
=============================================================================
