-------------------------- MODULE ExportLifecycle ---------------------------
(***************************************************************************)
(* What the list of exports promises to a client that polls it. As long as *)
(* nothing is lost, a job runs straight from pending over processing and   *)
(* completed to expired ("failed"), and may stop on the way. After a loss  *)
(* a job may be built again, whatever its state. At any time a job is only *)
(* completed, and only has a key, once its object is there.                *)
(***************************************************************************)
EXTENDS Naturals

CONSTANT Jobs

VARIABLES
    row,      \* the state that is listed, "absent" before there is one
    named,    \* the row names an object
    object,   \* the object is there
    losses    \* processes and connections lost so far

exportVars == <<row, named, object, losses>>

ExportInit ==
    /\ row = [j \in Jobs |-> "absent"]
    /\ named = [j \in Jobs |-> FALSE]
    /\ object = [j \in Jobs |-> FALSE]
    /\ losses = 0

Advance(j, from, to) ==
    /\ row[j] = from
    /\ row' = [row EXCEPT ![j] = to]

\* Only after a loss.
Reopen(j, to) ==
    /\ losses > 0
    /\ row[j] # "absent"
    /\ row' = [row EXCEPT ![j] = to]

Create(j) ==
    /\ Advance(j, "absent", "pending")
    /\ UNCHANGED <<named, object, losses>>

Build(j) ==
    /\ Advance(j, "pending", "processing") \/ Reopen(j, "processing")
    /\ UNCHANGED <<named, object, losses>>

Store(j) ==
    /\ row[j] # "absent"
    /\ object' = [object EXCEPT ![j] = TRUE]
    /\ UNCHANGED <<row, named, losses>>

Complete(j) ==
    /\ object[j]
    /\ Advance(j, "processing", "completed") \/ Reopen(j, "completed") \/ Reopen(j, row[j])
    /\ named' = [named EXCEPT ![j] = TRUE]
    /\ UNCHANGED <<object, losses>>

\* Completed jobs expire together.
Lapse ==
    /\ \E old \in SUBSET {j \in Jobs : row[j] = "completed"} :
          row' = [j \in Jobs |-> IF j \in old THEN "failed" ELSE row[j]]
    /\ UNCHANGED <<named, object, losses>>

Lose ==
    /\ losses' = losses + 1
    /\ UNCHANGED <<row, named, object>>

ExportNext ==
    \/ \E j \in Jobs : Create(j) \/ Build(j) \/ Store(j) \/ Complete(j)
    \/ Lapse
    \/ Lose

ExportSpec == ExportInit /\ [][ExportNext]_exportVars
=============================================================================
