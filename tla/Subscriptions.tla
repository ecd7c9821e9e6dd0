--------------------------- MODULE Subscriptions ----------------------------
(***************************************************************************)
(* Billing: the subscription of a user and the plan on the user's row.     *)
(*                                                                         *)
(* The ORM writes an attribute only when it differs from what the request  *)
(* has loaded, the user row first (by get_current_user), the subscription  *)
(* in a query of its own; the rows are locked from the flush to the commit.*)
(* An answer to a change of an existing subscription still shows the old   *)
(* plan, whose object is loaded; what it shows is left out.                *)
(***************************************************************************)
EXTENDS Requests

CONSTANTS
    Plans,  \* rows of plans
    Free    \* the plan whose code is "free"

VARIABLES
    userPlan,  \* users.plan
    planOf, status, cancelAtEnd   \* subscriptions, by the request that inserted them

billingVars == <<userPlan, planOf, status, cancelAtEnd>>

BillingCalls ==
    [op : {"change", "cancel"}, user : Users, plan : Plans, now : BOOLEAN, loaded : BOOLEAN,
     sub : Requests \cup {None}, userPlan : Plans, plan0 : Plans, cancelAtEnd : BOOLEAN]

ASSUME SubscriptionsAssumption == None \notin BillingCalls /\ Free \in Plans

SubscriptionsOK ==
    /\ RequestsOK
    /\ call \in [Requests -> BillingCalls \cup {None}]
    /\ userPlan \in [Users -> Plans]
    /\ planOf \in [Requests -> Plans]
    /\ status \in [Requests -> {"none", "active", "canceled"}]
    /\ cancelAtEnd \in [Requests -> BOOLEAN]
    /\ \A r \in Requests : status[r] # "none" => r \in Answered

BillingInit ==
    /\ NoRequests
    /\ userPlan = [u \in Users |-> Free]
    /\ planOf = [r \in Requests |-> Free]
    /\ status = [r \in Requests |-> "none"]
    /\ cancelAtEnd = [r \in Requests |-> FALSE]

Rows(u)   == {r \in Requests : status[r] # "none" /\ call[r].user = u}
Active(u) == {r \in Rows(u) : status[r] = "active"}

\* SubscriptionRepository.active_for_user: the newest one that is not canceled.
ActiveForUser(u) ==
    IF Active(u) = {} THEN None
    ELSE CHOOSE r \in Active(u) : \A s \in Active(u) : s <= r

\* BillingService.get_subscription: without a subscription, the free plan.
GetSubscription(u) ==
    IF ActiveForUser(u) = None THEN Free ELSE planOf[ActiveForUser(u)]

\* What a request knows at first: the user's row (get_current_user).
NewCall(op, u, p, now) ==
    [op |-> op, user |-> u, plan |-> p, now |-> now, loaded |-> FALSE, sub |-> None,
     userPlan |-> userPlan[u], plan0 |-> Free, cancelAtEnd |-> FALSE]

\* A change to a plan there is, which is loaded by its id, or a cancellation.
BeginRequest(r, u) ==
    /\ \E op \in {"change", "cancel"}, p \in Plans, now \in BOOLEAN :
          /\ op = "change" => ~now
          /\ op = "cancel" => p = Free
          /\ Receive(r, NewCall(op, u, p, now))
    /\ UNCHANGED billingVars

\* change_plan, asked for a plan there is not.
RefuseUnknownPlan(r, u) ==
    /\ AnswerAtOnce(r, NewCall("change", u, Free, FALSE), "not_found")
    /\ UNCHANGED billingVars

\* change_plan, cancel: the active subscription is loaded; without one there
\* is nothing to cancel.
LoadSubscription(r) ==
    LET u == call[r].user
        s == ActiveForUser(u) IN
    /\ r \in Open
    /\ ~call[r].loaded
    /\ IF call[r].op = "cancel" /\ s = None
       THEN End(r, "bad_request")
       ELSE /\ call' = [call EXCEPT ![r].loaded = TRUE, ![r].sub = s,
                   ![r].plan0 = IF s = None THEN Free ELSE planOf[s],
                   ![r].cancelAtEnd = IF s = None THEN FALSE ELSE cancelAtEnd[s]]
            /\ UNCHANGED <<answer, before>>
    /\ UNCHANGED billingVars

Loaded(r, op) == r \in Open /\ call[r].op = op /\ call[r].loaded

\* Faulty variant: the plan on the user's row is forgotten.
CommitChangeForgetsUser(r) ==
    LET c == call[r] IN
    /\ Loaded(r, "change")
    /\ End(r, "ok")
    /\ IF c.sub = None
       THEN /\ planOf' = [planOf EXCEPT ![r] = c.plan]
            /\ status' = [status EXCEPT ![r] = "active"]
            /\ UNCHANGED cancelAtEnd
       ELSE /\ planOf' = [planOf EXCEPT ![c.sub] = c.plan]
            /\ UNCHANGED <<status, cancelAtEnd>>
    /\ UNCHANGED userPlan

\* change_plan, to its commit: a first subscription is inserted (organization_id
\* is NULL, so uq_subscriptions_owner rejects no second one), an existing one
\* gets the plan. Its status was loaded as active and is not written.
CommitChange(r) ==
    LET c == call[r] IN
    /\ Loaded(r, "change")
    /\ End(r, "ok")
    /\ userPlan' = [userPlan EXCEPT ![c.user] = IF c.plan # c.userPlan THEN c.plan ELSE @]
    /\ IF c.sub = None
       THEN /\ planOf' = [planOf EXCEPT ![r] = c.plan]
            /\ status' = [status EXCEPT ![r] = "active"]
            /\ UNCHANGED cancelAtEnd
       ELSE /\ planOf' = [planOf EXCEPT ![c.sub] = IF c.plan # c.plan0 THEN c.plan ELSE @]
            /\ cancelAtEnd' = [cancelAtEnd EXCEPT ![c.sub] = @ /\ ~c.cancelAtEnd]
            /\ UNCHANGED status

\* cancel, to its commit: at the end of the period or at once. The plan on the
\* user's row stays.
CommitCancel(r) ==
    LET c == call[r] IN
    /\ Loaded(r, "cancel")
    /\ End(r, "ok")
    /\ cancelAtEnd' = [cancelAtEnd EXCEPT
           ![c.sub] = IF c.cancelAtEnd # ~c.now THEN ~c.now ELSE @]
    /\ status' = [status EXCEPT ![c.sub] = IF c.now THEN "canceled" ELSE @]
    /\ UNCHANGED <<userPlan, planOf>>

\* An exception before the commit: get_db rolls back.
BillingFails(r) == End(r, "error") /\ UNCHANGED billingVars

\* POST and DELETE /billing/subscription; its GET is GetSubscription.
BillingEndpoints(r) ==
    \/ \E u \in Users : BeginRequest(r, u) \/ RefuseUnknownPlan(r, u)
    \/ LoadSubscription(r) \/ CommitChange(r) \/ CommitCancel(r) \/ BillingFails(r)

BillingNext == \E r \in Requests : BillingEndpoints(r)

billingState == <<requestVars, billingVars>>
BillingSpec == BillingInit /\ [][BillingNext]_billingState

-----------------------------------------------------------------------------
\* The requests of a user that have written something.
Writes(u) == {r \in Answered : answer[r] = "ok" /\ call[r].user = u}

\* A user whose writes never overlapped has at most one active subscription,
\* and as long as there is one, the plan on the user's row is the plan GET
\* /billing/subscription shows. (Two first changes that overlap leave two
\* subscriptions; after an immediate cancellation the user's row keeps a plan
\* the subscription no longer has.)
PlansAgree ==
    \A u \in Users : Serial(Writes(u)) =>
        /\ Cardinality(Active(u)) <= 1
        /\ Active(u) # {} \/ Rows(u) = {} => userPlan[u] = GetSubscription(u)
=============================================================================
