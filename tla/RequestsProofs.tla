---------------------------- MODULE RequestsProofs -----------------------------
(***************************************************************************)
(* What the requests of the API leave of the plan a user pays for          *)
(* (Subscriptions) and of the rows a user owns (Catalogue), for any        *)
(* numbers of users, plans, addresses, names and requests.                 *)
(***************************************************************************)
EXTENDS Subscriptions, Catalogue, FiniteSetTheorems, WellFoundedInduction, TLAPS

-----------------------------------------------------------------------------
(* Requests.                                                               *)

\* What had been answered when a request began is answered.
BeforeInv == \A r \in Requests : before[r] \subseteq Answered

-----------------------------------------------------------------------------
(* The newest of finitely many requests.                                   *)

HasGreatest(S) == \E m \in S : \A k \in S : k <= m

\* The sizes of the sets without a greatest element.
NoGreatestOfSize(n, S) ==
    IsFiniteSet(S) /\ S # {} /\ Cardinality(S) = n /\ ~HasGreatest(S)

LessThan == {p \in Nat \X Nat : p[1] < p[2]}

SizesWithout == {n \in Nat : \E S \in SUBSET Nat : NoGreatestOfSize(n, S)}

\* A finite set of numbers that is not empty has a greatest one.
LEMMA GreatestExists ==
    ASSUME NEW S \in SUBSET Nat, IsFiniteSet(S), S # {}
    PROVE  HasGreatest(S)
<1>1. ASSUME SizesWithout # {}
      PROVE  FALSE
    <2>1. PICK n \in SizesWithout : \A k \in SizesWithout : ~(k < n)
        <3>1. IsWellFoundedOn(LessThan, Nat)
            BY NatLessThanWellFounded DEF OpToRel, LessThan
        <3>2. \E n \in SizesWithout : \A k \in SizesWithout : ~(<<k, n>> \in LessThan)
            <4>1. SizesWithout \subseteq Nat
                BY DEF SizesWithout
            <4> QED
                BY <1>1, <3>1, <4>1, WFMin
        <3> QED
            BY <3>2 DEF SizesWithout, LessThan
    <2>2. PICK T \in SUBSET Nat : NoGreatestOfSize(n, T)
        BY DEF SizesWithout
    <2>3. PICK x \in T : TRUE
        BY <2>2 DEF NoGreatestOfSize
    <2>4. IsFiniteSet(T \ {x}) /\ Cardinality(T \ {x}) = n - 1 /\ n - 1 \in Nat
        BY <2>2, <2>3, FS_RemoveElement, FS_CardinalityType, FS_EmptySet DEF NoGreatestOfSize
    <2>5. CASE T \ {x} = {}
        BY <2>2, <2>3, <2>5 DEF HasGreatest, NoGreatestOfSize
    <2>6. CASE T \ {x} # {}
        <3>1. HasGreatest(T \ {x})
            BY <2>1, <2>4, <2>6 DEF SizesWithout, NoGreatestOfSize
        <3>2. PICK m \in T \ {x} : \A k \in T \ {x} : k <= m
            BY <3>1 DEF HasGreatest
        <3>3. HasGreatest(T)
            <4>1. CASE x <= m
                BY <3>2, <4>1 DEF HasGreatest
            <4>2. CASE ~(x <= m)
                <5>1. \A k \in T : k <= x
                    BY <3>2, <4>2
                <5> QED
                    BY <5>1 DEF HasGreatest
            <4> QED
                BY <4>1, <4>2
        <3> QED
            BY <2>2, <3>3 DEF NoGreatestOfSize
    <2> QED
        BY <2>5, <2>6
<1>2. Cardinality(S) \in Nat
    BY FS_CardinalityType
<1> QED
    BY <1>1, <1>2 DEF SizesWithout, NoGreatestOfSize

\* The subscription a request finds is an active one of the user's, if there is one.
LEMMA FoundIsActive ==
    ASSUME NEW u
    PROVE  /\ Active(u) = {} => ActiveForUser(u) = None
           /\ Active(u) # {} => ActiveForUser(u) \in Active(u)
<1>1. Active(u) \in SUBSET Nat /\ Active(u) \subseteq Requests /\ IsFiniteSet(Requests)
    BY RequestsAssumption DEF Active, Rows, RequestsAssumption
<1>2. CASE Active(u) # {}
    <2>1. HasGreatest(Active(u))
        BY <1>1, <1>2, FS_Subset, GreatestExists
    <2>2. \E r \in Active(u) : \A s \in Active(u) : s <= r
        BY <2>1 DEF HasGreatest
    <2> QED
        BY <1>2, <2>2 DEF ActiveForUser
<1> QED
    BY <1>2 DEF ActiveForUser

-----------------------------------------------------------------------------
(* The inductive invariant.                                                *)

BillingTypeInv ==
    /\ RequestsOK
    /\ call \in [Requests -> BillingCalls \cup {None}]
    /\ userPlan \in [Users -> Plans]
    /\ planOf \in [Requests -> Plans]
    /\ status \in [Requests -> {"none", "active", "canceled"}]
    /\ cancelAtEnd \in [Requests -> BOOLEAN]

\* A subscription was inserted by the change that has its number, and a request
\* that has loaded one has loaded one of its user's.
SubscriptionInv ==
    /\ \A x \in Requests : status[x] # "none" => call[x] # None /\ answer[x] = "ok"
    /\ \A r \in Open : call[r].loaded =>
          /\ call[r].sub # None => call[r].sub \in Rows(call[r].user)
          /\ call[r].op = "cancel" => call[r].sub # None

\* A request that no write of its user has overtaken knows the rows as they are.
KnowsSubscription(u, c) ==
    c.loaded =>
        /\ c.sub = None => Active(u) = {}
        /\ c.sub # None => c.sub \in Active(u) /\ c.plan0 = planOf[c.sub]

KnowInv ==
    \A r \in Open : Writes(call[r].user) \subseteq before[r] =>
        /\ call[r].userPlan = userPlan[call[r].user]
        /\ KnowsSubscription(call[r].user, call[r])

\* While its writes follow one another, a user has one active subscription at
\* most, and the user's row has the plan of it.
Agree(u) ==
    /\ \A x, y \in Active(u) : x = y
    /\ \A x \in Active(u) : userPlan[u] = planOf[x]
    /\ Rows(u) = {} => userPlan[u] = Free

AgreeInv == \A u \in Users : Serial(Writes(u)) => Agree(u)

BillingInv == BillingTypeInv /\ SubscriptionInv /\ BeforeInv /\ KnowInv /\ AgreeInv

-----------------------------------------------------------------------------
(* The steps.                                                              *)

\* A request begins, reads, or is refused: no row changes, nor is a write added.
Quiet(r, c, a) ==
    /\ call' = [call EXCEPT ![r] = c]
    /\ answer' = [answer EXCEPT ![r] = a]
    /\ before' = [before EXCEPT ![r] = IF call[r] = None THEN Answered ELSE @]
    /\ UNCHANGED billingVars
    /\ answer[r] = None
    /\ c \in BillingCalls /\ a \in (Answers \cup {None}) \ {"ok"}
    /\ call[r] = None => ~c.loaded /\ c.userPlan = userPlan[c.user]
    /\ call[r] # None => /\ c.user = call[r].user /\ c.userPlan = call[r].userPlan
                         /\ c.op = call[r].op
    /\ a = None /\ c.loaded =>
          /\ KnowsSubscription(c.user, c)
          /\ c.op = "cancel" => c.sub # None
          /\ c.sub # None => c.sub \in Rows(c.user)

\* The fields of a call.
LEMMA CallFields ==
    ASSUME NEW c \in BillingCalls
    PROVE  /\ c.user \in Users /\ c.plan \in Plans /\ c.userPlan \in Plans
           /\ c.sub \in Requests \cup {None} /\ c.plan0 \in Plans
           /\ c.loaded \in BOOLEAN /\ c.op \in {"change", "cancel"}
           /\ c.now \in BOOLEAN /\ c.cancelAtEnd \in BOOLEAN
BY DEF BillingCalls

\* An open request has a call and no answer.
LEMMA OpenCall ==
    ASSUME BillingTypeInv, NEW r \in Open
    PROVE  r \in Requests /\ call[r] \in BillingCalls /\ call[r] # None /\ answer[r] = None
BY DEF Open, Sent, Answered, BillingTypeInv

\* Every step but the commits is a quiet one.
LEMMA QuietSteps ==
    ASSUME BillingTypeInv, NEW r \in Requests,
           \/ \E u \in Users : BeginRequest(r, u) \/ RefuseUnknownPlan(r, u)
           \/ LoadSubscription(r) \/ BillingFails(r)
    PROVE  \E c \in BillingCalls, a \in Answers \cup {None} : Quiet(r, c, a)
<1>0. None \notin Answers
    BY RequestsAssumption DEF RequestsAssumption
<1>1. ASSUME NEW u \in Users, NEW op \in {"change", "cancel"}, NEW p \in Plans,
             NEW now \in BOOLEAN, NEW a \in {None, "not_found"},
             (Receive(r, NewCall(op, u, p, now)) /\ a = None)
                 \/ AnswerAtOnce(r, NewCall(op, u, p, now), a),
             UNCHANGED billingVars
      PROVE  \E c \in BillingCalls : Quiet(r, c, a)
    <2> DEFINE c == NewCall(op, u, p, now)
    <2>1. c \in BillingCalls /\ c.loaded = FALSE /\ c.user = u /\ c.userPlan = userPlan[u]
        BY SubscriptionsAssumption
            DEF SubscriptionsAssumption, BillingCalls, BillingTypeInv, NewCall
    <2>2. (Receive(r, c) /\ a = None) \/ AnswerAtOnce(r, c, a)
        BY <1>1
    <2> HIDE DEF c
    <2>3. call[r] = None /\ answer[r] = None /\ answer' = [answer EXCEPT ![r] = a]
        BY <2>2 DEF Receive, AnswerAtOnce, Begin, BillingTypeInv, RequestsOK
    <2> QED
        BY <1>0, <1>1, <2>1, <2>2, <2>3 DEF Quiet, Receive, AnswerAtOnce, Begin, Answers
<1>2. ASSUME LoadSubscription(r), ~(call[r].op = "cancel" /\ ActiveForUser(call[r].user) = None)
      PROVE  \E c \in BillingCalls : Quiet(r, c, None)
    <2> DEFINE u == call[r].user
               s == ActiveForUser(u)
               c == [call[r] EXCEPT !.loaded = TRUE, !.sub = s,
                        !.plan0 = IF s = None THEN Free ELSE planOf[s],
                        !.cancelAtEnd = IF s = None THEN FALSE ELSE cancelAtEnd[s]]
    <2>1. r \in Open /\ call[r] \in BillingCalls /\ call[r] # None /\ answer[r] = None
        BY <1>2, OpenCall DEF LoadSubscription
    <2>2. /\ Active(u) = {} => s = None
          /\ Active(u) # {} => s \in Active(u)
        BY FoundIsActive
    <2>3. /\ Active(u) \subseteq Rows(u) /\ Rows(u) \subseteq Requests
          /\ None \notin Requests
        BY RequestsAssumption DEF Active, Rows, RequestsAssumption
    <2>4. s \in Requests \cup {None} /\ (s = None <=> Active(u) = {})
        BY <2>2, <2>3
    <2>5. /\ call' = [call EXCEPT ![r] = c]
          /\ UNCHANGED <<answer, before, billingVars>>
        <3>1. /\ call' = [call EXCEPT ![r].loaded = TRUE, ![r].sub = s,
                   ![r].plan0 = IF s = None THEN Free ELSE planOf[s],
                   ![r].cancelAtEnd = IF s = None THEN FALSE ELSE cancelAtEnd[s]]
              /\ UNCHANGED <<answer, before, billingVars>>
            BY <1>2 DEF LoadSubscription
        <3> QED
            BY <2>1, <3>1 DEF BillingTypeInv
    <2>6. /\ c \in BillingCalls /\ c.loaded /\ c.user = u /\ c.userPlan = call[r].userPlan
          /\ c.op = call[r].op /\ c.sub = s /\ (s # None => c.plan0 = planOf[s])
        BY <2>1, <2>4, <2>3, SubscriptionsAssumption
            DEF BillingCalls, SubscriptionsAssumption, BillingTypeInv
    <2> HIDE DEF c
    <2>7. KnowsSubscription(u, c) /\ (c.op = "cancel" => c.sub # None)
        BY <1>2, <2>2, <2>4, <2>6 DEF KnowsSubscription
    <2>8. c.sub # None => c.sub \in Rows(u)
        BY <2>2, <2>3, <2>4, <2>6
    <2>9. answer' = [answer EXCEPT ![r] = None] /\ before' = [before EXCEPT ![r] = @]
        BY <2>1, <2>5 DEF BillingTypeInv, RequestsOK
    <2> QED
        BY <1>0, <2>1, <2>5, <2>6, <2>7, <2>8, <2>9 DEF Quiet, Answers
<1>3. ASSUME NEW a \in {"bad_request", "error"}, End(r, a), UNCHANGED billingVars
      PROVE  Quiet(r, call[r], a) /\ call[r] \in BillingCalls /\ a \in Answers
    <2>1. call[r] \in BillingCalls /\ call[r] # None /\ answer[r] = None
        BY <1>3, OpenCall DEF End
    <2>2. /\ call' = [call EXCEPT ![r] = call[r]]
          /\ before' = [before EXCEPT ![r] = @]
        BY <1>3 DEF End, BillingTypeInv, RequestsOK
    <2> QED
        BY <1>0, <1>3, <2>1, <2>2 DEF Quiet, End, Answers
<1>4. CASE BillingFails(r)
    BY <1>3, <1>4, OpenCall DEF BillingFails
<1>5. CASE LoadSubscription(r)
    <2>1. CASE call[r].op = "cancel" /\ ActiveForUser(call[r].user) = None
        BY <1>3, <1>5, <2>1, OpenCall DEF LoadSubscription
    <2> QED
        BY <1>2, <1>5, <2>1
<1>6. ASSUME NEW u \in Users, BeginRequest(r, u)
      PROVE  \E c \in BillingCalls : Quiet(r, c, None)
    BY <1>1, <1>6 DEF BeginRequest
<1>7. ASSUME NEW u \in Users, RefuseUnknownPlan(r, u)
      PROVE  \E c \in BillingCalls : Quiet(r, c, "not_found")
    BY <1>1, <1>7, SubscriptionsAssumption DEF RefuseUnknownPlan, SubscriptionsAssumption
<1> QED
    BY <1>4, <1>5, <1>6, <1>7 DEF Answers

-----------------------------------------------------------------------------
(* A quiet step keeps the invariant.                                       *)

\* A request that begins, reads or is refused disturbs no part of the invariant.
LEMMA QuietStep ==
    ASSUME BillingInv, NEW r \in Requests,
           NEW c \in BillingCalls, NEW a \in Answers \cup {None}, Quiet(r, c, a)
    PROVE  BillingInv'
<1>0. None \notin Answers /\ c # None /\ "ok" # None
    BY RequestsAssumption, SubscriptionsAssumption
        DEF RequestsAssumption, SubscriptionsAssumption, Answers
<1>1. /\ \A x \in Requests : x # r => /\ call'[x] = call[x] /\ answer'[x] = answer[x]
                                     /\ before'[x] = before[x]
      /\ call'[r] = c /\ answer'[r] = a
      /\ before'[r] = IF call[r] = None THEN Answered ELSE before[r]
    BY DEF Quiet, BillingInv, BillingTypeInv, RequestsOK
<1>2. answer[r] = None /\ a # "ok" /\ status[r] = "none"
    BY <1>0 DEF Quiet, BillingInv, SubscriptionInv
<1>3. BillingTypeInv'
    <2>1. /\ answer' \in [Requests -> Answers \cup {None}]
          /\ before' \in [Requests -> SUBSET Requests]
          /\ call' \in [Requests -> BillingCalls \cup {None}]
        BY DEF Quiet, BillingInv, BillingTypeInv, RequestsOK, Answered
    <2>2. \A x \in Requests : call'[x] = None => answer'[x] = None
        BY <1>0, <1>1 DEF BillingInv, BillingTypeInv, RequestsOK
    <2> QED
        BY <2>1, <2>2 DEF Quiet, BillingInv, BillingTypeInv, RequestsOK, billingVars, Answers
<1>4. \A u : Rows(u)' = Rows(u) /\ Active(u)' = Active(u)
    BY <1>1, <1>2 DEF Quiet, billingVars, Rows, Active
<1>5. \A u : Writes(u)' = Writes(u)
    <2>1. \A x \in Requests : \A u : x \in Writes(u)' <=> x \in Writes(u)
        BY <1>0, <1>1, <1>2 DEF Writes, Answered
    <2> QED
        BY <2>1 DEF Writes, Answered
<1>6. Answered \subseteq Answered' /\ (\A x \in Open' : x # r => x \in Open)
    BY <1>1, <1>2 DEF Answered, Open, Sent
<1>7. BeforeInv'
    BY <1>1, <1>6 DEF BillingInv, BeforeInv
<1>8. \A v, d : KnowsSubscription(v, d)' <=> KnowsSubscription(v, d)
    BY <1>4 DEF Quiet, billingVars, KnowsSubscription
<1>9. SubscriptionInv'
    <2>1. ASSUME NEW x \in Requests, status'[x] # "none"
          PROVE  call'[x] # None /\ answer'[x] = "ok"
        BY <1>1, <1>2, <2>1 DEF Quiet, billingVars, BillingInv, SubscriptionInv
    <2>2. ASSUME NEW x \in Open', call'[x].loaded
          PROVE  /\ call'[x].sub # None => call'[x].sub \in Rows(call'[x].user)
                 /\ call'[x].op = "cancel" => call'[x].sub # None
        <3>1. CASE x = r
            BY <1>0, <1>1, <2>2, <3>1 DEF Quiet, Open, Answered, Sent
        <3>2. CASE x # r
            BY <1>1, <1>6, <2>2, <3>2 DEF BillingInv, SubscriptionInv, Open, Sent
        <3> QED
            BY <3>1, <3>2
    <2> QED
        BY <1>4, <2>1, <2>2 DEF SubscriptionInv
<1>10. KnowInv'
    <2> SUFFICES ASSUME NEW x \in Open', Writes(call'[x].user) \subseteq before'[x]
                 PROVE  /\ call'[x].userPlan = userPlan[call'[x].user]
                        /\ KnowsSubscription(call'[x].user, call'[x])
        BY <1>5, <1>8 DEF KnowInv, Quiet, billingVars
    <2>1. CASE x # r
        BY <1>1, <1>6, <2>1 DEF BillingInv, KnowInv, Open, Sent
    <2>2. CASE x = r
        <3>1. a = None
            BY <1>1, <2>2 DEF Open, Answered, Sent
        <3>2. CASE call[r] = None
            BY <1>1, <2>2, <3>2 DEF Quiet, KnowsSubscription
        <3>3. CASE call[r] # None
            <4>1. r \in Open /\ before'[r] = before[r]
                BY <1>1, <1>2, <3>3 DEF Open, Answered, Sent
            <4>2. call[r].userPlan = userPlan[call[r].user]
                BY <1>1, <2>2, <3>3, <4>1 DEF Quiet, BillingInv, KnowInv
            <4> QED
                BY <1>1, <2>2, <3>1, <3>3, <4>2 DEF Quiet, KnowsSubscription
        <3> QED
            BY <3>2, <3>3
    <2> QED
        BY <2>1, <2>2
<1>11. AgreeInv'
    <2> SUFFICES ASSUME NEW u \in Users, Serial(Writes(u))'
                 PROVE  Agree(u)'
        BY DEF AgreeInv
    <2>1. \A x \in Writes(u) : before'[x] = before[x]
        BY <1>1, <1>2 DEF Writes, Answered
    <2>2. Serial(Writes(u))
        BY <1>5, <2>1 DEF Serial, Overlap
    <2> QED
        BY <1>4, <2>2 DEF BillingInv, AgreeInv, Agree, Quiet, billingVars
<1> QED
    BY <1>3, <1>7, <1>9, <1>10, <1>11 DEF BillingInv

-----------------------------------------------------------------------------
(* The commits keep the invariant.                                         *)

\* What a commit of r does to the rows, when its user is u and its subscription
\* is x: r itself, which is inserted, or the one it has loaded.
Commits(r, u, x) ==
    /\ call[r].user = u /\ End(r, "ok")
    /\ x \in Requests /\ (x = r \/ x \in Rows(u))
    /\ userPlan' \in [Users -> Plans] /\ planOf' \in [Requests -> Plans]
    /\ status' \in [Requests -> {"none", "active", "canceled"}]
    /\ cancelAtEnd' \in [Requests -> BOOLEAN]
    /\ \A v \in Users : v # u => userPlan'[v] = userPlan[v]
    /\ \A y \in Requests : y # x => planOf'[y] = planOf[y] /\ status'[y] = status[y]
    /\ status'[x] # "none"
    /\ Writes(u) \subseteq before[r] =>
          \/ /\ x = r /\ Active(u) = {}
             /\ status'[x] = "active" /\ planOf'[x] = userPlan'[u]
          \/ /\ x \in Active(u)
             /\ planOf'[x] = userPlan'[u] \/ UNCHANGED <<userPlan, planOf>>

\* Both commits are of this form.
LEMMA CommitForms ==
    ASSUME BillingInv, NEW r \in Requests, CommitChange(r) \/ CommitCancel(r)
    PROVE  \E u \in Users, x \in Requests : Commits(r, u, x)
<1> DEFINE c == call[r]
           u == c.user
           x == IF c.sub = None THEN r ELSE c.sub
<1>1. r \in Open /\ c.loaded /\ End(r, "ok") /\ c \in BillingCalls /\ answer[r] = None
    <2>1. r \in Open /\ c.loaded /\ End(r, "ok")
        BY DEF CommitChange, CommitCancel, Loaded
    <2> QED
        BY <2>1, OpenCall DEF BillingInv
<1>2. /\ u \in Users /\ c.plan \in Plans /\ c.plan0 \in Plans /\ c.now \in BOOLEAN
      /\ c.userPlan \in Plans /\ c.cancelAtEnd \in BOOLEAN
    BY <1>1, CallFields
<1>3. /\ c.sub # None => c.sub \in Rows(u) /\ c.sub \in Requests
      /\ c.op = "cancel" => c.sub # None
    BY <1>1 DEF BillingInv, SubscriptionInv, Rows
<1>4. /\ x \in Requests /\ (x = r \/ x \in Rows(u))
      /\ c.sub = None => x = r
      /\ c.sub # None => x = c.sub
    BY <1>3
<1>5. Writes(u) \subseteq before[r] =>
          /\ c.userPlan = userPlan[u]
          /\ c.sub = None => Active(u) = {}
          /\ c.sub # None => c.sub \in Active(u) /\ c.plan0 = planOf[c.sub]
    BY <1>1 DEF BillingInv, KnowInv, KnowsSubscription
<1>6. /\ userPlan \in [Users -> Plans] /\ planOf \in [Requests -> Plans]
      /\ status \in [Requests -> {"none", "active", "canceled"}]
      /\ cancelAtEnd \in [Requests -> BOOLEAN]
    BY DEF BillingInv, BillingTypeInv
<1>7. x \in Rows(u) => status[x] # "none"
    BY DEF Rows
<1>8. x \in Active(u) => status[x] = "active"
    BY DEF Active
<1> HIDE DEF u, x
<1>9. CASE CommitChange(r)
    <2>1. userPlan' = [userPlan EXCEPT ![u] = IF c.plan # c.userPlan THEN c.plan ELSE @]
        BY <1>9 DEF CommitChange, u
    <2>2. /\ userPlan' \in [Users -> Plans]
          /\ \A v \in Users : v # u => userPlan'[v] = userPlan[v]
          /\ c.userPlan = userPlan[u] => userPlan'[u] = c.plan
        BY <1>2, <1>6, <2>1
    <2>3. CASE c.sub = None
        <3>1. /\ planOf' = [planOf EXCEPT ![r] = c.plan]
              /\ status' = [status EXCEPT ![r] = "active"]
              /\ UNCHANGED cancelAtEnd
            BY <1>9, <2>3 DEF CommitChange
        <3>2. /\ planOf' \in [Requests -> Plans] /\ planOf'[x] = c.plan
              /\ status' \in [Requests -> {"none", "active", "canceled"}]
              /\ cancelAtEnd' \in [Requests -> BOOLEAN] /\ status'[x] = "active"
              /\ \A y \in Requests : y # x => planOf'[y] = planOf[y] /\ status'[y] = status[y]
            BY <1>2, <1>4, <1>6, <2>3, <3>1
        <3>3. Commits(r, u, x)
            BY <1>1, <1>4, <1>5, <2>2, <2>3, <3>2 DEF Commits, u
        <3> QED
            BY <1>2, <1>4, <3>3
    <2>4. CASE c.sub # None
        <3>1. /\ planOf' = [planOf EXCEPT ![x] = IF c.plan # c.plan0 THEN c.plan ELSE @]
              /\ cancelAtEnd' = [cancelAtEnd EXCEPT ![x] = @ /\ ~c.cancelAtEnd]
              /\ UNCHANGED status
            BY <1>4, <1>9, <2>4 DEF CommitChange
        <3>2. /\ planOf' \in [Requests -> Plans]
              /\ c.plan0 = planOf[x] => planOf'[x] = c.plan
              /\ status' \in [Requests -> {"none", "active", "canceled"}]
              /\ \A y \in Requests : y # x => planOf'[y] = planOf[y] /\ status'[y] = status[y]
              /\ status'[x] = status[x]
            BY <1>2, <1>4, <1>6, <2>4, <3>1
        <3>3. cancelAtEnd' \in [Requests -> BOOLEAN]
            BY <1>2, <1>4, <1>6, <3>1
        <3>4. status'[x] # "none"
            BY <1>3, <1>4, <1>7, <2>4, <3>2
        <3>5. Commits(r, u, x)
            BY <1>1, <1>4, <1>5, <2>2, <2>4, <3>2, <3>3, <3>4 DEF Commits, u
        <3> QED
            BY <1>2, <1>4, <3>5
    <2> QED
        BY <2>3, <2>4
<1>10. CASE CommitCancel(r)
    <2>1. c.sub # None /\ x = c.sub /\ x \in Rows(u)
        BY <1>3, <1>4, <1>10 DEF CommitCancel, Loaded
    <2>2. /\ cancelAtEnd' = [cancelAtEnd EXCEPT
                 ![x] = IF c.cancelAtEnd # ~c.now THEN ~c.now ELSE @]
          /\ status' = [status EXCEPT ![x] = IF c.now THEN "canceled" ELSE @]
          /\ UNCHANGED <<userPlan, planOf>>
        BY <1>10, <2>1 DEF CommitCancel
    <2>3. /\ status' \in [Requests -> {"none", "active", "canceled"}]
          /\ \A y \in Requests : y # x => status'[y] = status[y]
          /\ status'[x] # "none"
        BY <1>2, <1>4, <1>6, <1>7, <2>1, <2>2
    <2>4. cancelAtEnd' \in [Requests -> BOOLEAN]
        BY <1>2, <1>4, <1>6, <2>2
    <2>5. Commits(r, u, x)
        BY <1>1, <1>4, <1>5, <1>6, <2>1, <2>2, <2>3, <2>4 DEF Commits, u
    <2> QED
        BY <1>2, <1>4, <2>5
<1> QED
    BY <1>9, <1>10

\* A commit keeps the invariant: one that follows the others has read the rows as
\* they are, and one that overlaps another leaves the user out of it.
LEMMA CommitStep ==
    ASSUME BillingInv, NEW r \in Requests, NEW u \in Users, NEW x \in Requests, Commits(r, u, x)
    PROVE  BillingInv'
<1>0. None \notin Answers /\ "ok" \in Answers
    BY RequestsAssumption DEF RequestsAssumption, Answers
<1>1. r \in Open /\ call[r] # None /\ answer[r] = None /\ status[r] = "none"
    <2>1. r \in Open
        BY DEF Commits, End
    <2>2. call[r] # None /\ answer[r] = None
        BY <2>1, OpenCall DEF BillingInv
    <2> QED
        BY <1>0, <2>1, <2>2 DEF BillingInv, SubscriptionInv, BillingTypeInv
<1>2. /\ call' = call /\ before' = before
      /\ answer'[r] = "ok" /\ \A y \in Requests : y # r => answer'[y] = answer[y]
    BY DEF Commits, End, BillingInv, BillingTypeInv, RequestsOK
<1>3. BillingTypeInv'
    BY <1>0, <1>1, <1>2 DEF Commits, End, BillingInv, BillingTypeInv, RequestsOK
<1>4. /\ Answered' = Answered \cup {r} /\ Open' = Open \ {r}
      /\ r \notin Answered
    BY <1>0, <1>1, <1>2 DEF Answered, Open, Sent
<1>5. /\ Writes(u)' = Writes(u) \cup {r}
      /\ \A v : v # u => Writes(v)' = Writes(v)
    BY <1>0, <1>1, <1>2, <1>4 DEF Writes, Commits, Answered
<1>6. /\ Rows(u)' = Rows(u) \cup {x} /\ call[x].user = u
      /\ Active(u)' \subseteq Active(u) \cup {x}
    BY <1>2 DEF Rows, Active, Commits
<1>7. \A v : v # u => Rows(v)' = Rows(v) /\ Active(v)' = Active(v) /\ x \notin Rows(v)
    BY <1>2, <1>6 DEF Rows, Active, Commits
<1>8. BeforeInv'
    BY <1>2, <1>4 DEF BillingInv, BeforeInv
<1>9. SubscriptionInv'
    <2>1. ASSUME NEW y \in Requests, status'[y] # "none"
          PROVE  call'[y] # None /\ answer'[y] = "ok"
        <3>1. CASE y = r
            BY <1>1, <1>2, <3>1
        <3>2. CASE y # r
            <4>1. status[y] # "none"
                BY <2>1, <3>2 DEF Commits, Rows
            <4> QED
                BY <1>2, <3>2, <4>1 DEF BillingInv, SubscriptionInv
        <3> QED
            BY <3>1, <3>2
    <2>2. \A v : Rows(v) \subseteq Rows(v)'
        BY <1>6, <1>7
    <2> QED
        BY <1>2, <1>4, <2>1, <2>2 DEF BillingInv, SubscriptionInv
<1>10. KnowInv'
    <2>0. \A s \in Open' : call[s].user \in Users
        BY <1>4, OpenCall, CallFields DEF BillingInv
    <2> SUFFICES ASSUME NEW s \in Open', NEW v \in Users, v = call[s].user,
                        Writes(v)' \subseteq before[s]
                 PROVE  call[s].userPlan = userPlan'[v] /\ KnowsSubscription(v, call[s])'
        BY <1>2, <2>0 DEF KnowInv, KnowsSubscription, Active, Rows, Writes
    <2>1. s \in Open /\ s \in Requests
        BY <1>4, OpenCall DEF BillingInv
    <2>2. r \notin before[s]
        BY <1>4, <2>1 DEF BillingInv, BeforeInv
    <2>4. v # u /\ Writes(v)' = Writes(v)
        BY <1>5, <2>2
    <2>5. /\ call[s].userPlan = userPlan[v] /\ KnowsSubscription(v, call[s])
        BY <2>1, <2>4 DEF BillingInv, KnowInv
    <2>6. userPlan'[v] = userPlan[v]
        BY <2>4 DEF Commits
    <2>7. \A y \in Active(v) : planOf'[y] = planOf[y]
        BY <1>7, <2>4 DEF Commits, Active, Rows
    <2>8. call[s].sub # None /\ call[s].sub \in Active(v) => planOf'[call[s].sub] = planOf[call[s].sub]
        BY <2>7
    <2>9. KnowsSubscription(v, call[s])'
        <3>1. Active(v)' = Active(v)
            BY <1>7, <2>4
        <3> QED
            BY <1>2, <2>5, <2>8, <3>1 DEF KnowsSubscription
    <2> QED
        BY <2>5, <2>6, <2>9
<1>11. AgreeInv'
    <2> SUFFICES ASSUME NEW v \in Users, Serial(Writes(v))'
                 PROVE  Agree(v)'
        BY DEF AgreeInv
    <2>1. \A y, z \in Writes(v)' : ~Overlap(y, z)
        BY <1>2 DEF Serial, Overlap
    <2>2. Serial(Writes(v)) /\ Agree(v)
        BY <1>5, <2>1 DEF Serial, BillingInv, AgreeInv
    <2>3. CASE v # u
        <3>1. \A y \in Active(v) : planOf'[y] = planOf[y]
            BY <1>7, <2>3 DEF Commits, Active, Rows
        <3>2. userPlan'[v] = userPlan[v]
            BY <2>3 DEF Commits
        <3> QED
            BY <1>7, <2>2, <2>3, <3>1, <3>2 DEF Agree
    <2>4. CASE v = u
        <3>1. Writes(u) \subseteq before[r]
            <4>1. \A y \in Writes(u) : y # r /\ r \notin before[y] /\ ~Overlap(r, y)
                BY <1>4, <1>5, <2>1, <2>4 DEF Writes, BillingInv, BeforeInv, Answered
            <4> QED
                BY <4>1 DEF Overlap
        <3>2. /\ \/ /\ x = r /\ Active(u) = {}
                    /\ planOf'[x] = userPlan'[u]
                 \/ /\ x \in Active(u)
                    /\ planOf'[x] = userPlan'[u] \/ UNCHANGED <<userPlan, planOf>>
              /\ x \in Rows(u)'
            BY <1>6, <3>1 DEF Commits
        <3>3. \A y \in Active(u)' : y = x
            BY <1>6, <2>2, <2>4, <3>2 DEF Agree
        <3>4. planOf'[x] = userPlan'[u]
            BY <2>2, <2>4, <3>2 DEF Agree
        <3> QED
            BY <2>4, <3>2, <3>3, <3>4 DEF Agree
    <2> QED
        BY <2>3, <2>4
<1> QED
    BY <1>3, <1>8, <1>9, <1>10, <1>11 DEF BillingInv

-----------------------------------------------------------------------------
(* The theorems.                                                           *)

\* The invariant holds before the first request.
LEMMA BillingInitInv ==
    ASSUME BillingInit
    PROVE  BillingInv
<1>1. BillingTypeInv
    BY SubscriptionsAssumption
        DEF BillingInit, NoRequests, BillingTypeInv, RequestsOK, SubscriptionsAssumption
<1>2. Open = {} /\ \A u : Rows(u) = {} /\ Active(u) = {}
    BY DEF BillingInit, NoRequests, Open, Sent, Rows, Active
<1> QED
    BY <1>1, <1>2 DEF BillingInv, SubscriptionInv, BeforeInv, KnowInv, AgreeInv, Agree,
        BillingInit, NoRequests

\* Every step of billing keeps the invariant.
LEMMA BillingStepInv ==
    ASSUME BillingInv, [BillingNext]_billingState
    PROVE  BillingInv'
<1>1. CASE UNCHANGED billingState
    BY <1>1 DEF billingState, requestVars, billingVars, BillingInv, BillingTypeInv, RequestsOK,
        SubscriptionInv, BeforeInv,
        KnowInv, AgreeInv, Agree, KnowsSubscription, Open, Sent, Answered, Rows, Active,
        Writes, Serial, Overlap
<1>2. ASSUME NEW r \in Requests, BillingEndpoints(r)
      PROVE  BillingInv'
    <2>1. CASE \/ \E u \in Users : BeginRequest(r, u) \/ RefuseUnknownPlan(r, u)
               \/ LoadSubscription(r) \/ BillingFails(r)
        BY <2>1, QuietSteps, QuietStep DEF BillingInv
    <2>2. CASE CommitChange(r) \/ CommitCancel(r)
        BY <2>2, CommitForms, CommitStep
    <2> QED
        BY <1>2, <2>1, <2>2 DEF BillingEndpoints
<1> QED
    BY <1>1, <1>2 DEF BillingNext

\* The inductive invariant holds in every state.
THEOREM BillingInvariance ==
    BillingSpec => []BillingInv
<1>1. BillingInit => BillingInv
    BY BillingInitInv
<1>2. BillingInv /\ [BillingNext]_billingState => BillingInv'
    BY BillingStepInv
<1> QED
    BY <1>1, <1>2, PTL DEF BillingSpec

\* Every row keeps its type, and a subscription there is was inserted by a request
\* that has been answered.
THEOREM SubscriptionsAreTyped ==
    BillingSpec => []SubscriptionsOK
<1>1. BillingInv => SubscriptionsOK
    BY RequestsAssumption DEF BillingInv, BillingTypeInv, SubscriptionInv, SubscriptionsOK,
        Answered,
        RequestsAssumption, Answers
<1> QED
    BY <1>1, BillingInvariance, PTL

\* The plan on a user's row is the one GET /billing/subscription shows
\* (Subscriptions!PlansAgree), however many requests of other users overlap.
THEOREM PlansAlwaysAgree ==
    BillingSpec => []PlansAgree
<1>1. BillingInv => PlansAgree
    <2> SUFFICES ASSUME BillingInv, NEW u \in Users, Serial(Writes(u))
                 PROVE  /\ Cardinality(Active(u)) <= 1
                        /\ Active(u) # {} \/ Rows(u) = {} => userPlan[u] = GetSubscription(u)
        BY DEF PlansAgree
    <2>1. Agree(u)
        BY DEF BillingInv, AgreeInv
    <2>2. Active(u) \subseteq Rows(u) /\ Rows(u) \subseteq Requests /\ None \notin Requests
        BY RequestsAssumption DEF RequestsAssumption, Active, Rows
    <2>3. CASE Active(u) = {}
        <3>1. Cardinality(Active(u)) = 0 /\ ActiveForUser(u) = None
            BY <2>3, FS_EmptySet DEF ActiveForUser
        <3> QED
            BY <2>1, <2>3, <3>1 DEF Agree, GetSubscription
    <2>4. CASE Active(u) # {}
        <3>1. ActiveForUser(u) \in Active(u)
            BY <2>4, FoundIsActive
        <3>2. Active(u) = {ActiveForUser(u)}
            BY <2>1, <3>1 DEF Agree
        <3>3. Cardinality(Active(u)) = 1
            BY <3>2, FS_Singleton
        <3> QED
            BY <2>1, <2>2, <3>1, <3>3 DEF Agree, GetSubscription
    <2> QED
        BY <2>3, <2>4
<1> QED
    BY <1>1, BillingInvariance, PTL

-----------------------------------------------------------------------------
(* The inductive invariant.                                                *)

CatalogueTypeInv ==
    /\ RequestsOK
    /\ call \in [Requests -> CatalogueCalls \cup {None}]
    /\ stored \in [Requests -> {"none", "live", "deleted"}]

\* A row was inserted by its request, and an open request is about a row there is.
StoredInv ==
    /\ \A x \in Requests : stored[x] # "none" =>
          call[x] # None /\ answer[x] = "ok" /\ call[x].op = "insert"
    /\ \A r \in Open : call[r].op \in {"toggle", "delete"} =>
          call[r].row \in Requests /\ stored[call[r].row] # "none"

\* What is flagged, and what an open toggle is about, is a repository.
FlaggedInv ==
    /\ \A f \in flagged : f \in Flags \X Requests /\ stored[f[2]] # "none"
                         /\ call[f[2]].table = "repositories"
    /\ \A r \in Open : call[r].op = "toggle" => call[call[r].row].table = "repositories"

\* Two rows of a user with one key are one row, and a request that was refused
\* a key has met a row that has it.
SameName(x, c) ==
    /\ stored[x] # "none" /\ call[x].user = c.user /\ call[x].table = c.table
    /\ call[x].key = c.key /\ c.key # None

NameInv ==
    /\ \A x, y \in Requests : stored[y] # "none" /\ SameName(x, call[y]) => x = y
    /\ \A r \in Sent : call[r].op = "insert" /\ answer[r] = "conflict" =>
          \E x \in Requests : SameName(x, call[r])

\* An open toggle knows the flag, unless another toggle of it has ended since,
\* and the flag counts its toggles while none of them overlap.
Toggles(x, flag) == {r \in Done("toggle") : call[r].row = x /\ call[r].flag = flag}

Knows(r, x, flag) ==
    call[r].op = "toggle" /\ call[r].row = x /\ call[r].flag = flag =>
        /\ call[r].on \in BOOLEAN
        /\ Toggles(x, flag) \subseteq before[r] => (call[r].on <=> IsFlagged(flag, x))

Counts(x, flag) ==
    Serial(Toggles(x, flag)) =>
        (IsFlagged(flag, x) <=> Cardinality(Toggles(x, flag)) % 2 = 1)

FlagInv ==
    /\ \A r \in Open : \A x, flag : Knows(r, x, flag)
    /\ \A x \in Requests, flag \in Flags : Counts(x, flag)

CatalogueInv == CatalogueTypeInv /\ StoredInv /\ FlaggedInv /\ NameInv /\ BeforeInv /\ FlagInv

-----------------------------------------------------------------------------
(* The steps.                                                              *)

\* What a request has read when it begins.
Read(c, a) ==
    /\ c.op = "insert" /\ a = "conflict" => \E x \in Requests : SameName(x, c)
    /\ c.op \in {"toggle", "delete"} /\ a = None =>
          c.row \in Requests /\ stored[c.row] # "none"
    /\ c.op = "toggle" /\ a = None => call[c.row].table = "repositories"
    /\ c.op = "toggle" => c.on \in BOOLEAN /\ (c.on <=> IsFlagged(c.flag, c.row))
    /\ a = "ok" => c.op = "edit"

Began(r, c, a) ==
    /\ call[r] = None /\ call' = [call EXCEPT ![r] = c]
    /\ before' = [before EXCEPT ![r] = Answered]
    /\ answer' = [answer EXCEPT ![r] = a]
    /\ UNCHANGED catalogueVars
    /\ c \in CatalogueCalls /\ a \in Answers \cup {None}
    /\ Read(c, a)

\* The requests that begin.
Beginning(r) ==
    \E u \in Users : \/ RepositoryEndpoints(r, u) \/ FlagEndpoints(r, u)
                     \/ ProjectEndpoints(r, u) \/ ConversationEndpoints(r, u)

\* A request that goes on begins like one that is answered with None.
LEMMA BeginForms ==
    ASSUME CatalogueTypeInv, NEW r \in Requests, NEW c \in CatalogueCalls,
           NEW a \in Answers \cup {None}, Read(c, a),
           (Receive(r, c) /\ a = None) \/ AnswerAtOnce(r, c, a),
           UNCHANGED catalogueVars
    PROVE  Began(r, c, a)
<1>1. call[r] = None /\ answer[r] = None
    BY DEF Receive, AnswerAtOnce, Begin, CatalogueTypeInv, RequestsOK
<1>2. answer' = [answer EXCEPT ![r] = a]
    BY <1>1 DEF Receive, AnswerAtOnce, CatalogueTypeInv, RequestsOK
<1> QED
    BY <1>1, <1>2 DEF Receive, AnswerAtOnce, Begin, Began

\* Every request that begins has read what Read says.
LEMMA BeginEffect ==
    ASSUME CatalogueTypeInv, NEW r \in Requests, Beginning(r)
    PROVE  \E c \in CatalogueCalls, a \in Answers \cup {None} : Began(r, c, a)
<1> PICK u \in Users : \/ RepositoryEndpoints(r, u) \/ FlagEndpoints(r, u)
                       \/ ProjectEndpoints(r, u) \/ ConversationEndpoints(r, u)
    BY DEF Beginning
<1>0. None \notin Answers /\ None \notin Requests
    BY RequestsAssumption DEF RequestsAssumption
<1>1. ASSUME NEW x \in Ids, NEW found, DeleteOneOf(r, u, x, found), found \subseteq Requests,
             \A y \in found : stored[y] # "none"
      PROVE  \E c \in CatalogueCalls, a \in Answers \cup {None} : Began(r, c, a)
    <2> DEFINE c == [op |-> "delete", user |-> u, row |-> x]
    <2>1. c \in CatalogueCalls /\ c.op = "delete" /\ c.row = x
        BY DEF CatalogueCalls, Ids
    <2> HIDE DEF c
    <2>2. CASE x \in found /\ Receive(r, c) /\ UNCHANGED catalogueVars
        BY <1>0, <1>1, <2>1, <2>2, BeginForms DEF Read, Answers
    <2>3. CASE AnswerAtOnce(r, c, "not_found") /\ UNCHANGED catalogueVars
        BY <1>0, <2>1, <2>3, BeginForms DEF Read, Answers
    <2> QED
        BY <1>1, <2>2, <2>3 DEF DeleteOneOf, c
<1>2. ASSUME NEW x \in Ids, NEW found, NEW answers \in SUBSET Answers,
             EditOneOf(r, u, x, found, answers)
      PROVE  \E c \in CatalogueCalls, a \in Answers \cup {None} : Began(r, c, a)
    <2> DEFINE c == [op |-> "edit", user |-> u, row |-> x]
    <2>1. c \in CatalogueCalls /\ c.op = "edit"
        BY DEF CatalogueCalls, Ids
    <2> HIDE DEF c
    <2>2. PICK a \in Answers : AnswerAtOnce(r, c, a)
        BY <1>2 DEF EditOneOf, c, Answers
    <2> QED
        BY <1>2, <2>1, <2>2, BeginForms DEF Read, EditOneOf
<1>3. ASSUME NEW x \in Ids, DeleteRepository(r, u, x) \/ DeleteProject(r, u, x) \/ DeleteConversation(r, u, x)
      PROVE  \E c \in CatalogueCalls, a \in Answers \cup {None} : Began(r, c, a)
    BY <1>1, <1>3 DEF DeleteRepository, DeleteProject, DeleteConversation, Visible, Owned
<1>4. ASSUME NEW x \in Ids, UpdateProject(r, u, x) \/ EditConversation(r, u, x)
      PROVE  \E c \in CatalogueCalls, a \in Answers \cup {None} : Began(r, c, a)
    <2>1. {"ok", "error"} \subseteq Answers /\ {"ok", "error", "conflict"} \subseteq Answers
        BY DEF Answers
    <2> QED
        BY <1>2, <1>4, <2>1 DEF UpdateProject, EditConversation
<1>5. ASSUME NEW table \in Tables, NEW key \in Keys, NEW a \in Answers \cup {None}, a # "ok",
             a = "conflict" => \E x \in Requests : SameName(x, Insertion(u, table, key)),
             \/ Receive(r, Insertion(u, table, key)) /\ a = None
             \/ AnswerAtOnce(r, Insertion(u, table, key), a),
             UNCHANGED catalogueVars
      PROVE  \E c \in CatalogueCalls, b \in Answers \cup {None} : Began(r, c, b)
    <2> DEFINE c == Insertion(u, table, key)
    <2>1. c \in CatalogueCalls /\ c.op = "insert"
        BY DEF CatalogueCalls, Insertion
    <2> HIDE DEF c
    <2>2. Read(c, a)
        BY <1>5, <2>1 DEF Read, c
    <2> QED
        BY <1>5, <2>1, <2>2, BeginForms DEF c
<1>6. ASSUME NEW url \in Urls, AddRepository(r, u, url)
      PROVE  \E c \in CatalogueCalls, a \in Answers \cup {None} : Began(r, c, a)
    <2> DEFINE location == ParseGitUrl(url)
    <2>1. "repositories" \in Tables /\ None \in Keys /\ {"error", "conflict"} \subseteq Answers
          /\ "error" # "conflict" /\ None # "conflict" /\ None # "ok"
        BY <1>0 DEF Tables, Keys, Answers
    <2>2. CASE location = None
        BY <1>5, <1>6, <2>1, <2>2 DEF AddRepository
    <2>3. CASE location # None
        <3>1. location.full_name \in Keys
            BY <2>3 DEF ParseGitUrl, Keys, FullNames
        <3> HIDE DEF location
        <3>2. CASE GetByFullName(u, location.full_name) # {}
            <4>1. \E x \in Requests : SameName(x, Insertion(u, "repositories", location.full_name))
                BY <3>2 DEF GetByFullName, Keyed, Visible, Owned, SameName, Insertion
            <4>2. AnswerAtOnce(r, Insertion(u, "repositories", location.full_name), "conflict")
                  /\ UNCHANGED catalogueVars
                BY <1>6, <2>3, <3>2 DEF AddRepository, location
            <4> QED
                BY <1>5, <2>1, <3>1, <4>1, <4>2
        <3>3. CASE GetByFullName(u, location.full_name) = {}
            <4>1. Receive(r, Insertion(u, "repositories", location.full_name)) /\ UNCHANGED catalogueVars
                BY <1>6, <2>3, <3>3 DEF AddRepository, location
            <4> QED
                BY <1>5, <2>1, <3>1, <4>1
        <3> QED
            BY <3>2, <3>3
    <2> QED
        BY <2>2, <2>3
<1>7. ASSUME NEW n \in ProjectNames, CreateProject(r, u, n)
      PROVE  \E c \in CatalogueCalls, a \in Answers \cup {None} : Began(r, c, a)
    <2>1. "projects" \in Tables /\ Slug(n) \in Keys /\ None # "ok" /\ None # "conflict"
        BY <1>0 DEF Tables, Keys, Answers
    <2> QED
        BY <1>5, <1>7, <2>1 DEF CreateProject
<1>8. ASSUME NEW x \in Ids, CreateConversation(r, u, x)
      PROVE  \E c \in CatalogueCalls, a \in Answers \cup {None} : Began(r, c, a)
    <2>1. "conversations" \in Tables /\ None \in Keys /\ "not_found" \in Answers
          /\ None # "ok" /\ None # "conflict"
        BY <1>0 DEF Tables, Keys, Answers
    <2> QED
        BY <1>5, <1>8, <2>1 DEF CreateConversation
<1>9. ASSUME NEW x \in Ids, NEW flag \in Flags, Toggle(r, u, x, flag)
      PROVE  \E c \in CatalogueCalls, a \in Answers \cup {None} : Began(r, c, a)
    <2> DEFINE set == IsFlagged(flag, x)
               c   == Toggling(u, x, flag, set)
    <2>0. set \in BOOLEAN /\ (set <=> IsFlagged(flag, x))
        BY DEF IsFlagged
    <2> HIDE DEF set
    <2>1. c \in CatalogueCalls /\ c.op = "toggle" /\ c.row = x /\ c.flag = flag
          /\ c.on \in BOOLEAN /\ (c.on <=> IsFlagged(flag, x))
        <3>1. c.op = "toggle" /\ c.row = x /\ c.flag = flag /\ c.on = set
            BY DEF Toggling
        <3>2. x \in Requests \cup {None}
            BY DEF Ids
        <3>3. c \in CatalogueCalls
            BY <2>0, <3>2 DEF CatalogueCalls, Toggling
        <3> QED
            BY <2>0, <3>1, <3>3
    <2> HIDE DEF c
    <2>2. CASE x \in Visible(u, "repositories") /\ Receive(r, c) /\ UNCHANGED catalogueVars
        BY <1>0, <2>1, <2>2, BeginForms DEF Read, Answers, Visible, Owned
    <2>3. CASE AnswerAtOnce(r, c, "not_found") /\ UNCHANGED catalogueVars
        BY <1>0, <2>1, <2>3, BeginForms DEF Read, Answers
    <2> QED
        BY <1>9, <2>2, <2>3 DEF Toggle, c, set
<1> QED
    BY <1>3, <1>4, <1>6, <1>7, <1>8, <1>9
    DEF RepositoryEndpoints, FlagEndpoints, ProjectEndpoints, ConversationEndpoints

\* The requests that end.
Ending(r) == CommitInsert(r) \/ CommitToggle(r) \/ CommitDelete(r) \/ CatalogueFails(r)

\* Every step begins a request or ends one.
LEMMA StepKinds ==
    ASSUME CatalogueTypeInv, [CatalogueNext]_catalogueState
    PROVE  \/ UNCHANGED catalogueState
           \/ \E r \in Requests, c \in CatalogueCalls, a \in Answers \cup {None} : Began(r, c, a)
           \/ \E r \in Requests : Ending(r)
BY BeginEffect DEF CatalogueNext, Beginning, Ending

\* What an ending leaves alone.
LEMMA EndEffect ==
    ASSUME CatalogueTypeInv, NEW r \in Requests, Ending(r)
    PROVE  /\ r \in Open /\ answer[r] = None /\ UNCHANGED <<call, before>>
           /\ answer' \in [Requests -> Answers \cup {None}] /\ answer'[r] \in Answers
           /\ \A q \in Requests \ {r} : answer'[q] = answer[q]
<1>1. PICK a \in {"ok", "conflict", "error"} : End(r, a)
    BY DEF Ending, CommitInsert, CommitToggle, CommitDelete, CatalogueFails
<1> QED
    BY <1>1 DEF End, Open, Sent, Answered, CatalogueTypeInv, RequestsOK, Answers

\* Every step keeps the types, and the requests that had been answered.
LEMMA CatalogueTypeStep ==
    CatalogueTypeInv /\ BeforeInv /\ [CatalogueNext]_catalogueState
        => CatalogueTypeInv' /\ BeforeInv'
<1> SUFFICES ASSUME CatalogueTypeInv, BeforeInv, [CatalogueNext]_catalogueState
             PROVE  CatalogueTypeInv' /\ BeforeInv'
    OBVIOUS
<1> USE DEF BeforeInv, Answered
<1>0. None \notin Answers /\ IsFiniteSet(Requests)
    BY RequestsAssumption DEF RequestsAssumption
<1>1. CASE UNCHANGED catalogueState
    BY <1>1 DEF catalogueState, requestVars, catalogueVars, CatalogueTypeInv, RequestsOK
<1>2. ASSUME NEW r \in Requests, NEW c \in CatalogueCalls, NEW a \in Answers \cup {None}, Began(r, c, a)
      PROVE  CatalogueTypeInv' /\ BeforeInv'
    <2>1. answer[r] = None
        BY <1>2 DEF Began, CatalogueTypeInv, RequestsOK
    <2>2. stored' \in [Requests -> {"none", "live", "deleted"}]
        BY <1>2 DEF Began, catalogueVars, CatalogueTypeInv
    <2>3. call' \in [Requests -> CatalogueCalls \cup {None}] /\ answer' \in [Requests -> Answers \cup {None}]
          /\ before' \in [Requests -> SUBSET Requests]
        BY <1>2 DEF Began, CatalogueTypeInv, RequestsOK
    <2>4. \A q \in Requests : call'[q] = None => answer'[q] = None
        BY <1>2, CatalogueAssumption DEF CatalogueAssumption, Began, CatalogueTypeInv,
            RequestsOK
    <2>5. \A q \in Requests : answer[q] # None => answer'[q] # None
        BY <1>2, <2>1 DEF Began, CatalogueTypeInv, RequestsOK
    <2>6. BeforeInv'
        BY <1>2, <2>5 DEF Began, CatalogueTypeInv, RequestsOK
    <2> QED
        BY <2>2, <2>3, <2>4, <2>6 DEF CatalogueTypeInv, RequestsOK
<1>3. ASSUME NEW r \in Requests, Ending(r)
      PROVE  CatalogueTypeInv' /\ BeforeInv'
    <2>1. /\ answer' \in [Requests -> Answers \cup {None}] /\ UNCHANGED <<call, before>>
          /\ \A q \in Requests : answer[q] # None => answer'[q] # None
          /\ \A q \in Requests : call'[q] = None => answer'[q] = None
        BY <1>0, <1>3, EndEffect DEF Open, Sent, CatalogueTypeInv, RequestsOK
    <2>2. stored' \in [Requests -> {"none", "live", "deleted"}]
        BY <1>3 DEF Ending, CommitInsert, CommitToggle, CommitDelete, CatalogueFails,
            catalogueVars, CatalogueTypeInv
    <2> QED
        BY <2>1, <2>2 DEF CatalogueTypeInv, RequestsOK
<1> QED
    BY <1>1, <1>2, <1>3, StepKinds

\* Rows stay, with the call that inserted them.
LEMMA RowsStay ==
    ASSUME CatalogueTypeInv, StoredInv, [CatalogueNext]_catalogueState, NEW x \in Requests, stored[x] # "none"
    PROVE  stored'[x] # "none" /\ call'[x] = call[x] /\ answer'[x] = "ok"
<1>1. CASE UNCHANGED catalogueState
    BY <1>1 DEF catalogueState, requestVars, catalogueVars, StoredInv
<1>2. ASSUME NEW r \in Requests, NEW c \in CatalogueCalls, NEW a \in Answers \cup {None}, Began(r, c, a)
      PROVE  stored'[x] # "none" /\ call'[x] = call[x] /\ answer'[x] = "ok"
    <2>1. x # r
        BY <1>2 DEF Began, StoredInv
    <2> QED
        BY <1>2, <2>1 DEF Began, StoredInv, catalogueVars, CatalogueTypeInv, RequestsOK
<1>3. ASSUME NEW r \in Requests, Ending(r)
      PROVE  stored'[x] # "none" /\ call'[x] = call[x] /\ answer'[x] = "ok"
    <2>1. x # r /\ UNCHANGED call /\ answer'[x] = "ok"
        BY <1>3, EndEffect, RequestsAssumption DEF StoredInv, RequestsAssumption, Answers
    <2>2. stored'[x] # "none"
        BY <1>3, <2>1 DEF Ending, CommitInsert, CommitToggle, CommitDelete, CatalogueFails,
            catalogueVars, CatalogueTypeInv
    <2> QED
        BY <2>1, <2>2
<1> QED
    BY <1>1, <1>2, <1>3, StepKinds

\* Every step keeps rows and their requests in step.
LEMMA RowStep == CatalogueTypeInv /\ StoredInv /\ [CatalogueNext]_catalogueState => StoredInv'
<1> SUFFICES ASSUME CatalogueTypeInv, StoredInv, [CatalogueNext]_catalogueState PROVE StoredInv'
    OBVIOUS
<1> USE DEF Open, Sent, Answered
<1>0. \A x \in Requests : stored[x] # "none" =>
          stored'[x] # "none" /\ call'[x] = call[x] /\ answer'[x] = "ok"
    BY RowsStay
<1>1. CASE UNCHANGED catalogueState
    BY <1>1 DEF catalogueState, requestVars, catalogueVars, StoredInv
<1>2. ASSUME NEW r \in Requests, NEW c \in CatalogueCalls, NEW a \in Answers \cup {None}, Began(r, c, a)
      PROVE  StoredInv'
    <2>1. \A x \in Requests \ {r} : call'[x] = call[x] /\ answer'[x] = answer[x]
        BY <1>2 DEF Began, CatalogueTypeInv, RequestsOK
    <2>2. call'[r] = c /\ answer'[r] = a /\ UNCHANGED stored
        BY <1>2 DEF Began, CatalogueTypeInv, RequestsOK, catalogueVars
    <2> QED
        BY <1>0, <1>2, <2>1, <2>2 DEF StoredInv, Began, Read
<1>3. ASSUME NEW r \in Requests, Ending(r)
      PROVE  StoredInv'
    <2>1. /\ r \in Open /\ UNCHANGED call /\ answer'[r] # None
          /\ \A x \in Requests \ {r} : answer'[x] = answer[x]
        BY <1>3, EndEffect, RequestsAssumption DEF RequestsAssumption
    <2>2. ASSUME NEW x \in Requests, stored[x] = "none", stored'[x] # "none"
          PROVE  call[x] # None /\ answer'[x] = "ok" /\ call[x].op = "insert"
        <3>1. CASE CommitInsert(r)
            BY <2>1, <2>2, <3>1 DEF CommitInsert, End, CatalogueTypeInv, RequestsOK
        <3>2. CASE CommitDelete(r)
            BY <2>1, <2>2, <3>2 DEF CommitDelete, StoredInv, CatalogueTypeInv
        <3>3. CASE CommitToggle(r) \/ CatalogueFails(r)
            BY <2>2, <3>3 DEF CommitToggle, CatalogueFails, catalogueVars
        <3> QED
            BY <1>3, <3>1, <3>2, <3>3 DEF Ending
    <2> QED
        BY <1>0, <2>1, <2>2 DEF StoredInv
<1> QED
    BY <1>1, <1>2, <1>3, StepKinds

\* Every step flags repositories only.
LEMMA FlaggedStep ==
    CatalogueTypeInv /\ StoredInv /\ FlaggedInv /\ [CatalogueNext]_catalogueState => FlaggedInv'
<1> SUFFICES ASSUME CatalogueTypeInv, StoredInv, FlaggedInv, [CatalogueNext]_catalogueState
             PROVE  FlaggedInv'
    OBVIOUS
<1>0. \A x \in Requests : stored[x] # "none" => stored'[x] # "none" /\ call'[x] = call[x]
    BY RowsStay
<1>1. CASE UNCHANGED catalogueState
    BY <1>1 DEF catalogueState, requestVars, catalogueVars, FlaggedInv, Open, Sent, Answered
<1>2. ASSUME NEW r \in Requests, NEW c \in CatalogueCalls, NEW a \in Answers \cup {None},
             Began(r, c, a)
      PROVE  FlaggedInv'
    <2>1. \A q \in Requests \ {r} : call'[q] = call[q] /\ answer'[q] = answer[q]
        BY <1>2 DEF Began, CatalogueTypeInv, RequestsOK
    <2>2. call'[r] = c /\ answer'[r] = a /\ UNCHANGED flagged
        BY <1>2 DEF Began, CatalogueTypeInv, RequestsOK, catalogueVars
    <2>3. ASSUME NEW q \in Open', call'[q].op = "toggle"
          PROVE  call'[call'[q].row].table = "repositories"
        <3>1. CASE q = r
            <4>1. /\ c.row \in Requests /\ stored[c.row] # "none"
                  /\ call[c.row].table = "repositories"
                BY <1>2, <2>2, <2>3, <3>1 DEF Began, Read, Open, Answered
            <4> QED
                BY <1>0, <2>2, <3>1, <4>1
        <3>2. CASE q # r
            <4>1. q \in Open /\ call'[q] = call[q] /\ call[q].op = "toggle"
                BY <2>1, <2>3, <3>2 DEF Open, Sent, Answered
            <4>2. /\ call[q].row \in Requests /\ stored[call[q].row] # "none"
                  /\ call[call[q].row].table = "repositories"
                BY <4>1 DEF StoredInv, FlaggedInv
            <4> QED
                BY <1>0, <4>1, <4>2
        <3> QED
            BY <3>1, <3>2
    <2>4. \A f \in flagged : /\ f \in Flags \X Requests /\ stored'[f[2]] # "none"
                             /\ call'[f[2]].table = "repositories"
        BY <1>0 DEF FlaggedInv
    <2> QED
        BY <2>2, <2>3, <2>4 DEF FlaggedInv
<1>3. ASSUME NEW r \in Requests, Ending(r)
      PROVE  FlaggedInv'
    <2>1. r \in Open /\ UNCHANGED call /\ Open' \subseteq Open
        BY <1>3, EndEffect DEF Open, Sent, Answered
    <2>2. ASSUME NEW f \in flagged'
          PROVE  /\ f \in Flags \X Requests /\ stored[f[2]] # "none"
                 /\ call[f[2]].table = "repositories"
        <3>1. CASE f \in flagged
            BY <3>1 DEF FlaggedInv
        <3>2. CASE f \notin flagged
            <4>1. call[r].op = "toggle" /\ f = <<call[r].flag, call[r].row>>
                BY <1>3, <2>2, <3>2
                DEF Ending, CommitInsert, CommitToggle, CommitDelete, CatalogueFails,
                    catalogueVars
            <4>2. /\ call[r].row \in Requests /\ stored[call[r].row] # "none"
                  /\ call[call[r].row].table = "repositories"
                BY <2>1, <4>1 DEF StoredInv, FlaggedInv
            <4>3. call[r] \in CatalogueCalls /\ call[r].flag \in Flags
                BY <2>1, <4>1 DEF Open, Sent, CatalogueTypeInv, CatalogueCalls
            <4> QED
                BY <4>1, <4>2, <4>3
        <3> QED
            BY <3>1, <3>2
    <2>3. \A x \in Requests : stored[x] # "none" => stored'[x] # "none"
        BY <1>0
    <2> QED
        BY <2>1, <2>2, <2>3 DEF FlaggedInv
<1> QED
    BY <1>1, <1>2, <1>3, StepKinds

\* Every step keeps the names unique.
LEMMA NameStep == CatalogueTypeInv /\ StoredInv /\ NameInv /\ [CatalogueNext]_catalogueState => NameInv'
<1> SUFFICES ASSUME CatalogueTypeInv, StoredInv, NameInv, [CatalogueNext]_catalogueState PROVE NameInv'
    OBVIOUS
<1> USE DEF Sent
<1>0. \A x \in Requests : stored[x] # "none" =>
          stored'[x] # "none" /\ call'[x] = call[x] /\ answer'[x] = "ok"
    BY RowsStay
<1>1. \A x \in Requests : \A c : SameName(x, c) => SameName(x, c)'
    BY <1>0 DEF SameName
<1>2. CASE UNCHANGED catalogueState
    BY <1>2 DEF catalogueState, requestVars, catalogueVars, NameInv, SameName
<1>3. ASSUME NEW r \in Requests, NEW c \in CatalogueCalls, NEW a \in Answers \cup {None}, Began(r, c, a)
      PROVE  NameInv'
    <2>1. /\ \A x \in Requests \ {r} : call'[x] = call[x] /\ answer'[x] = answer[x]
          /\ call'[r] = c /\ answer'[r] = a /\ UNCHANGED stored
        BY <1>3 DEF Began, CatalogueTypeInv, RequestsOK, catalogueVars
    <2>2. \A x, y \in Requests : stored'[y] # "none" /\ SameName(x, call[y])' => x = y
        BY <1>0, <2>1 DEF NameInv, SameName
    <2>3. \A q \in Sent' : call'[q].op = "insert" /\ answer'[q] = "conflict" =>
             \E x \in Requests : SameName(x, call[q])'
        BY <1>1, <1>3, <2>1 DEF NameInv, Began, Read
    <2> QED
        BY <2>2, <2>3 DEF NameInv
<1>4. ASSUME NEW r \in Requests, Ending(r)
      PROVE  NameInv'
    <2>1. /\ r \in Sent /\ UNCHANGED call
          /\ \A x \in Requests \ {r} : answer'[x] = answer[x]
        BY <1>4, EndEffect DEF Open
    <2>2. CASE \E x \in Requests : stored[x] = "none" /\ stored'[x] # "none"
        <3>1. /\ CommitInsert(r) /\ answer'[r] = "ok" /\ stored' = [stored EXCEPT ![r] = "live"]
              /\ Keyed(Owned(call[r].user, call[r].table), call[r].key) = {}
            <4>1. ~CommitDelete(r)
                BY <1>4, <2>2, EndEffect DEF CommitDelete, StoredInv, CatalogueTypeInv
            <4>2. ~CommitToggle(r) /\ ~CatalogueFails(r)
                BY <2>2 DEF CommitToggle, CatalogueFails, catalogueVars
            <4>3. CommitInsert(r)
                BY <1>4, <4>1, <4>2 DEF Ending
            <4> QED
                BY <2>2, <4>3 DEF CommitInsert, End, CatalogueTypeInv, RequestsOK
        <3>2. \A x \in Requests : ~SameName(x, call[r])
            BY <3>1 DEF Keyed, Owned, SameName
        <3>3. \A x \in Requests \ {r} : stored'[x] = stored[x]
            BY <3>1 DEF CatalogueTypeInv
        <3>4. stored[r] = "none"
            BY <1>4, EndEffect, RequestsAssumption DEF StoredInv, RequestsAssumption, Answers
        <3>5. \A x, y \in Requests : stored'[y] # "none" /\ SameName(x, call[y])' => x = y
            BY <2>1, <3>2, <3>3, <3>4 DEF NameInv, SameName
        <3>6. \A q \in Sent' : call'[q].op = "insert" /\ answer'[q] = "conflict" =>
                 \E x \in Requests : SameName(x, call[q])'
            BY <1>1, <2>1, <3>1 DEF NameInv
        <3> QED
            BY <3>5, <3>6 DEF NameInv
    <2>3. CASE \A x \in Requests : stored[x] = "none" => stored'[x] = "none"
        <3>1. \A x, y \in Requests : stored'[y] # "none" /\ SameName(x, call[y])' => x = y
            BY <2>1, <2>3 DEF NameInv, SameName
        <3>2. ASSUME call[r].op = "insert", answer'[r] = "conflict"
              PROVE  \E x \in Requests : SameName(x, call[r])
            <4>1. CommitInsert(r)
                BY <1>4, <2>1, <3>2, EndEffect
                DEF Ending, CommitToggle, CommitDelete, CatalogueFails, End, CatalogueTypeInv,
                    RequestsOK
            <4>2. Keyed(Owned(call[r].user, call[r].table), call[r].key) # {}
                BY <3>2, <4>1 DEF CommitInsert, End, CatalogueTypeInv, RequestsOK
            <4> QED
                BY <4>2 DEF Keyed, Owned, SameName
        <3>3. \A q \in Sent' : call'[q].op = "insert" /\ answer'[q] = "conflict" =>
                 \E x \in Requests : SameName(x, call[q])'
            BY <1>1, <2>1, <3>2 DEF NameInv
        <3> QED
            BY <3>1, <3>3 DEF NameInv
    <2> QED
        BY <2>2, <2>3
<1> QED
    BY <1>2, <1>3, <1>4, StepKinds

-----------------------------------------------------------------------------
(* Flags.                                                                  *)

\* An odd number is followed by one that is not.
LEMMA Parity == ASSUME NEW n \in Nat PROVE (n + 1) % 2 = 1 <=> n % 2 # 1
OBVIOUS

\* A step that ends no toggle with success leaves the toggles as they are.
LEMMA TogglesStay ==
    ASSUME \A q \in Requests : (answer'[q] = "ok" /\ call'[q].op = "toggle")
                                 <=> (answer[q] = "ok" /\ call[q].op = "toggle"),
           \A q \in Requests : answer[q] = "ok" => call'[q] = call[q],
           None # "ok", NEW x, NEW flag
    PROVE  Toggles(x, flag)' = Toggles(x, flag)
<1>1. Toggles(x, flag) = {q \in Requests : answer[q] = "ok" /\ call[q].op = "toggle"
                             /\ call[q].row = x /\ call[q].flag = flag}
    BY DEF Toggles, Done, Answered
<1>2. Toggles(x, flag)' = {q \in Requests : answer'[q] = "ok" /\ call'[q].op = "toggle"
                             /\ call'[q].row = x /\ call'[q].flag = flag}
    BY DEF Toggles, Done, Answered
<1> QED
    BY <1>1, <1>2

\* Every step keeps the flags and their toggles in step.
LEMMA FlagStep ==
    CatalogueTypeInv /\ StoredInv /\ BeforeInv /\ FlagInv /\ [CatalogueNext]_catalogueState
        => FlagInv'
<1> SUFFICES ASSUME CatalogueTypeInv, StoredInv, BeforeInv, FlagInv,
                    [CatalogueNext]_catalogueState
             PROVE  FlagInv'
    OBVIOUS
<1>0. None # "ok" /\ None \notin Answers /\ IsFiniteSet(Requests)
    BY RequestsAssumption DEF RequestsAssumption, Answers
<1>1. ASSUME UNCHANGED catalogueState
      PROVE  FlagInv'
    <2>1. UNCHANGED <<call, answer, before, flagged>>
        BY <1>1 DEF catalogueState, requestVars, catalogueVars
    <2> QED
        BY <2>1 DEF FlagInv, Knows, Counts, Toggles, Done, Answered, Serial, Overlap,
            IsFlagged, Open, Sent
<1>2. ASSUME NEW r \in Requests, NEW c \in CatalogueCalls, NEW a \in Answers \cup {None}, Began(r, c, a)
      PROVE  FlagInv'
    <2>1. /\ \A x \in Requests \ {r} : call'[x] = call[x] /\ answer'[x] = answer[x] /\ before'[x] = before[x]
          /\ call'[r] = c /\ answer'[r] = a /\ before'[r] = Answered
          /\ answer[r] = None /\ UNCHANGED flagged
        BY <1>2 DEF Began, CatalogueTypeInv, RequestsOK, catalogueVars
    <2>2. \A x, flag : Toggles(x, flag)' = Toggles(x, flag)
        BY <1>0, <1>2, <2>1, TogglesStay DEF Began, Read
    <2>3. ASSUME NEW q \in Open', NEW x, NEW flag
          PROVE  Knows(q, x, flag)'
        <3>1. CASE q = r
            BY <1>2, <2>1, <3>1 DEF Began, Read, Knows, IsFlagged
        <3>2. CASE q # r
            <4>1. q \in Open /\ call'[q] = call[q] /\ before'[q] = before[q]
                BY <2>1, <2>3, <3>2 DEF Open, Sent, Answered
            <4> QED
                BY <2>1, <2>2, <4>1 DEF FlagInv, Knows, IsFlagged
        <3> QED
            BY <3>1, <3>2
    <2>4. ASSUME NEW x \in Requests, NEW flag \in Flags
          PROVE  Counts(x, flag)'
        <3>1. \A q \in Toggles(x, flag) : q \in Requests \ {r}
            BY <1>0, <2>1 DEF Toggles, Done, Answered
        <3>2. Serial(Toggles(x, flag))' => Serial(Toggles(x, flag))
            BY <2>1, <2>2, <3>1 DEF Serial, Overlap
        <3> QED
            BY <2>1, <2>2, <3>2 DEF FlagInv, Counts, IsFlagged
    <2> QED
        BY <2>3, <2>4 DEF FlagInv
<1>3. ASSUME NEW r \in Requests, Ending(r), \A x, flag : Toggles(x, flag)' = Toggles(x, flag),
             UNCHANGED flagged
      PROVE  FlagInv'
    <2>1. UNCHANGED <<call, before>> /\ Open' \subseteq Open
        BY <1>0, <1>3, EndEffect DEF Open, Sent, Answered
    <2> QED
        BY <1>3, <2>1 DEF FlagInv, Knows, Counts, Serial, Overlap, IsFlagged
<1>4. ASSUME NEW r \in Requests, Ending(r), answer'[r] # "ok" \/ call[r].op # "toggle"
      PROVE  FlagInv'
    <2>1. UNCHANGED flagged
        BY <1>4, EndEffect DEF Ending, CommitInsert, CommitToggle, CommitDelete,
            CatalogueFails, catalogueVars,
           End, CatalogueTypeInv, RequestsOK
    <2>2. \A x, flag : Toggles(x, flag)' = Toggles(x, flag)
        BY <1>0, <1>4, EndEffect, TogglesStay
    <2> QED
        BY <1>3, <1>4, <2>1, <2>2
<1>5. ASSUME NEW r \in Requests, Ending(r), answer'[r] = "ok", call[r].op = "toggle"
      PROVE  FlagInv'
    <2> DEFINE x == call[r].row
               flag == call[r].flag
               f == <<flag, x>>
               T == Toggles(x, flag)
    <2>0. /\ r \in Open /\ answer[r] = None /\ UNCHANGED <<call, before>>
          /\ \A q \in Requests \ {r} : answer'[q] = answer[q]
          /\ Open' \subseteq Open \ {r}
        BY <1>0, <1>5, EndEffect DEF Open, Sent, Answered
    <2>1. /\ call[r].on => flagged' = flagged \ {f}
          /\ ~call[r].on => f \notin flagged /\ flagged' = flagged \cup {f}
        BY <1>0, <1>5, <2>0 DEF Ending, CommitInsert, CommitToggle, CommitDelete,
            CatalogueFails, End,
           CatalogueTypeInv, RequestsOK, Answers
    <2>2. r \notin T /\ \A y, g : y = x /\ g = flag => Toggles(y, g)' = T \cup {r}
        BY <1>0, <1>5, <2>0 DEF Toggles, Done, Answered
    <2>3. \A y, g : <<g, y>> # f => /\ Toggles(y, g)' = Toggles(y, g)
                                    /\ IsFlagged(g, y)' <=> IsFlagged(g, y)
        BY <1>0, <1>5, <2>0, <2>1 DEF Toggles, Done, Answered, IsFlagged
    <2>4. ASSUME NEW q \in Open', NEW y, NEW g
          PROVE  Knows(q, y, g)'
        <3>1. q \in Open /\ q # r
            BY <2>0
        <3>2. r \notin before[q]
            BY <2>0, <3>1 DEF BeforeInv, Answered, Open, Sent
        <3>3. CASE y = x /\ g = flag
            BY <2>0, <2>2, <3>1, <3>2, <3>3 DEF FlagInv, Knows
        <3>4. CASE ~(y = x /\ g = flag)
            BY <2>0, <2>3, <3>1, <3>4 DEF FlagInv, Knows
        <3> QED
            BY <3>3, <3>4
    <2>5. ASSUME flag \in Flags, Serial(T \cup {r})
          PROVE  f \in flagged' <=> Cardinality(T \cup {r}) % 2 = 1
        <3>1. Serial(T)
            BY <2>5 DEF Serial
        <3>2. T \subseteq before[r]
            <4>1. \A s \in T : s # r /\ s \in Requests /\ ~Overlap(r, s)
                BY <2>2, <2>5 DEF Serial, Toggles, Done, Answered
            <4>2. \A s \in Requests : r \notin before[s]
                BY <2>0 DEF BeforeInv, Answered
            <4> QED
                BY <4>1, <4>2 DEF Overlap
        <3>3. call[r].on \in BOOLEAN /\ (call[r].on <=> f \in flagged)
            BY <1>5, <2>0, <3>2 DEF FlagInv, Knows, IsFlagged
        <3>4. f \in flagged' <=> ~(f \in flagged)
            BY <2>1, <3>3
        <3>5. IsFiniteSet(T) /\ Cardinality(T) \in Nat
            <4>1. T \subseteq Requests
                BY DEF Toggles, Done, Answered
            <4> QED
                BY <1>0, <4>1, FS_Subset, FS_CardinalityType
        <3>6. Cardinality(T \cup {r}) = Cardinality(T) + 1
            BY <2>2, <3>5, FS_AddElement
        <3>7. f \in flagged <=> Cardinality(T) % 2 = 1
            <4>1. x \in Requests
                BY <1>5, <2>0 DEF StoredInv
            <4> QED
                BY <2>5, <3>1, <4>1 DEF FlagInv, Counts, IsFlagged
        <3> QED
            BY <3>4, <3>5, <3>6, <3>7, Parity
    <2>6. ASSUME NEW y \in Requests, NEW g \in Flags
          PROVE  Counts(y, g)'
        <3>1. CASE y = x /\ g = flag
            <4>1. Toggles(y, g)' = T \cup {r} /\ <<g, y>> = f
                BY <2>2, <3>1
            <4>2. Serial(Toggles(y, g))' => Serial(T \cup {r})
                BY <2>0, <4>1 DEF Serial, Overlap
            <4>3. IsFlagged(g, y)' <=> f \in flagged'
                BY <4>1 DEF IsFlagged
            <4>4. flag \in Flags
                BY <3>1
            <4> HIDE DEF f, T
            <4> QED
                BY <2>5, <4>1, <4>2, <4>3, <4>4 DEF Counts
        <3>2. CASE ~(y = x /\ g = flag)
            <4>1. Serial(Toggles(y, g))' => Serial(Toggles(y, g))
                BY <2>0, <2>3, <3>2 DEF Serial, Overlap
            <4> QED
                BY <2>3, <3>2, <4>1 DEF FlagInv, Counts
        <3> QED
            BY <3>1, <3>2
    <2> QED
        BY <2>4, <2>6 DEF FlagInv
<1> QED
    BY <1>1, <1>2, <1>4, <1>5, StepKinds

-----------------------------------------------------------------------------
(* The theorems.                                                           *)

\* The invariant holds at first.
LEMMA CatalogueInitInv == CatalogueInit => CatalogueInv
<1> SUFFICES ASSUME CatalogueInit PROVE CatalogueInv
    OBVIOUS
<1> USE DEF CatalogueInit, NoRequests
<1>1. CatalogueTypeInv
    BY DEF CatalogueTypeInv, RequestsOK
<1>2. StoredInv /\ FlaggedInv /\ NameInv /\ BeforeInv
    BY DEF StoredInv, FlaggedInv, NameInv, SameName, BeforeInv, Open, Sent, Answered
<1>3. \A x, flag : Toggles(x, flag) = {}
    BY DEF Toggles, Done, Answered
<1>4. Cardinality({}) % 2 # 1
    BY FS_EmptySet
<1>5. FlagInv
    BY <1>3, <1>4 DEF FlagInv, Counts, IsFlagged, Open, Sent
<1> QED
    BY <1>1, <1>2, <1>5 DEF CatalogueInv

\* The invariant is inductive.
THEOREM CatalogueInvariance == CatalogueSpec => []CatalogueInv
<1>1. CatalogueInv /\ [CatalogueNext]_catalogueState => CatalogueInv'
    BY CatalogueTypeStep, RowStep, FlaggedStep, NameStep, FlagStep DEF CatalogueInv
<1> QED
    BY CatalogueInitInv, <1>1, PTL DEF CatalogueSpec

\* Every row keeps its type: one that is stored was inserted by a request that
\* has been answered, and only repositories are flagged.
THEOREM CatalogueIsTyped == CatalogueSpec => []CatalogueOK
<1>1. CatalogueInv => CatalogueOK
    <2> SUFFICES ASSUME CatalogueInv PROVE CatalogueOK
        OBVIOUS
    <2>1. flagged \subseteq Flags \X Requests
        BY DEF CatalogueInv, FlaggedInv
    <2> QED
        BY <2>1 DEF CatalogueInv, CatalogueTypeInv, StoredInv, FlaggedInv, CatalogueOK
<1> QED
    BY CatalogueInvariance, <1>1, PTL

\* No two rows of a user share a name, deleted ones included, and a name is
\* refused only because a row has it.
THEOREM NamesAreUnique == CatalogueSpec => []NameHasOneRow
<1>1. CatalogueInv => NameHasOneRow
    <2> SUFFICES ASSUME CatalogueInv, NEW r \in Sent, call[r].op = "insert"
                 PROVE  LET c    == call[r]
                            rows == Keyed(Owned(c.user, c.table), c.key) IN
                        /\ Cardinality(rows) <= 1
                        /\ answer[r] = "conflict" => rows # {}
        BY DEF NameHasOneRow
    <2> DEFINE rows == Keyed(Owned(call[r].user, call[r].table), call[r].key)
    <2>1. \A x \in Requests : x \in rows <=> SameName(x, call[r])
        BY DEF Keyed, Owned, SameName
    <2>2. \A x, y \in rows : x = y
        BY <2>1 DEF CatalogueInv, NameInv, SameName, Keyed, Owned
    <2>3. Cardinality(rows) <= 1
        <3>1. CASE rows = {}
            BY <3>1, FS_EmptySet
        <3>2. CASE rows # {}
            <4> HIDE DEF rows
            <4>1. PICK x \in rows : TRUE
                BY <3>2
            <4>2. rows = {x}
                BY <2>2, <4>1
            <4>3. Cardinality({x}) = 1
                BY FS_Singleton
            <4> QED
                BY <4>2, <4>3
        <3> QED
            BY <3>1, <3>2
    <2>4. answer[r] = "conflict" => rows # {}
        BY <2>1 DEF CatalogueInv, NameInv
    <2> QED
        BY <2>3, <2>4
<1> QED
    BY CatalogueInvariance, <1>1, PTL

\* A flag is set after an odd number of toggles that followed one another, and
\* the filtered list shows the repository exactly then.
THEOREM TogglesAreCounted == CatalogueSpec => []TogglesCount
<1>1. CatalogueInv => TogglesCount
    <2> SUFFICES ASSUME CatalogueInv, NEW u \in Users, NEW flag \in Flags,
                        NEW x \in Visible(u, "repositories"), Serial(Toggles(x, flag))
                 PROVE  ToOut(x) \in ListRepositories(u, {flag}) <=> Cardinality(Toggles(x, flag)) % 2 = 1
        BY DEF TogglesCount, Toggles
    <2>1. x \in Requests
        BY DEF Visible, Owned
    <2>2. IsFlagged(flag, x) <=> Cardinality(Toggles(x, flag)) % 2 = 1
        BY <2>1 DEF CatalogueInv, FlagInv, Counts
    <2>3. \A y : ToOut(y) = ToOut(x) => y = x
        BY DEF ToOut
    <2>4. ToOut(x) \in ListRepositories(u, {flag}) <=> IsFlagged(flag, x)
        BY <2>3 DEF ListRepositories, ListForUser
    <2> QED
        BY <2>2, <2>4
<1> QED
    BY CatalogueInvariance, <1>1, PTL
=============================================================================
