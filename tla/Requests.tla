------------------------------ MODULE Requests -------------------------------
(***************************************************************************)
(* The API requests of a client, each with a database session of its own   *)
(* (get_db): it begins, reads what it needs, and ends with its commit or   *)
(* with a rollback. Postgres runs READ COMMITTED: a request sees what has  *)
(* been committed when it reads, and nothing of an open one.               *)
(***************************************************************************)
EXTENDS NullValue, Naturals, FiniteSets

CONSTANTS
    Requests,  \* the requests ever sent, numbered as they begin, which is the order
               \* of created_at of the rows they insert; also the ids of these rows
    Users      \* the users who send them

Answers == {"ok", "not_found", "bad_request", "conflict", "error"}

ASSUME RequestsAssumption ==
    Requests \subseteq Nat /\ IsFiniteSet(Requests) /\ None \notin Requests /\ None \notin Answers

VARIABLES
    call,    \* what a request asks for and what it has read
    answer,  \* its answer, None while it is open
    before   \* the requests that had been answered when it began

requestVars == <<call, answer, before>>

RequestsOK ==
    /\ answer \in [Requests -> Answers \cup {None}]
    /\ before \in [Requests -> SUBSET Requests]
    /\ \A r \in Requests : call[r] = None => answer[r] = None

NoRequests ==
    /\ call = [r \in Requests |-> None]
    /\ answer = [r \in Requests |-> None]
    /\ before = [r \in Requests |-> {}]

Sent     == {r \in Requests : call[r] # None}
Answered == {r \in Requests : answer[r] # None}
Open     == Sent \ Answered

\* Requests that found each other open.
Overlap(r, s) == r # s /\ r \notin before[s] /\ s \notin before[r]

\* The requests of a set follow one another.
Serial(S) == \A r, s \in S : ~Overlap(r, s)

Begin(r, c) ==
    /\ call[r] = None
    /\ \A s \in Requests : s < r => call[s] # None
    /\ call' = [call EXCEPT ![r] = c]
    /\ before' = [before EXCEPT ![r] = Answered]

\* The request has read what it needs and goes on.
Receive(r, c) == Begin(r, c) /\ UNCHANGED answer

\* The request is answered from what it has read, without a write.
AnswerAtOnce(r, c, a) == Begin(r, c) /\ answer' = [answer EXCEPT ![r] = a]

End(r, a) ==
    /\ r \in Open
    /\ answer' = [answer EXCEPT ![r] = a]
    /\ UNCHANGED <<call, before>>
=============================================================================
