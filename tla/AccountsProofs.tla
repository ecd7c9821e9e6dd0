---------------------------- MODULE AccountsProofs -----------------------------
(***************************************************************************)
(* The properties of Accounts, for any numbers of users, identities,       *)
(* secrets and concurrent requests.                                        *)
(***************************************************************************)
EXTENDS Accounts, TLAPS

-----------------------------------------------------------------------------
(* The inductive invariant: what is known of secrets.                      *)

Issuing(r) == req[r].op \in {"register", "resend", "forgot"}

\* What a request has loaded of a secret stays true of it: the one it will
\* insert is not stored yet, the one it presents is of the right kind and, for
\* a code, of the user it is presented for.
Held(r) ==
    /\ Issuing(r) => req[r].secret \in Secrets /\ req[r].secret <= numbered
                     /\ kind[req[r].secret] = "none"
    /\ req[r].op = "verify" => req[r].secret \in Secrets /\ kind[req[r].secret] = "code"
                               /\ owner[req[r].secret] = req[r].user
    /\ req[r].op = "reset" => req[r].secret \in Secrets /\ kind[req[r].secret] = "token"
    /\ req[r].op = "callback" => req[r].secret \in Secrets /\ kind[req[r].secret] = "state"
    /\ req[r].op = "create" => req[r].identity \in Identities

HeldInv == \A r \in Requests : Held(r)

\* A number is given to one request, and a secret is stored under its own.
NumberInv ==
    /\ \A s \in Secrets : kind[s] # "none" => s <= numbered
    /\ \A r, q \in Requests : Issuing(r) /\ Issuing(q) /\ req[r].secret = req[q].secret => r = q

\* Only stored secrets are spent, and a spent state is deleted.
SpentInv == \A s \in spent : kind[s] # "none" /\ (kind[s] = "state" => s \in gone)

-----------------------------------------------------------------------------
(* What a step does to the requests.                                       *)

\* The fields a request carries from one step to the next.
SameRequest(q) ==
    /\ req'[q].op = req[q].op /\ req'[q].user = req[q].user
    /\ req'[q].secret = req[q].secret /\ req'[q].email = req[q].email
    /\ req'[q].name = req[q].name /\ req'[q].identity = req[q].identity

\* Idle is a request.
LEMMA IdleType == Idle \in ReqType /\ Idle.op = "idle" /\ Idle.secret = 0 /\ Idle.user = None
BY DEF Idle, ReqType, Ops

\* A request stays itself when it is marked as raced.
LEMMA RacedType ==
    ASSUME NEW q \in ReqType
    PROVE  LET p == [q EXCEPT !.raced = TRUE] IN
           /\ p \in ReqType /\ p.raced
           /\ p.op = q.op /\ p.user = q.user /\ p.secret = q.secret
           /\ p.email = q.email /\ p.name = q.name /\ p.identity = q.identity
BY DEF ReqType

\* Closing a request leaves the others as they are.
LEMMA CloseEffect ==
    ASSUME req \in [Requests -> ReqType], NEW r \in Requests, NEW a, Close(r, a)
    PROVE  /\ req' \in [Requests -> ReqType] /\ answer' = a
           /\ req'[r] = Idle
           /\ \A q \in Requests \ {r} : req'[q] = req[q]
BY IdleType DEF Close

\* Closing a request that inserts marks those in progress.
LEMMA CloseInsertingEffect ==
    ASSUME req \in [Requests -> ReqType], NEW r \in Requests, CloseInserting(r)
    PROVE  /\ req' \in [Requests -> ReqType] /\ answer' = "ok"
           /\ req'[r] = Idle
           /\ \A q \in Requests \ {r} :
                 /\ req[q].op = "idle" => req'[q] = Idle
                 /\ req[q].op # "idle" => req'[q].raced /\ SameRequest(q)
<1>1. \A q \in Requests : req[q] \in ReqType
    OBVIOUS
<1>2. \A q \in Requests : req'[q] \in ReqType
    BY <1>1, IdleType, RacedType DEF CloseInserting
<1>3. req' \in [Requests -> ReqType] /\ answer' = "ok" /\ req'[r] = Idle
    BY <1>2, IdleType DEF CloseInserting
<1>4. ASSUME NEW q \in Requests \ {r}
      PROVE  /\ req[q].op = "idle" => req'[q] = Idle
             /\ req[q].op # "idle" => req'[q].raced /\ SameRequest(q)
    BY <1>1, RacedType DEF CloseInserting, SameRequest
<1> QED
    BY <1>3, <1>4

-----------------------------------------------------------------------------
(* Types.                                                                  *)

\* Opening a request with a well-formed record.
LEMMA OpenEffect ==
    ASSUME req \in [Requests -> ReqType], NEW r \in Requests, NEW p \in ReqType, Open(r, p)
    PROVE  /\ req' \in [Requests -> ReqType] /\ answer' = "none"
           /\ req[r].op = "idle" /\ req'[r] = p
           /\ \A q \in Requests \ {r} : req'[q] = req[q]
BY DEF Open

\* The next number is a secret.
LEMMA NextSecret == ASSUME TypeOK, NextNumber
                    PROVE  numbered + 1 \in Secrets /\ numbered' \in 0..MaxSecrets /\ numbered' = numbered + 1
BY AccountsAssumption DEF AccountsAssumption, TypeOK, NextNumber, Secrets

\* Steps that only read: those that begin a request or answer it at once.
Reading(r) ==
    \/ BeginRegister(r) \/ BeginIssue(r, "resend") \/ BeginIssue(r, "forgot")
    \/ BeginVerify(r) \/ Login(r) \/ BeginReset(r) \/ BeginChange(r) \/ BeginCallback(r)

\* What Reading(r) makes of the request: what it will insert or has found.
Opened(r) ==
    \/ req'[r].op = "change"
    \/ /\ Issuing(r)' /\ numbered' = numbered + 1 /\ req'[r].secret = numbered + 1
       /\ req'[r].op = "register" => ~KeysTaken(req'[r].email, req'[r].name)
    \/ req'[r].op = "verify" /\ req'[r].secret \in LatestCode(req'[r].user)
    \/ req'[r].op = "reset" /\ req'[r].secret \in Stored("token") \ spent
    \/ req'[r].op = "callback" /\ req'[r].secret \in Stored("state")

Begun(r) ==
    /\ req' \in [Requests -> ReqType]
    /\ \A q \in Requests \ {r} : req'[q] = req[q]
    /\ numbered' \in 0..MaxSecrets /\ answer' \in {"none", "ok", "taken", "refused", "type_error"}
    /\ UNCHANGED <<aware, userVars, secretVars>>
    /\ req[r].op = "idle"
    /\ \/ req' = req /\ numbered' = numbered
       \/ Opened(r) /\ (numbered' = numbered \/ Issuing(r)')

\* A reading step answers at once or opens its request.
LEMMA ReadingEffect ==
    ASSUME TypeOK, NEW r \in Requests, Reading(r)
    PROVE  Begun(r)
<1>1. req \in [Requests -> ReqType] /\ numbered \in 0..MaxSecrets
    BY DEF TypeOK
<1>2. ASSUME NEW a \in {"ok", "taken", "refused", "type_error"}, Reply(r, a), UNCHANGED numbered,
             UNCHANGED <<aware, userVars, secretVars>>
      PROVE  Begun(r)
    BY <1>1, <1>2 DEF Begun, Reply
<1>3. ASSUME NEW x \in ReqType, Open(r, x), UNCHANGED <<aware, userVars, secretVars>>,
             numbered' = numbered \/ (NextNumber /\ x.op \in {"register", "resend", "forgot"}),
             req'[r] = x => Opened(r)
      PROVE  Begun(r)
    <2>1. numbered' \in 0..MaxSecrets
        BY <1>1, <1>3, NextSecret
    <2> QED
        BY <1>1, <1>3, <2>1, OpenEffect DEF Begun, Issuing
<1>4. CASE BeginRegister(r)
    <2> SUFFICES ASSUME NEW e \in Emails, NEW n \in Names, ~KeysTaken(e, n), NextNumber,
                        Open(r, [Idle EXCEPT !.op = "register", !.email = e, !.name = n,
                                             !.secret = numbered + 1]),
                        UNCHANGED <<aware, userVars, secretVars>>
                 PROVE  Begun(r)
        BY <1>2, <1>4 DEF BeginRegister
    <2> DEFINE x == [Idle EXCEPT !.op = "register", !.email = e, !.name = n, !.secret = numbered + 1]
    <2>1. numbered + 1 \in Secrets /\ numbered' = numbered + 1
        BY NextSecret
    <2>2. x \in ReqType /\ x.op = "register" /\ x.email = e /\ x.name = n /\ x.secret = numbered + 1
        BY <2>1 DEF ReqType, Idle, Ops
    <2>3. Open(r, x)
        OBVIOUS
    <2> HIDE DEF x
    <2> QED
        BY <1>3, <2>1, <2>2, <2>3 DEF Opened, Issuing
<1>5. ASSUME NEW op \in {"resend", "forgot"}, BeginIssue(r, op)
      PROVE  Begun(r)
    <2> SUFFICES ASSUME NEW u \in Users, NextNumber,
                        Open(r, [Idle EXCEPT !.op = op, !.user = u, !.secret = numbered + 1]),
                        UNCHANGED <<aware, userVars, secretVars>>
                 PROVE  Begun(r)
        BY <1>2, <1>5 DEF BeginIssue, ByEmail
    <2> DEFINE x == [Idle EXCEPT !.op = op, !.user = u, !.secret = numbered + 1]
    <2>1. numbered + 1 \in Secrets /\ numbered' = numbered + 1
        BY NextSecret
    <2>2. x \in ReqType /\ x.op = op /\ x.secret = numbered + 1
        BY <2>1 DEF ReqType, Idle, Ops
    <2>3. Open(r, x)
        OBVIOUS
    <2> HIDE DEF x
    <2> QED
        BY <1>3, <2>1, <2>2, <2>3 DEF Opened, Issuing
<1>6. CASE BeginVerify(r)
    <2> SUFFICES ASSUME NEW u \in Users, NEW s \in Secrets, s \in LatestCode(u),
                        Open(r, [Idle EXCEPT !.op = "verify", !.user = u, !.secret = s]),
                        UNCHANGED <<aware, userVars, secretVars, numbered>>
                 PROVE  Begun(r)
        BY <1>2, <1>6 DEF BeginVerify, ByEmail
    <2> DEFINE x == [Idle EXCEPT !.op = "verify", !.user = u, !.secret = s]
    <2>1. x \in ReqType /\ x.op = "verify" /\ x.user = u /\ x.secret = s
        BY DEF ReqType, Idle, Ops
    <2>2. Open(r, x)
        OBVIOUS
    <2> HIDE DEF x
    <2> QED
        BY <1>3, <2>1, <2>2 DEF Opened
<1>7. CASE Login(r)
    BY <1>2, <1>7 DEF Login
<1>8. CASE BeginReset(r)
    <2> SUFFICES ASSUME NEW s \in Secrets, s \in Stored("token") \ spent,
                        Open(r, [Idle EXCEPT !.op = "reset", !.user = owner[s], !.secret = s]),
                        UNCHANGED <<aware, userVars, secretVars, numbered>>
                 PROVE  Begun(r)
        BY <1>2, <1>8 DEF BeginReset
    <2> DEFINE x == [Idle EXCEPT !.op = "reset", !.user = owner[s], !.secret = s]
    <2>1. owner[s] \in Users \cup {None}
        BY DEF TypeOK
    <2>2. x \in ReqType /\ x.op = "reset" /\ x.secret = s
        BY <2>1 DEF ReqType, Idle, Ops
    <2>3. Open(r, x)
        OBVIOUS
    <2> HIDE DEF x
    <2> QED
        BY <1>3, <2>2, <2>3 DEF Opened
<1>9. CASE BeginChange(r)
    <2> SUFFICES ASSUME NEW u \in Users, Open(r, [Idle EXCEPT !.op = "change", !.user = u]),
                        UNCHANGED <<aware, userVars, secretVars, numbered>>
                 PROVE  Begun(r)
        BY <1>2, <1>9 DEF BeginChange, GetCurrentUser
    <2> DEFINE x == [Idle EXCEPT !.op = "change", !.user = u]
    <2>1. x \in ReqType /\ x.op = "change"
        BY DEF ReqType, Idle, Ops
    <2>2. Open(r, x)
        OBVIOUS
    <2> HIDE DEF x
    <2> QED
        BY <1>3, <2>1, <2>2 DEF Opened
<1>10. CASE BeginCallback(r)
    <2> SUFFICES ASSUME NEW s \in Secrets, s \in Stored("state"),
                        Open(r, [Idle EXCEPT !.op = "callback", !.secret = s]),
                        UNCHANGED <<aware, userVars, secretVars, numbered>>
                 PROVE  Begun(r)
        BY <1>2, <1>10 DEF BeginCallback
    <2> DEFINE x == [Idle EXCEPT !.op = "callback", !.secret = s]
    <2>1. x \in ReqType /\ x.op = "callback" /\ x.secret = s
        BY DEF ReqType, Idle, Ops
    <2>2. Open(r, x)
        OBVIOUS
    <2> HIDE DEF x
    <2> QED
        BY <1>3, <2>1, <2>2 DEF Opened
<1> QED
    BY <1>4, <1>5, <1>6, <1>7, <1>8, <1>9, <1>10 DEF Reading

\* The branches of LoadProfile: what the request goes on with.
LEMMA LoadEffect ==
    ASSUME TypeOK, NEW r \in Requests, LoadProfile(r)
    PROVE  /\ req' \in [Requests -> ReqType] /\ answer' = "none"
           /\ UNCHANGED <<aware, userVars, secretVars, numbered>>
           /\ \A q \in Requests \ {r} : req'[q] = req[q]
           /\ req[r].op = "profile"
           /\ \/ req'[r].op = "sign_in"
              \/ req'[r].op = "link" /\ ~IsLinked(req'[r].identity)
              \/ /\ req'[r].op = "create" /\ ~IsLinked(req'[r].identity)
                 /\ req'[r].identity \in Identities
                 /\ ByEmail(req'[r].email) = {}
                 /\ req'[r].name[1] \in LongLogins \/ ByName(req'[r].name) = {}
<1>1. PICK p \in Profiles :
          LET q == [Idle EXCEPT !.identity = p.identity, !.email = p.email]
              Go(next) == req' = [req EXCEPT ![r] = next]
          IN  \/ /\ IsLinked(p.identity)
                 /\ Go([q EXCEPT !.op = "sign_in", !.user = linked[p.identity]])
              \/ /\ ~IsLinked(p.identity)
                 /\ \E u \in ByEmail(p.email) : Go([q EXCEPT !.op = "link", !.user = u])
              \/ /\ ~IsLinked(p.identity) /\ ByEmail(p.email) = {}
                 /\ \E n \in UsernamesFor(p.login) :
                       Go([q EXCEPT !.op = "create", !.name = n])
    BY DEF LoadProfile
<1>2. p.identity \in Identities /\ p.email \in Emails
    BY DEF Profiles
<1> DEFINE q == [Idle EXCEPT !.identity = p.identity, !.email = p.email]
<1>3. \A n \in Names : [q EXCEPT !.op = "create", !.name = n] \in ReqType
    BY <1>2 DEF ReqType, Idle, Ops
<1>4. /\ answer' = "none" /\ req[r].op = "profile"
      /\ UNCHANGED <<aware, userVars, secretVars, numbered>>
    BY DEF LoadProfile
<1>5. CASE /\ IsLinked(p.identity)
           /\ req' = [req EXCEPT ![r] = [q EXCEPT !.op = "sign_in", !.user = linked[p.identity]]]
    <2>1. linked[p.identity] \in Users \cup {None}
        BY <1>2 DEF TypeOK
    <2>2. [q EXCEPT !.op = "sign_in", !.user = linked[p.identity]].op = "sign_in"
        BY DEF Idle
    <2>3. [q EXCEPT !.op = "sign_in", !.user = linked[p.identity]] \in ReqType
        BY <1>2, <2>1 DEF ReqType, Idle, Ops
    <2> HIDE DEF q
    <2>4. req' \in [Requests -> ReqType] /\ req'[r].op = "sign_in"
          /\ \A x \in Requests \ {r} : req'[x] = req[x]
        BY <1>5, <2>2, <2>3 DEF TypeOK
    <2> QED
        BY <1>4, <2>4
<1>6. ASSUME ~IsLinked(p.identity), NEW u \in ByEmail(p.email),
             req' = [req EXCEPT ![r] = [q EXCEPT !.op = "link", !.user = u]]
      PROVE  /\ req' \in [Requests -> ReqType]
             /\ \A x \in Requests \ {r} : req'[x] = req[x]
             /\ req'[r].op = "link" /\ ~IsLinked(req'[r].identity)
    <2>1. u \in Users
        BY DEF ByEmail
    <2>2. [q EXCEPT !.op = "link", !.user = u].op = "link"
          /\ [q EXCEPT !.op = "link", !.user = u].identity = p.identity
        BY DEF Idle
    <2>3. [q EXCEPT !.op = "link", !.user = u] \in ReqType
        BY <1>2, <2>1 DEF ReqType, Idle, Ops
    <2> HIDE DEF q
    <2> QED
        BY <1>6, <2>2, <2>3 DEF TypeOK
<1>7. ASSUME ~IsLinked(p.identity), ByEmail(p.email) = {}, NEW n \in UsernamesFor(p.login),
             req' = [req EXCEPT ![r] = [q EXCEPT !.op = "create", !.name = n]]
      PROVE  /\ req' \in [Requests -> ReqType]
             /\ \A x \in Requests \ {r} : req'[x] = req[x]
             /\ req'[r].op = "create" /\ ~IsLinked(req'[r].identity)
             /\ req'[r].identity \in Identities
             /\ ByEmail(req'[r].email) = {}
             /\ req'[r].name[1] \in LongLogins \/ ByName(req'[r].name) = {}
    <2>1. n \in Names /\ (n[1] \in LongLogins \/ ByName(n) = {})
        BY <1>7 DEF UsernamesFor
    <2>2. /\ [q EXCEPT !.op = "create", !.name = n].op = "create"
          /\ [q EXCEPT !.op = "create", !.name = n].identity = p.identity
          /\ [q EXCEPT !.op = "create", !.name = n].email = p.email
          /\ [q EXCEPT !.op = "create", !.name = n].name = n
        BY DEF Idle
    <2> QED
        BY <1>2, <1>3, <1>7, <2>1, <2>2 DEF TypeOK
<1> QED
    BY <1>1, <1>4, <1>5, <1>6, <1>7

\* Every step keeps the types.
LEMMA TypeStep == TypeOK /\ HeldInv /\ [Next]_vars => TypeOK'
<1> SUFFICES ASSUME TypeOK, HeldInv, [Next]_vars PROVE TypeOK'
    OBVIOUS
<1>0. req \in [Requests -> ReqType] /\ \A r \in Requests : req[r] \in ReqType
    BY DEF TypeOK
<1> USE DEF userVars, secretVars
<1>1. CASE UNCHANGED vars
    BY <1>1 DEF vars, TypeOK
<1>2. ASSUME NEW r \in Requests, Reading(r)
      PROVE  TypeOK'
    BY <1>2, ReadingEffect DEF Begun, TypeOK
<1>3. ASSUME NEW r \in Requests, CommitRegister(r)
      PROVE  TypeOK'
    <2>1. CASE Close(r, "conflict") /\ UNCHANGED <<aware, numbered, userVars, secretVars>>
        BY <1>0, <2>1, CloseEffect DEF TypeOK
    <2>2. CASE \E u \in Users, p \in Passwords :
               /\ CreateUser(u, req[r].email, req[r].name, p, FALSE)
               /\ InsertSecret(req[r].secret, "code", u)
               /\ CloseInserting(r)
               /\ UNCHANGED <<aware, numbered, linked>>
        <3>1. req[r].email \in Emails \cup {None} /\ req[r].name \in Names \cup {None}
            BY <1>0 DEF ReqType
        <3>2. req' \in [Requests -> ReqType] /\ answer' = "ok"
            BY <1>0, <2>2, CloseInsertingEffect
        <3>3. /\ email' \in [Users -> Emails \cup {None}]
              /\ name' \in [Users -> Names \cup {None}]
              /\ password' \in [Users -> Passwords \cup {None}]
              /\ verified' \in [Users -> BOOLEAN]
            <4>1. PICK u \in Users, p \in Passwords : CreateUser(u, req[r].email, req[r].name, p, FALSE)
                BY <2>2
            <4>2. /\ email' \in [Users -> Emails \cup {None}]
                  /\ name' \in [Users -> Names \cup {None}]
                BY <3>1, <4>1 DEF TypeOK, CreateUser
            <4>3. /\ password' \in [Users -> Passwords \cup {None}]
                  /\ verified' \in [Users -> BOOLEAN]
                BY <4>1 DEF TypeOK, CreateUser
            <4> QED
                BY <4>2, <4>3
        <3>4. /\ kind' \in [Secrets -> {"none", "code", "token", "state"}]
              /\ owner' \in [Secrets -> Users \cup {None}]
              /\ UNCHANGED <<spent, expired, gone>>
            <4>1. PICK u \in Users : InsertSecret(req[r].secret, "code", u)
                BY <2>2
            <4> QED
                BY <4>1 DEF TypeOK, InsertSecret
        <3> QED
            BY <2>2, <3>2, <3>3, <3>4 DEF TypeOK
    <2> QED
        BY <1>3, <2>1, <2>2 DEF CommitRegister
<1>4. ASSUME NEW r \in Requests, CommitIssue(r, "resend", "code") \/ CommitIssue(r, "forgot", "token")
      PROVE  TypeOK'
    <2>1. req[r].user \in Users \cup {None}
        BY <1>0 DEF ReqType
    <2> QED
        BY <1>0, <1>4, <2>1, CloseEffect DEF TypeOK, CommitIssue, InsertSecret
<1>5. ASSUME NEW r \in Requests, CommitVerify(r) \/ CommitReset(r) \/ CommitChange(r)
      PROVE  TypeOK'
    <2>1. req[r].op \in {"verify", "reset"} => req[r].secret \in Secrets
        BY DEF HeldInv, Held
    <2>2. CASE CommitVerify(r)
        BY <1>0, <2>1, <2>2, CloseEffect DEF TypeOK, CommitVerify
    <2>3. CASE CommitReset(r)
        BY <1>0, <2>1, <2>3, CloseEffect DEF TypeOK, CommitReset
    <2>4. CASE CommitChange(r)
        BY <1>0, <2>4, CloseEffect DEF TypeOK, CommitChange
    <2> QED
        BY <1>5, <2>2, <2>3, <2>4
<1>6. ASSUME NEW r \in Requests, Authorize(r)
      PROVE  TypeOK'
    BY <1>0, <1>6, NextSecret DEF TypeOK, Authorize, Reply, InsertSecret
<1>7. ASSUME NEW r \in Requests, TakeState(r)
      PROVE  TypeOK'
    <2>1. req[r].secret \in Secrets
        BY <1>7 DEF HeldInv, Held, TakeState
    <2>2. [Idle EXCEPT !.op = "profile"] \in ReqType
        BY DEF ReqType, Idle, Ops
    <2> QED
        BY <1>0, <1>7, <2>1, <2>2 DEF TypeOK, TakeState
<1>8. ASSUME NEW r \in Requests, LoadProfile(r)
      PROVE  TypeOK'
    BY <1>0, <1>8, LoadEffect DEF TypeOK
<1>9. ASSUME NEW r \in Requests, CommitSignIn(r) \/ Fail(r)
      PROVE  TypeOK'
    BY <1>0, <1>9, CloseEffect DEF TypeOK, CommitSignIn, Fail
<1>10. ASSUME NEW r \in Requests, CommitLink(r)
       PROVE  TypeOK'
    <2>1. req[r].user \in Users \cup {None}
        BY <1>0 DEF ReqType
    <2> QED
        BY <1>0, <1>10, <2>1, CloseEffect, CloseInsertingEffect DEF TypeOK, CommitLink
<1>11. ASSUME NEW r \in Requests, CommitCreate(r)
       PROVE  TypeOK'
    <2>1. req[r].email \in Emails \cup {None} /\ req[r].name \in Names \cup {None}
        BY <1>0 DEF ReqType
    <2>2. /\ email' \in [Users -> Emails \cup {None}] /\ name' \in [Users -> Names \cup {None}]
          /\ password' \in [Users -> Passwords \cup {None}] /\ verified' \in [Users -> BOOLEAN]
        BY <1>11, <2>1 DEF TypeOK, CommitCreate, CreateUser
    <2>3. linked' \in [Identities -> Users \cup {None}]
        BY <1>11 DEF TypeOK, CommitCreate, CreateUser
    <2>4. Close(r, "conflict") \/ CloseInserting(r)
        BY <1>11 DEF CommitCreate
    <2>5. req' \in [Requests -> ReqType] /\ answer' \in {"conflict", "ok"}
        BY <2>4, CloseEffect, CloseInsertingEffect DEF TypeOK
    <2> QED
        BY <1>11, <2>2, <2>3, <2>5 DEF TypeOK, CommitCreate
<1>12. ASSUME NEW s \in Secrets, Expire(s)
       PROVE  TypeOK'
    BY <1>12 DEF TypeOK, Expire
<1>13. CASE CleanupOtps
    BY <1>13 DEF TypeOK, CleanupOtps, Stored
<1>14. CASE Upgrade \/ Downgrade
    BY <1>14 DEF TypeOK, Upgrade, Downgrade
<1> QED
    BY <1>1, <1>2, <1>3, <1>4, <1>5, <1>6, <1>7, <1>8, <1>9, <1>10, <1>11, <1>12, <1>13, <1>14
    DEF Next, Endpoints, Reading

-----------------------------------------------------------------------------
(* Secrets.                                                                *)

SecretsInv == HeldInv /\ NumberInv /\ SpentInv

\* What a request holds stays true while nothing it holds is stored.
LEMMA HeldStays ==
    ASSUME numbered \in Nat, numbered' \in Nat, numbered <= numbered',
           NEW q \in Requests, Held(q), SameRequest(q),
           req[q].secret \in Secrets =>
              kind'[req[q].secret] = kind[req[q].secret] /\ owner'[req[q].secret] = owner[req[q].secret]
    PROVE  Held(q)'
<1>1. Issuing(q)' <=> Issuing(q)
    BY DEF Issuing, SameRequest
<1>2. ASSUME Issuing(q) PROVE req[q].secret <= numbered'
    <2>1. req[q].secret \in Nat /\ req[q].secret <= numbered
        BY <1>2 DEF Held, Secrets
    <2> QED
        BY <2>1
<1> QED
    BY <1>1, <1>2 DEF Held, SameRequest

\* A secret is only ever accepted or stored as its request has loaded it.
LEMMA SecretsStep == TypeOK /\ SecretsInv /\ [Next]_vars => SecretsInv'
<1> SUFFICES ASSUME TypeOK, SecretsInv, [Next]_vars PROVE SecretsInv'
    OBVIOUS
<1>0. req \in [Requests -> ReqType] /\ numbered \in Nat /\ Secrets \subseteq Nat
    BY AccountsAssumption DEF AccountsAssumption, TypeOK, Secrets
<1> USE DEF secretVars, Issuing
<1>1. CASE UNCHANGED vars
    BY <1>1 DEF vars, SecretsInv, HeldInv, Held, NumberInv, SpentInv
<1>2. ASSUME NEW r \in Requests, Reading(r)
      PROVE  SecretsInv'
    <2>1. Begun(r)
        BY <1>2, ReadingEffect
    <2>2. UNCHANGED secretVars /\ numbered' \in Nat /\ numbered <= numbered'
        BY <1>0, <2>1 DEF Begun, Opened
    <2>3. CASE req' = req
        <3>1. HeldInv'
            BY <1>0, <2>2, <2>3, HeldStays DEF SecretsInv, HeldInv, SameRequest
        <3>2. NumberInv'
            BY <1>0, <2>2, <2>3 DEF SecretsInv, NumberInv
        <3> QED
            BY <2>2, <3>1, <3>2 DEF SecretsInv, SpentInv
    <2>4. CASE Opened(r)
        <3>1. CASE Issuing(r)'
            <4>1. numbered' = numbered + 1 /\ req'[r].secret = numbered + 1 /\ numbered + 1 \in Secrets
                BY <1>0, <2>1, <2>4, <3>1, AccountsAssumption DEF Begun, Opened,
                    AccountsAssumption, Secrets
            <4>2. kind[numbered + 1] = "none"
                BY <1>0, <4>1 DEF SecretsInv, NumberInv
            <4>3. \A q \in Requests \ {r} : req'[q] = req[q]
                BY <2>1 DEF Begun
            <4>4. HeldInv'
                <5>1. ASSUME NEW q \in Requests \ {r} PROVE Held(q)'
                    BY <1>0, <2>2, <4>3, HeldStays DEF SecretsInv, HeldInv, SameRequest
                <5>2. Held(r)'
                    BY <1>0, <2>2, <3>1, <4>1, <4>2 DEF Held
                <5> QED
                    BY <5>1, <5>2 DEF HeldInv
            <4>5. NumberInv'
                BY <1>0, <2>2, <4>1, <4>3 DEF SecretsInv, HeldInv, Held, NumberInv
            <4> QED
                BY <2>2, <4>4, <4>5 DEF SecretsInv, SpentInv
        <3>2. CASE ~Issuing(r)'
            <4>1. \A q \in Requests \ {r} : req'[q] = req[q]
                BY <2>1 DEF Begun
            <4>2. /\ req'[r].op = "verify" => req'[r].secret \in Secrets /\ kind[req'[r].secret] = "code"
                                              /\ owner[req'[r].secret] = req'[r].user
                  /\ req'[r].op = "reset" => req'[r].secret \in Secrets /\ kind[req'[r].secret] = "token"
                  /\ req'[r].op = "callback" => req'[r].secret \in Secrets /\ kind[req'[r].secret] = "state"
                  /\ req'[r].op # "create"
                BY <2>4, <3>2 DEF Opened, LatestCode, Stored
            <4>3. ASSUME NEW q \in Requests \ {r} PROVE Held(q)'
                BY <1>0, <2>2, <4>1, HeldStays DEF SecretsInv, HeldInv, SameRequest
            <4>4. Held(r)'
                BY <2>2, <3>2, <4>2 DEF Held
            <4>5. NumberInv'
                BY <1>0, <2>2, <3>2, <4>1 DEF SecretsInv, NumberInv
            <4> QED
                BY <2>2, <4>3, <4>4, <4>5 DEF SecretsInv, HeldInv, SpentInv
        <3> QED
            BY <3>1, <3>2
    <2> QED
        BY <2>1, <2>3, <2>4 DEF Begun
<1>3. ASSUME NEW r \in Requests, Issuing(r), NEW k \in {"code", "token"}, NEW u,
             InsertSecret(req[r].secret, k, u), numbered' = numbered,
             req'[r] = Idle,
             \A q \in Requests \ {r} : SameRequest(q) \/ req'[q] = Idle
      PROVE  SecretsInv'
    <2>1. \A q \in Requests \ {r} : Issuing(q) => req[q].secret # req[r].secret
        BY <1>3 DEF SecretsInv, NumberInv
    <2>2. req[r].secret \in Secrets /\ req[r].secret <= numbered /\ kind[req[r].secret] = "none"
        BY <1>3 DEF SecretsInv, HeldInv, Held
    <2>3. \A s \in Secrets : s # req[r].secret => kind'[s] = kind[s] /\ owner'[s] = owner[s]
        BY <1>3, <2>2 DEF InsertSecret, TypeOK
    <2>4. kind'[req[r].secret] = k
        BY <1>3, <2>2 DEF InsertSecret, TypeOK
    <2>5. HeldInv'
        BY <1>3, <2>1, <2>2, <2>3, IdleType DEF SecretsInv, HeldInv, Held, SameRequest
    <2>6. NumberInv'
        BY <1>3, <2>2, <2>3, IdleType DEF SecretsInv, NumberInv, SameRequest
    <2>7. SpentInv'
        BY <1>3, <2>2, <2>3, <2>4 DEF SecretsInv, SpentInv, InsertSecret, TypeOK
    <2> QED
        BY <2>5, <2>6, <2>7 DEF SecretsInv
<1>4. ASSUME UNCHANGED <<kind, owner, numbered>>,
             \A q \in Requests : SameRequest(q) \/ req'[q].op \notin
                 {"register", "resend", "forgot", "verify", "reset", "callback", "create"},
             SpentInv'
      PROVE  SecretsInv'
    BY <1>4 DEF SecretsInv, HeldInv, Held, NumberInv, SameRequest
<1>5. ASSUME NEW r \in Requests, CommitRegister(r)
      PROVE  SecretsInv'
    <2>1. CASE Close(r, "conflict") /\ UNCHANGED <<secretVars, numbered>>
        BY <1>0, <1>4, <2>1, CloseEffect, IdleType DEF SameRequest, SecretsInv, SpentInv
    <2>2. ASSUME NEW u, InsertSecret(req[r].secret, "code", u), CloseInserting(r), numbered' = numbered
          PROVE  SecretsInv'
        <3>1. req'[r] = Idle /\ \A q \in Requests \ {r} : SameRequest(q) \/ req'[q] = Idle
            BY <1>0, <2>2, CloseInsertingEffect
        <3> QED
            BY <1>3, <1>5, <2>2, <3>1 DEF CommitRegister
    <2> QED
        BY <1>5, <2>1, <2>2 DEF CommitRegister
<1>6. ASSUME NEW r \in Requests, NEW op \in {"resend", "forgot"}, NEW k \in {"code", "token"},
             CommitIssue(r, op, k)
      PROVE  SecretsInv'
    <2>1. req'[r] = Idle /\ \A q \in Requests \ {r} : SameRequest(q)
        BY <1>0, <1>6, CloseEffect DEF CommitIssue, SameRequest
    <2> QED
        BY <1>3, <1>6, <2>1 DEF CommitIssue
<1>7. ASSUME NEW r \in Requests, CommitVerify(r) \/ CommitReset(r) \/ CommitChange(r)
      PROVE  SecretsInv'
    <2>1. req'[r] = Idle /\ \A q \in Requests \ {r} : SameRequest(q)
        BY <1>0, <1>7, CloseEffect DEF CommitVerify, CommitReset, CommitChange, SameRequest
    <2>2. UNCHANGED <<kind, owner, numbered, gone>>
        BY <1>7 DEF CommitVerify, CommitReset, CommitChange
    <2>3. SpentInv'
        BY <1>7, <2>2 DEF SecretsInv, HeldInv, Held, SpentInv, CommitVerify, CommitReset,
            CommitChange
    <2> QED
        BY <1>4, <2>1, <2>2, <2>3, IdleType
<1>8. ASSUME NEW r \in Requests, Authorize(r)
      PROVE  SecretsInv'
    <2>1. numbered' = numbered + 1 /\ numbered + 1 \in Secrets /\ req' = req
        BY <1>8, NextSecret DEF Authorize, Reply
    <2>2. kind[numbered + 1] = "none"
        BY <1>0, <2>1 DEF SecretsInv, NumberInv
    <2>3. \A s \in Secrets : s # numbered + 1 => kind'[s] = kind[s] /\ owner'[s] = owner[s]
        BY <1>8, <2>1 DEF Authorize, InsertSecret, TypeOK
    <2>4. kind'[numbered + 1] = "state" /\ UNCHANGED <<spent, gone>>
        BY <1>8, <2>1 DEF Authorize, InsertSecret, TypeOK
    <2>5. \A q \in Requests : Issuing(q) => req[q].secret # numbered + 1
        BY <1>0 DEF SecretsInv, HeldInv, Held
    <2>6. HeldInv'
        <3>1. ASSUME NEW q \in Requests PROVE Held(q)'
            <4>1. Held(q) /\ (Issuing(q) => req[q].secret # numbered + 1)
                BY <2>5 DEF SecretsInv, HeldInv
            <4>2. req[q].secret \in Secrets =>
                  \/ kind'[req[q].secret] = kind[req[q].secret]
                     /\ owner'[req[q].secret] = owner[req[q].secret]
                  \/ req[q].secret = numbered + 1
                BY <2>3
            <4>3. CASE req[q].secret = numbered + 1
                BY <2>1, <2>2, <4>1, <4>3 DEF Held
            <4>4. CASE req[q].secret # numbered + 1
                BY <1>0, <2>1, <4>1, <4>2, <4>4, HeldStays DEF SameRequest
            <4> QED
                BY <4>3, <4>4
        <3> QED
            BY <3>1 DEF HeldInv
    <2>7. NumberInv'
        BY <1>0, <2>1, <2>3 DEF SecretsInv, NumberInv
    <2>8. SpentInv'
        BY <2>2, <2>3, <2>4 DEF SecretsInv, SpentInv, TypeOK
    <2> QED
        BY <2>6, <2>7, <2>8 DEF SecretsInv
<1>9. ASSUME NEW r \in Requests, TakeState(r)
      PROVE  SecretsInv'
    <2>1. req'[r].op = "profile" /\ \A q \in Requests \ {r} : req'[q] = req[q]
        BY <1>0, <1>9 DEF TakeState, Idle
    <2>2. SpentInv' /\ UNCHANGED <<kind, owner, numbered>>
        BY <1>9 DEF TakeState, SecretsInv, HeldInv, Held, SpentInv
    <2> QED
        BY <1>4, <2>1, <2>2 DEF SameRequest
<1>10. ASSUME NEW r \in Requests, LoadProfile(r)
       PROVE  SecretsInv'
    <2>1. UNCHANGED <<kind, owner, spent, gone, numbered>>
        BY <1>10, LoadEffect
    <2>2. \A q \in Requests \ {r} : Held(q)' /\ SameRequest(q)
        BY <1>0, <1>10, <2>1, LoadEffect, HeldStays DEF SecretsInv, HeldInv, SameRequest
    <2>3. Held(r)' /\ ~Issuing(r)'
        BY <1>10, LoadEffect DEF Held
    <2>4. NumberInv'
        BY <2>1, <2>2, <2>3 DEF SecretsInv, NumberInv, SameRequest
    <2> QED
        BY <2>1, <2>2, <2>3, <2>4 DEF SecretsInv, HeldInv, SpentInv
<1>11. ASSUME NEW r \in Requests,
              CommitSignIn(r) \/ Fail(r) \/ CommitLink(r) \/ CommitCreate(r)
       PROVE  SecretsInv'
    <2>1. UNCHANGED <<secretVars, numbered>>
        BY <1>11 DEF CommitSignIn, Fail, CommitLink, CommitCreate
    <2>2. \E a : Close(r, a) \/ CloseInserting(r)
        BY <1>11 DEF CommitSignIn, Fail, CommitLink, CommitCreate
    <2>3. \A q \in Requests : SameRequest(q) \/ req'[q] = Idle
        BY <1>0, <2>2, CloseEffect, CloseInsertingEffect DEF SameRequest
    <2> QED
        BY <1>4, <2>1, <2>3, IdleType DEF SecretsInv, SpentInv
<1>12. CASE (\E s \in Secrets : Expire(s)) \/ CleanupOtps \/ Upgrade \/ Downgrade
    <2>1. UNCHANGED <<kind, owner, numbered, spent, req>> /\ gone \subseteq gone'
        BY <1>12 DEF Expire, CleanupOtps, Upgrade, Downgrade
    <2> QED
        BY <2>1 DEF SecretsInv, HeldInv, Held, NumberInv, SpentInv
<1> QED
    BY <1>1, <1>2, <1>5, <1>6, <1>7, <1>8, <1>9, <1>10, <1>11, <1>12 DEF Next, Endpoints,
        Reading

-----------------------------------------------------------------------------
(* Users.                                                                  *)

\* The steps that change neither users nor links.
LEMMA QuietSteps ==
    ASSUME TypeOK, NEW r \in Requests,
           \/ Reading(r) \/ CommitIssue(r, "resend", "code") \/ CommitIssue(r, "forgot", "token")
           \/ Authorize(r) \/ TakeState(r) \/ LoadProfile(r) \/ CommitSignIn(r) \/ Fail(r)
    PROVE  UNCHANGED userVars
<1>1. CASE Reading(r)
    BY <1>1, ReadingEffect DEF Begun
<1> QED
    BY <1>1 DEF CommitIssue, Authorize, TakeState, LoadProfile, CommitSignIn, Fail, userVars

\* Links and passwords are never taken away, and a user is committed with one
\* of them.
LEMMA SignInStep == TypeOK /\ HeldInv /\ EveryAccountCanSignIn /\ [Next]_vars => EveryAccountCanSignIn'
<1> SUFFICES ASSUME TypeOK, HeldInv, EveryAccountCanSignIn, [Next]_vars PROVE EveryAccountCanSignIn'
    OBVIOUS
<1> USE DEF userVars
<1>1. ASSUME UNCHANGED userVars PROVE EveryAccountCanSignIn'
    BY <1>1 DEF EveryAccountCanSignIn, Exists
<1>2. ASSUME NEW r \in Requests, CommitRegister(r)
      PROVE  EveryAccountCanSignIn'
    <2> SUFFICES ASSUME NEW u \in Users, NEW p \in Passwords, UNCHANGED linked,
                        CreateUser(u, req[r].email, req[r].name, p, FALSE)
                 PROVE  EveryAccountCanSignIn'
        BY <1>1, <1>2 DEF CommitRegister
    <2>1. password'[u] # None
        BY AccountsAssumption DEF AccountsAssumption, CreateUser, TypeOK
    <2>2. \A v \in Users \ {u} : email'[v] = email[v] /\ password'[v] = password[v]
        BY DEF CreateUser, TypeOK
    <2> QED
        BY <2>1, <2>2 DEF EveryAccountCanSignIn, Exists
<1>3. ASSUME NEW r \in Requests, CommitVerify(r)
      PROVE  EveryAccountCanSignIn'
    BY <1>3 DEF CommitVerify, EveryAccountCanSignIn, Exists
<1>4. ASSUME NEW r \in Requests, CommitReset(r) \/ CommitChange(r)
      PROVE  EveryAccountCanSignIn'
    <2>1. PICK p \in Passwords : password' = [password EXCEPT ![req[r].user] = p]
        BY <1>4 DEF CommitReset, CommitChange
    <2>2. \A v \in Users : password[v] # None => password'[v] # None
        BY <2>1, AccountsAssumption DEF AccountsAssumption, TypeOK
    <2>3. UNCHANGED <<email, linked>>
        BY <1>4 DEF CommitReset, CommitChange
    <2> QED
        BY <2>2, <2>3 DEF EveryAccountCanSignIn, Exists
<1>5. ASSUME NEW r \in Requests, CommitLink(r)
      PROVE  EveryAccountCanSignIn'
    <2>1. UNCHANGED <<email, password>>
        BY <1>5 DEF CommitLink
    <2>2. \A i \in Identities : linked[i] # None => linked'[i] = linked[i]
        BY <1>5 DEF CommitLink, IsLinked, TypeOK
    <2> QED
        BY <2>1, <2>2, AccountsAssumption DEF AccountsAssumption, EveryAccountCanSignIn, Exists
<1>6. ASSUME NEW r \in Requests, CommitCreate(r)
      PROVE  EveryAccountCanSignIn'
    <2> SUFFICES ASSUME NEW u \in Users, CreateUser(u, req[r].email, req[r].name, None, TRUE),
                        linked' = [linked EXCEPT ![req[r].identity] = u],
                        ~IsLinked(req[r].identity), req[r].identity \in Identities
                 PROVE  EveryAccountCanSignIn'
        BY <1>1, <1>6 DEF CommitCreate, HeldInv, Held
    <2>1. linked'[req[r].identity] = u
        BY DEF TypeOK
    <2>2. \A i \in Identities : linked[i] # None => linked'[i] = linked[i]
        BY DEF IsLinked, TypeOK
    <2>3. \A v \in Users \ {u} : email'[v] = email[v] /\ password'[v] = password[v]
        BY DEF CreateUser, TypeOK
    <2> QED
        BY <2>1, <2>2, <2>3, AccountsAssumption DEF AccountsAssumption, EveryAccountCanSignIn,
            Exists
<1>7. CASE (\E s \in Secrets : Expire(s)) \/ CleanupOtps \/ Upgrade \/ Downgrade \/ UNCHANGED vars
    BY <1>1, <1>7 DEF Expire, CleanupOtps, Upgrade, Downgrade, vars
<1> QED
    BY <1>1, <1>2, <1>3, <1>4, <1>5, <1>6, <1>7, QuietSteps DEF Next, Endpoints, Reading

\* The flag is set by an accepted code or with the link of a new user, and
\* neither a code nor a link changes hands.
LEMMA VerifiedStep == TypeOK /\ SecretsInv /\ VerifiedMeansProven /\ [Next]_vars => VerifiedMeansProven'
<1> SUFFICES ASSUME TypeOK, SecretsInv, VerifiedMeansProven, [Next]_vars PROVE VerifiedMeansProven'
    OBVIOUS
<1> DEFINE SecretsKept == /\ spent \subseteq spent'
                          /\ \A s \in spent : kind'[s] = kind[s] /\ owner'[s] = owner[s]
           LinksKept == \A i \in Identities : linked[i] # None => linked'[i] = linked[i]
<1>1. ASSUME SecretsKept, LinksKept,
             \A u \in Users : verified'[u] => verified[u]
                \/ (\E s \in spent' : kind'[s] = "code" /\ owner'[s] = u)
                \/ (\E i \in Identities : linked'[i] = u)
      PROVE  VerifiedMeansProven'
    <2> SUFFICES ASSUME NEW u \in Users, verified[u]
                 PROVE  \/ \E s \in spent' : kind'[s] = "code" /\ owner'[s] = u
                        \/ \E i \in Identities : linked'[i] = u
        BY <1>1 DEF VerifiedMeansProven
    <2>1. CASE \E s \in spent : kind[s] = "code" /\ owner[s] = u
        BY <1>1, <2>1
    <2>2. CASE \E i \in Identities : linked[i] = u
        BY <1>1, <2>2, AccountsAssumption DEF AccountsAssumption
    <2> QED
        BY <2>1, <2>2 DEF VerifiedMeansProven
<1>2. ASSUME UNCHANGED <<kind, owner>>, spent \subseteq spent', UNCHANGED <<verified, linked>>
      PROVE  VerifiedMeansProven'
    BY <1>1, <1>2
<1>3. ASSUME NEW s \in Secrets, kind[s] = "none", NEW k, NEW u, InsertSecret(s, k, u)
      PROVE  SecretsKept
    BY <1>3 DEF InsertSecret, TypeOK, SecretsInv, SpentInv
<1>4. ASSUME NEW r \in Requests, CommitRegister(r)
      PROVE  VerifiedMeansProven'
    <2>1. CASE UNCHANGED <<userVars, secretVars>>
        BY <1>2, <2>1 DEF userVars, secretVars
    <2>2. ASSUME NEW u \in Users, NEW p \in Passwords, UNCHANGED linked,
                 CreateUser(u, req[r].email, req[r].name, p, FALSE),
                 InsertSecret(req[r].secret, "code", u)
          PROVE  VerifiedMeansProven'
        <3>1. SecretsKept
            BY <1>3, <1>4, <2>2 DEF CommitRegister, SecretsInv, HeldInv, Held, Issuing
        <3>2. \A v \in Users : verified'[v] => verified[v]
            BY <2>2 DEF CreateUser, TypeOK
        <3> QED
            BY <1>1, <2>2, <3>1, <3>2
    <2> QED
        BY <1>4, <2>1, <2>2 DEF CommitRegister
<1>5. ASSUME NEW r \in Requests, CommitIssue(r, "resend", "code") \/ CommitIssue(r, "forgot", "token")
      PROVE  VerifiedMeansProven'
    <2>1. SecretsKept
        BY <1>3, <1>5 DEF CommitIssue, SecretsInv, HeldInv, Held, Issuing
    <2>2. UNCHANGED <<verified, linked>>
        BY <1>5 DEF CommitIssue, userVars
    <2> QED
        BY <1>1, <2>1, <2>2
<1>6. ASSUME NEW r \in Requests, Authorize(r)
      PROVE  VerifiedMeansProven'
    <2>1. SecretsKept
        <3>1. numbered + 1 \in Secrets /\ numbered \in Nat
            BY <1>6, NextSecret, AccountsAssumption DEF Authorize, AccountsAssumption, TypeOK
        <3>2. kind[numbered + 1] = "none"
            BY <3>1 DEF SecretsInv, NumberInv
        <3> QED
            BY <1>3, <1>6, <3>1, <3>2 DEF Authorize
    <2>2. UNCHANGED <<verified, linked>>
        BY <1>6 DEF Authorize, userVars
    <2> QED
        BY <1>1, <2>1, <2>2
<1>7. ASSUME NEW r \in Requests, CommitVerify(r)
      PROVE  VerifiedMeansProven'
    <2>1. CASE UNCHANGED <<spent, verified>>
        BY <1>2, <1>7, <2>1 DEF CommitVerify
    <2>2. CASE /\ spent' = spent \cup {req[r].secret}
               /\ verified' = [verified EXCEPT ![req[r].user] = TRUE]
        <3>1. kind[req[r].secret] = "code" /\ owner[req[r].secret] = req[r].user
            BY <1>7 DEF CommitVerify, SecretsInv, HeldInv, Held
        <3>2. \A u \in Users : verified'[u] => verified[u] \/ u = req[r].user
            BY <2>2 DEF TypeOK
        <3>3. UNCHANGED <<kind, owner, linked>>
            BY <1>7 DEF CommitVerify
        <3> QED
            BY <1>1, <2>2, <3>1, <3>2, <3>3
    <2> QED
        BY <1>7, <2>1, <2>2 DEF CommitVerify
<1>8. ASSUME NEW r \in Requests, CommitReset(r) \/ CommitChange(r) \/ TakeState(r)
      PROVE  VerifiedMeansProven'
    BY <1>2, <1>8 DEF CommitReset, CommitChange, TakeState, secretVars, userVars
<1>9. ASSUME NEW r \in Requests, CommitLink(r)
      PROVE  VerifiedMeansProven'
    <2>1. LinksKept
        BY <1>9 DEF CommitLink, IsLinked, TypeOK
    <2> QED
        BY <1>1, <1>9, <2>1 DEF CommitLink, secretVars
<1>10. ASSUME NEW r \in Requests, CommitCreate(r)
       PROVE  VerifiedMeansProven'
    <2>1. CASE UNCHANGED userVars
        BY <1>2, <1>10, <2>1 DEF CommitCreate, userVars, secretVars
    <2>2. ASSUME NEW u \in Users, CreateUser(u, req[r].email, req[r].name, None, TRUE),
                 linked' = [linked EXCEPT ![req[r].identity] = u], ~IsLinked(req[r].identity)
          PROVE  VerifiedMeansProven'
        <3>1. req[r].identity \in Identities
            BY <1>10 DEF CommitCreate, SecretsInv, HeldInv, Held
        <3>2. LinksKept /\ linked'[req[r].identity] = u
            BY <2>2, <3>1 DEF IsLinked, TypeOK
        <3>3. \A v \in Users : verified'[v] => verified[v] \/ v = u
            BY <2>2 DEF CreateUser, TypeOK
        <3> QED
            BY <1>1, <1>10, <3>1, <3>2, <3>3 DEF CommitCreate, secretVars
    <2> QED
        BY <1>10, <2>1, <2>2 DEF CommitCreate
<1>11. ASSUME NEW r \in Requests, Reading(r) \/ LoadProfile(r) \/ CommitSignIn(r) \/ Fail(r)
       PROVE  VerifiedMeansProven'
    <2>1. UNCHANGED <<userVars, secretVars>>
        BY <1>11, ReadingEffect DEF Begun, LoadProfile, CommitSignIn, Fail
    <2> QED
        BY <1>2, <2>1 DEF userVars, secretVars
<1>12. CASE (\E s \in Secrets : Expire(s)) \/ CleanupOtps \/ Upgrade \/ Downgrade \/ UNCHANGED vars
    BY <1>2, <1>12 DEF Expire, CleanupOtps, Upgrade, Downgrade, vars, userVars, secretVars
<1> QED
    BY <1>4, <1>5, <1>6, <1>7, <1>8, <1>9, <1>10, <1>11, <1>12 DEF Next, Endpoints, Reading

-----------------------------------------------------------------------------
(* Conflicts.                                                              *)

\* What a request has found free is free until another one inserts a row.
Free(r) ==
    ~req[r].raced =>
        /\ req[r].op = "register" => ~KeysTaken(req[r].email, req[r].name)
        /\ req[r].op = "link" => ~IsLinked(req[r].identity)
        /\ req[r].op = "create" =>
              /\ ~IsLinked(req[r].identity)
              /\ req[r].name[1] \notin LongLogins => ~KeysTaken(req[r].email, req[r].name)

FreeInv == \A r \in Requests : Free(r)

\* Only a commit that inserts takes a key, and it marks the requests that have
\* found it free.
LEMMA FreeStep == TypeOK /\ FreeInv /\ [Next]_vars => FreeInv'
<1> SUFFICES ASSUME TypeOK, FreeInv, [Next]_vars PROVE FreeInv'
    OBVIOUS
<1>0. req \in [Requests -> ReqType]
    BY DEF TypeOK
<1> USE DEF KeysTaken, IsLinked, ByEmail, ByName
<1>1. ASSUME NEW q \in Requests, UNCHANGED <<email, name, linked>>, req'[q] = req[q]
      PROVE  Free(q)'
    BY <1>1 DEF FreeInv, Free
<1>2. ASSUME NEW q \in Requests, req'[q].op \notin {"register", "link", "create"}
      PROVE  Free(q)'
    BY <1>2 DEF Free
<1>3. ASSUME NEW r \in Requests, CloseInserting(r)
      PROVE  FreeInv'
    <2> SUFFICES ASSUME NEW q \in Requests PROVE Free(q)'
        BY DEF FreeInv
    <2>1. req'[q] = Idle \/ req'[q].raced
        BY <1>0, <1>3, CloseInsertingEffect
    <2>2. CASE req'[q] = Idle
        BY <1>2, <2>2, IdleType
    <2>3. CASE req'[q].raced
        BY <2>3 DEF Free
    <2> QED
        BY <2>1, <2>2, <2>3
<1>4. ASSUME NEW r \in Requests, NEW a, Close(r, a), UNCHANGED <<email, name, linked>>
      PROVE  FreeInv'
    BY <1>0, <1>1, <1>2, <1>4, CloseEffect, IdleType DEF FreeInv
<1>5. ASSUME NEW r \in Requests, Reading(r)
      PROVE  FreeInv'
    <2>1. Begun(r) /\ UNCHANGED <<email, name, linked>>
        BY <1>5, ReadingEffect DEF Begun, userVars
    <2>2. \A q \in Requests \ {r} : Free(q)'
        BY <1>1, <2>1 DEF Begun
    <2>3. CASE req' = req
        BY <1>1, <2>1, <2>3 DEF FreeInv
    <2>4. CASE Opened(r)
        <3>1. CASE req'[r].op = "register"
            <4>1. Free(r)'
                BY <2>1, <2>4, <3>1 DEF Opened, Issuing, Free
            <4> QED
                BY <2>2, <4>1 DEF FreeInv
        <3>2. CASE req'[r].op # "register"
            <4>1. Free(r)'
                BY <1>2, <2>4, <3>2 DEF Opened, Issuing
            <4> QED
                BY <2>2, <4>1 DEF FreeInv
        <3> QED
            BY <3>1, <3>2
    <2> QED
        BY <2>1, <2>3, <2>4 DEF Begun
<1>6. ASSUME NEW r \in Requests, TakeState(r)
      PROVE  FreeInv'
    <2>1. req'[r].op = "profile" /\ \A q \in Requests \ {r} : req'[q] = req[q]
        BY <1>0, <1>6 DEF TakeState, Idle
    <2> QED
        BY <1>1, <1>2, <1>6, <2>1 DEF TakeState, userVars, FreeInv
<1>7. ASSUME NEW r \in Requests, LoadProfile(r)
      PROVE  FreeInv'
    <2>1. UNCHANGED <<email, name, linked>>
        BY <1>7, LoadEffect DEF userVars
    <2>2. \A q \in Requests \ {r} : Free(q)'
        BY <1>1, <1>7, <2>1, LoadEffect
    <2>3. Free(r)'
        BY <1>7, <2>1, LoadEffect DEF Free
    <2> QED
        BY <2>2, <2>3 DEF FreeInv
<1>8. ASSUME NEW r \in Requests, CommitRegister(r) \/ CommitLink(r) \/ CommitCreate(r)
      PROVE  FreeInv'
    BY <1>3, <1>4, <1>8 DEF CommitRegister, CommitLink, CommitCreate, userVars
<1>9. ASSUME NEW r \in Requests, CommitIssue(r, "resend", "code") \/ CommitIssue(r, "forgot", "token")
      PROVE  FreeInv'
    BY <1>4, <1>9 DEF CommitIssue, userVars
<1>10. ASSUME NEW r \in Requests, CommitVerify(r) \/ CommitReset(r) \/ CommitChange(r)
       PROVE  FreeInv'
    <2>1. \E a : Close(r, a)
        BY <1>10 DEF CommitVerify, CommitReset, CommitChange
    <2>2. UNCHANGED <<email, name, linked>>
        BY <1>10 DEF CommitVerify, CommitReset, CommitChange
    <2> QED
        BY <1>4, <2>1, <2>2
<1>11. ASSUME NEW r \in Requests, CommitSignIn(r) \/ Fail(r)
       PROVE  FreeInv'
    BY <1>4, <1>11 DEF CommitSignIn, Fail, userVars
<1>12. CASE (\E r \in Requests : Authorize(r)) \/ (\E s \in Secrets : Expire(s)) \/ CleanupOtps
            \/ Upgrade \/ Downgrade \/ UNCHANGED vars
    <2>1. UNCHANGED <<req, email, name, linked>>
        BY <1>12 DEF Authorize, Reply, Expire, CleanupOtps, Upgrade, Downgrade, vars, userVars
    <2> QED
        BY <1>1, <2>1 DEF FreeInv
<1> QED
    BY <1>5, <1>6, <1>7, <1>8, <1>9, <1>10, <1>11, <1>12 DEF Next, Endpoints, Reading

-----------------------------------------------------------------------------
(* The theorems.                                                           *)

Inv ==
    /\ TypeOK /\ SecretsInv /\ FreeInv
    /\ VerifiedMeansProven /\ EveryAccountCanSignIn

\* The invariant holds at first.
LEMMA InitInv == Init => Inv
<1> SUFFICES ASSUME Init PROVE Inv
    OBVIOUS
<1>1. TypeOK
    <2>1. numbered \in 0..MaxSecrets /\ req \in [Requests -> ReqType]
        BY IdleType, AccountsAssumption DEF AccountsAssumption, Init
    <2> QED
        BY <2>1 DEF Init, TypeOK
<1>2. SecretsInv
    BY IdleType DEF Init, SecretsInv, HeldInv, Held, Issuing, NumberInv, SpentInv
<1>3. FreeInv
    BY IdleType DEF Init, FreeInv, Free
<1>4. VerifiedMeansProven /\ EveryAccountCanSignIn
    BY DEF Init, VerifiedMeansProven, EveryAccountCanSignIn, Exists
<1> QED
    BY <1>1, <1>2, <1>3, <1>4 DEF Inv

\* The invariant is inductive.
THEOREM Invariance == Spec => []Inv
<1>1. Inv /\ [Next]_vars => Inv'
    BY TypeStep, SecretsStep, FreeStep, VerifiedStep, SignInStep DEF Inv, SecretsInv
<1> QED
    BY InitInv, <1>1, PTL DEF Spec

\* Every variable keeps its type.
THEOREM TypeCorrect == Spec => []TypeOK
<1>1. Inv => TypeOK
    BY DEF Inv
<1> QED
    BY Invariance, <1>1, PTL

\* A verified account has had a code of its own accepted or has an identity at
\* a provider.
THEOREM VerifiedIsProven == Spec => []VerifiedMeansProven
<1>1. Inv => VerifiedMeansProven
    BY DEF Inv
<1> QED
    BY Invariance, <1>1, PTL

\* Nobody is ever locked out of a stored account.
THEOREM NobodyIsLockedOut == Spec => []EveryAccountCanSignIn
<1>1. Inv => EveryAccountCanSignIn
    BY DEF Inv
<1> QED
    BY Invariance, <1>1, PTL

\* A unique key refuses a request only what another one has inserted since it
\* looked, or a login that was cut to the width of its column.
THEOREM ConflictsAreExplained == Spec => ConflictHasACause
<1> DEFINE Caused == \A r \in Requests :
              (req[r].op # "idle" /\ req'[r].op = "idle" /\ answer' = "conflict") =>
                 \/ req[r].raced
                 \/ req[r].op = "create" /\ req[r].name[1] \in LongLogins
<1>1. Inv /\ [Next]_vars => Caused
    <2> SUFFICES ASSUME Inv, [Next]_vars PROVE Caused
        OBVIOUS
    <2>0. req \in [Requests -> ReqType] /\ TypeOK
        BY DEF Inv, TypeOK
    <2>1. ASSUME UNCHANGED req \/ answer' # "conflict" PROVE Caused
        BY <2>1
    <2>2. ASSUME NEW r \in Requests, NEW a, Close(r, a),
                 a = "conflict" => \/ req[r].raced
                                   \/ req[r].op = "create" /\ req[r].name[1] \in LongLogins
          PROVE  Caused
        BY <2>0, <2>2, CloseEffect
    <2>3. ASSUME NEW r \in Requests, CloseInserting(r) PROVE Caused
        BY <2>1, <2>3 DEF CloseInserting
    <2>4. ASSUME NEW r \in Requests, CommitRegister(r) \/ CommitLink(r) \/ CommitCreate(r)
          PROVE  Caused
        <3>1. Free(r)
            BY DEF Inv, FreeInv
        <3>2. CASE CommitRegister(r)
            BY <2>2, <2>3, <3>1, <3>2 DEF CommitRegister, Free
        <3>3. CASE CommitLink(r)
            BY <2>2, <2>3, <3>1, <3>3 DEF CommitLink, Free
        <3>4. CASE CommitCreate(r)
            BY <2>2, <2>3, <3>1, <3>4 DEF CommitCreate, Free
        <3> QED
            BY <2>4, <3>2, <3>3, <3>4
    <2>5. ASSUME NEW r \in Requests, Reading(r) PROVE Caused
        BY <2>0, <2>1, <2>5, ReadingEffect DEF Begun
    <2>6. ASSUME NEW r \in Requests,
                 \/ CommitIssue(r, "resend", "code") \/ CommitIssue(r, "forgot", "token")
                 \/ CommitVerify(r) \/ CommitReset(r) \/ CommitChange(r)
                 \/ CommitSignIn(r) \/ Fail(r)
          PROVE  Caused
        <3>1. answer' \in {"ok", "failed"}
            BY <2>6 DEF CommitIssue, CommitVerify, CommitReset, CommitChange, CommitSignIn,
                Fail, Close
        <3> QED
            BY <2>1, <3>1
    <2>7. CASE (\E r \in Requests : Authorize(r) \/ TakeState(r) \/ LoadProfile(r))
               \/ (\E s \in Secrets : Expire(s)) \/ CleanupOtps
               \/ Upgrade \/ Downgrade \/ UNCHANGED vars
        <3>1. UNCHANGED req \/ answer' # "conflict"
            BY <2>7 DEF Authorize, TakeState, LoadProfile, Reply, Expire, CleanupOtps, Upgrade,
                Downgrade, vars
        <3> QED
            BY <2>1, <3>1
    <2> QED
        BY <2>4, <2>5, <2>6, <2>7 DEF Next, Endpoints, Reading
<1> QED
    BY Invariance, <1>1, PTL DEF Spec, ConflictHasACause

-----------------------------------------------------------------------------
(* The refinement of OneTimeCodes.                                         *)

Presenting(q) == IF q.op \in {"verify", "reset", "callback"} THEN q.secret ELSE 0
Presented == [r \in Requests |-> Presenting(req[r])]

\* A step of the accounts that leaves spent alone and what is presented, too.
LEMMA CodesStutter ==
    ASSUME UNCHANGED spent, \A r \in Requests : Presenting(req'[r]) = Presenting(req[r])
    PROVE  UNCHANGED Codes!codeVars
<1>1. Presented' = Presented
    BY DEF Presented
<1> QED
    BY <1>1 DEF Codes!codeVars, Presented, Presenting

\* A request begins to present a secret that is not spent.
LEMMA CodesPresent ==
    ASSUME NEW r \in Requests, Presenting(req[r]) = 0, Presenting(req'[r]) \in Secrets \ spent,
           UNCHANGED spent, \A q \in Requests \ {r} : Presenting(req'[q]) = Presenting(req[q])
    PROVE  Codes!Present(r)
<1>1. Presented' = [Presented EXCEPT ![r] = Presenting(req'[r])] /\ Presented[r] = 0
    BY DEF Presented
<1> QED
    BY <1>1 DEF Codes!Present, Presented, Presenting

\* A request is answered: its secret is accepted or withdrawn.
LEMMA CodesEnd ==
    ASSUME NEW r \in Requests, Presenting(req[r]) # 0, Presenting(req'[r]) = 0,
           \A q \in Requests \ {r} : Presenting(req'[q]) = Presenting(req[q]),
           spent' = spent \cup {Presenting(req[r])} \/ UNCHANGED spent
    PROVE  Codes!Accept(r) \/ Codes!Withdraw(r)
<1>1. Presented[r] = Presenting(req[r])
    BY DEF Presented
<1>2. Presented' = [Presented EXCEPT ![r] = 0]
    <2>1. Presented' = [q \in Requests |-> IF q = r THEN 0 ELSE Presenting(req[q])]
        BY DEF Presented
    <2> QED
        BY <2>1 DEF Presented
<1> QED
    BY <1>1, <1>2 DEF Codes!Accept, Codes!Withdraw, Presented, Presenting

\* The detailed accounts implement the one-time codes: every step maps to a
\* presentation, an acceptance, a withdrawal or a stutter.
LEMMA CodesStep == Inv /\ [Next]_vars => [Codes!CodesNext]_(Codes!codeVars)
<1> SUFFICES ASSUME Inv, [Next]_vars PROVE Codes!CodesNext \/ UNCHANGED Codes!codeVars
    OBVIOUS
<1>0. TypeOK /\ req \in [Requests -> ReqType] /\ 0 \notin Secrets
    BY DEF Inv, TypeOK, Secrets
<1> USE DEF Codes!CodesNext
<1>1. ASSUME NEW r \in Requests, Reading(r)
      PROVE  Codes!CodesNext \/ UNCHANGED Codes!codeVars
    <2>1. Begun(r) /\ UNCHANGED spent
        BY <1>0, <1>1, ReadingEffect DEF Begun, secretVars
    <2>2. \A q \in Requests \ {r} : Presenting(req'[q]) = Presenting(req[q])
        BY <2>1 DEF Begun
    <2>3. Presenting(req[r]) = 0
        BY <2>1 DEF Begun, Presenting
    <2>4. CASE req' = req \/ req'[r].op \notin {"verify", "reset", "callback"}
        <3>1. Presenting(req'[r]) = 0
            BY <2>3, <2>4 DEF Presenting
        <3> QED
            BY <2>1, <2>2, <2>3, <3>1, CodesStutter
    <2>5. CASE Opened(r) /\ req'[r].op \in {"verify", "reset", "callback"}
        <3>1. req'[r].secret \in Secrets \ spent
            BY <2>5 DEF Opened, Issuing, LatestCode, Stored, Inv, SecretsInv, SpentInv
        <3> QED
            BY <2>1, <2>2, <2>3, <2>5, <3>1, CodesPresent DEF Presenting
    <2> QED
        BY <2>1, <2>4, <2>5 DEF Begun
<1>2. ASSUME NEW r \in Requests, Presenting(req'[r]) = 0, UNCHANGED spent,
             \A q \in Requests \ {r} : Presenting(req'[q]) = Presenting(req[q])
      PROVE  Codes!CodesNext \/ UNCHANGED Codes!codeVars
    <2>1. CASE Presenting(req[r]) = 0
        BY <1>2, <2>1, CodesStutter
    <2>2. CASE Presenting(req[r]) # 0
        BY <1>2, <2>2, CodesEnd
    <2> QED
        BY <2>1, <2>2
<1>3. ASSUME NEW r \in Requests, NEW a, Close(r, a), UNCHANGED spent
      PROVE  Codes!CodesNext \/ UNCHANGED Codes!codeVars
    BY <1>0, <1>2, <1>3, CloseEffect, IdleType DEF Presenting
<1>4. ASSUME NEW r \in Requests, CloseInserting(r), UNCHANGED spent
      PROVE  Codes!CodesNext \/ UNCHANGED Codes!codeVars
    <2>1. Presenting(req'[r]) = 0
        BY <1>0, <1>4, CloseInsertingEffect, IdleType DEF Presenting
    <2>2. \A q \in Requests \ {r} : Presenting(req'[q]) = Presenting(req[q])
        BY <1>0, <1>4, CloseInsertingEffect, IdleType DEF Presenting, SameRequest
    <2> QED
        BY <1>2, <1>4, <2>1, <2>2
<1>5. ASSUME NEW r \in Requests, CommitVerify(r) \/ CommitReset(r) \/ TakeState(r)
      PROVE  Codes!CodesNext \/ UNCHANGED Codes!codeVars
    <2>1. Presenting(req[r]) = req[r].secret /\ req[r].secret \in Secrets
        BY <1>5 DEF Presenting, CommitVerify, CommitReset, TakeState, Inv, SecretsInv, HeldInv,
            Held
    <2>2. Presenting(req'[r]) = 0 /\ \A q \in Requests \ {r} : req'[q] = req[q]
        <3>1. CASE TakeState(r)
            BY <1>0, <3>1 DEF TakeState, Presenting, Idle
        <3>2. CASE CommitVerify(r) \/ CommitReset(r)
            <4>1. \E a : Close(r, a)
                BY <3>2 DEF CommitVerify, CommitReset
            <4> QED
                BY <1>0, <4>1, CloseEffect, IdleType DEF Presenting
        <3> QED
            BY <1>5, <3>1, <3>2
    <2>3. spent' = spent \cup {req[r].secret} \/ UNCHANGED spent
        BY <1>5 DEF CommitVerify, CommitReset, TakeState
    <2> QED
        BY <1>0, <2>1, <2>2, <2>3, CodesEnd
<1>6. ASSUME NEW r \in Requests, CommitRegister(r) \/ CommitLink(r) \/ CommitCreate(r)
      PROVE  Codes!CodesNext \/ UNCHANGED Codes!codeVars
    BY <1>3, <1>4, <1>6 DEF CommitRegister, CommitLink, CommitCreate, InsertSecret, secretVars
<1>7. ASSUME NEW r \in Requests,
             \/ CommitIssue(r, "resend", "code") \/ CommitIssue(r, "forgot", "token")
             \/ CommitChange(r) \/ CommitSignIn(r) \/ Fail(r)
      PROVE  Codes!CodesNext \/ UNCHANGED Codes!codeVars
    BY <1>3, <1>7 DEF CommitIssue, InsertSecret, CommitChange, CommitSignIn, Fail, secretVars
<1>8. ASSUME NEW r \in Requests, LoadProfile(r)
      PROVE  Codes!CodesNext \/ UNCHANGED Codes!codeVars
    <2>1. Presenting(req'[r]) = 0
        BY <1>0, <1>8, LoadEffect DEF Presenting
    <2> QED
        BY <1>0, <1>2, <1>8, <2>1, LoadEffect DEF secretVars
<1>9. CASE (\E r \in Requests : Authorize(r)) \/ (\E s \in Secrets : Expire(s)) \/ CleanupOtps
           \/ Upgrade \/ Downgrade \/ UNCHANGED vars
    <2>1. UNCHANGED <<req, spent>>
        BY <1>9 DEF Authorize, Reply, InsertSecret, Expire, CleanupOtps, Upgrade, Downgrade,
            vars, secretVars
    <2> QED
        BY <2>1, CodesStutter
<1> QED
    BY <1>1, <1>5, <1>6, <1>7, <1>8, <1>9 DEF Next, Endpoints, Reading

\* A secret is accepted only from requests that presented it while it was
\* unspent.
THEOREM SecretsAreAcceptedOnce == Spec => AcceptedOnce
<1>1. Init => Codes!CodesInit
    <2>1. ASSUME Init PROVE Presented = [r \in Requests |-> 0]
        BY <2>1, IdleType DEF Init, Presented, Presenting
    <2> QED
        BY <2>1 DEF Codes!CodesInit, Init, Presented, Presenting
<1>2. Inv /\ [Next]_vars => [Codes!CodesNext]_(Codes!codeVars)
    BY CodesStep
<1> QED
    BY Invariance, <1>1, <1>2, PTL DEF Spec, AcceptedOnce, Codes!CodesSpec
=============================================================================
