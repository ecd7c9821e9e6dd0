------------------------------ MODULE Accounts -------------------------------
(***************************************************************************)
(* Accounts: registration, e-mail codes, passwords and OAuth sign-in.      *)
(*                                                                         *)
(* A request reads in one step and writes in another, its commit. A row it *)
(* inserts waits for an open transaction that inserted the same key and    *)
(* conflicts with a committed one, which comes to inserting at the commit. *)
(* A failure between the steps rolls back, whatever it had flushed. Mails  *)
(* leave before the commit, so what a visitor presents is any secret ever  *)
(* numbered, stored or not. The tokens a sign-in issues are in AuthTokens. *)
(***************************************************************************)
EXTENDS Naturals, FiniteSets

CONSTANTS
    Users,       \* rows of users
    Emails, Logins, Passwords,
    LongLogins,  \* logins that fill the 39 characters of the column
    Identities,  \* accounts at Google and GitHub
    MaxSecrets,  \* bound on the codes, tokens and states ever numbered
    Requests,    \* slots for concurrent requests
    None

ASSUME AccountsAssumption ==
    /\ None \notin Users \cup Emails \cup Passwords \cup Identities
    /\ IsFiniteSet(Users)
    /\ LongLogins \subseteq Logins
    /\ MaxSecrets \in Nat

\* A username: a login, or one with a numeric suffix (0 stands for none).
Names   == Logins \X (0..Cardinality(Users))
Secrets == 1..MaxSecrets   \* 0: no secret

VARIABLES
    aware,       \* whether the columns of timestamps have a time zone
    \* a user: a row exists when it has an address
    email, name, password, verified,
    linked,      \* oauth_accounts: the user of an identity
    \* email_otps, password_reset_tokens and the OAuth states of Redis, in the
    \* order of created_at, which is the time the transaction began
    kind, owner, spent, expired, gone, numbered,
    req,         \* a request and what it has loaded
    answer       \* the answer the last step gave, "none" when it gave none

userVars   == <<email, name, password, verified, linked>>
secretVars == <<kind, owner, spent, expired, gone>>
vars == <<aware, userVars, secretVars, numbered, req, answer>>

Ops == {"idle", "register", "verify", "resend", "forgot", "reset", "change",
        "callback", "profile", "sign_in", "link", "create"}

Idle == [op |-> "idle", user |-> None, secret |-> 0, email |-> None,
         name |-> None, identity |-> None, raced |-> FALSE]

ReqType == [op : Ops, user : Users \cup {None}, secret : Secrets \cup {0},
            email : Emails \cup {None}, name : Names \cup {None},
            identity : Identities \cup {None}, raced : BOOLEAN]

TypeOK ==
    /\ aware \in BOOLEAN
    /\ email \in [Users -> Emails \cup {None}]
    /\ name \in [Users -> Names \cup {None}]
    /\ password \in [Users -> Passwords \cup {None}]
    /\ verified \in [Users -> BOOLEAN]
    /\ linked \in [Identities -> Users \cup {None}]
    /\ kind \in [Secrets -> {"none", "code", "token", "state"}]
    /\ owner \in [Secrets -> Users \cup {None}]
    /\ spent \subseteq Secrets /\ expired \subseteq Secrets /\ gone \subseteq Secrets
    /\ numbered \in 0..MaxSecrets
    /\ req \in [Requests -> ReqType]
    /\ answer \in {"none", "ok", "taken", "refused", "type_error", "conflict",
                   "failed"}

Init ==
    /\ aware = FALSE
    /\ email = [u \in Users |-> None]
    /\ name = [u \in Users |-> None]
    /\ password = [u \in Users |-> None]
    /\ verified = [u \in Users |-> FALSE]
    /\ linked = [i \in Identities |-> None]
    /\ kind = [s \in Secrets |-> "none"]
    /\ owner = [s \in Secrets |-> None]
    /\ spent = {} /\ expired = {} /\ gone = {}
    /\ numbered = 0
    /\ req = [r \in Requests |-> Idle]
    /\ answer = "none"

Exists(u)  == email[u] # None
ByEmail(e) == {u \in Users : email[u] = e}
ByName(n)  == {u \in Users : name[u] = n}

\* The unique keys of users and of oauth_accounts.
KeysTaken(e, n) == ByEmail(e) # {} \/ ByName(n) # {}
IsLinked(i)     == linked[i] # None

\* Rows of one kind that are still stored.
Stored(k) == {s \in Secrets : kind[s] = k /\ s \notin gone}

-----------------------------------------------------------------------------
(* Requests.                                                               *)

Open(r, q) ==
    /\ req[r].op = "idle"
    /\ req' = [req EXCEPT ![r] = q]
    /\ answer' = "none"

\* An answer that leaves the database as it was.
Reply(r, result) ==
    /\ req[r].op = "idle"
    /\ UNCHANGED req
    /\ answer' = result

Close(r, result) ==
    /\ req' = [req EXCEPT ![r] = Idle]
    /\ answer' = result

\* A commit that inserts a user or a link: the requests in progress have read
\* the tables without it.
CloseInserting(r) ==
    /\ req' = [q \in Requests |->
                 IF q = r \/ req[q].op = "idle" THEN Idle
                 ELSE [req[q] EXCEPT !.raced = TRUE]]
    /\ answer' = "ok"

\* now() of the transaction that will insert a row.
NextNumber == numbered < MaxSecrets /\ numbered' = numbered + 1

InsertSecret(s, k, u) ==
    /\ kind' = [kind EXCEPT ![s] = k]
    /\ owner' = [owner EXCEPT ![s] = u]
    /\ UNCHANGED <<spent, expired, gone>>

\* UserRepository.create_user: the profile and settings rows come with it.
CreateUser(u, e, n, p, isVerified) ==
    /\ ~Exists(u)
    /\ email' = [email EXCEPT ![u] = e]
    /\ name' = [name EXCEPT ![u] = n]
    /\ password' = [password EXCEPT ![u] = p]
    /\ verified' = [verified EXCEPT ![u] = isVerified]

\* An exception, a lost connection or a client that goes away before the
\* commit: get_db rolls back. A state that was deleted stays deleted.
Fail(r) ==
    /\ req[r].op # "idle"
    /\ Close(r, "failed")
    /\ UNCHANGED <<aware, userVars, secretVars, numbered>>

-----------------------------------------------------------------------------
(* Registration and e-mail codes.                                          *)

\* Faulty variant: only the address is looked up.
BeginRegisterByEmail(r) ==
    \E e \in Emails, n \in Names :
       /\ \/ ByEmail(e) # {} /\ Reply(r, "taken") /\ UNCHANGED numbered
          \/ ByEmail(e) = {} /\ NextNumber
             /\ Open(r, [Idle EXCEPT !.op = "register", !.email = e, !.name = n,
                                     !.secret = numbered + 1])
       /\ UNCHANGED <<aware, userVars, secretVars>>

\* register up to its inserts. The name of a login may be any string, one with
\* a suffix too.
BeginRegister(r) ==
    \E e \in Emails, n \in Names :
       /\ \/ KeysTaken(e, n) /\ Reply(r, "taken") /\ UNCHANGED numbered
          \/ ~KeysTaken(e, n) /\ NextNumber
             /\ Open(r, [Idle EXCEPT !.op = "register", !.email = e, !.name = n,
                                     !.secret = numbered + 1])
       /\ UNCHANGED <<aware, userVars, secretVars>>

\* Faulty variant: create_user is called as the OAuth callback calls it.
CommitRegisterVerified(r) ==
    /\ req[r].op = "register" /\ ~KeysTaken(req[r].email, req[r].name)
    /\ \E u \in Users, p \in Passwords :
          /\ CreateUser(u, req[r].email, req[r].name, p, TRUE)
          /\ InsertSecret(req[r].secret, "code", u)
    /\ CloseInserting(r)
    /\ UNCHANGED <<aware, linked, numbered>>

\* register from create_user: the user and its first code, mailed; committed.
CommitRegister(r) ==
    /\ req[r].op = "register"
    /\ IF KeysTaken(req[r].email, req[r].name)
       THEN Close(r, "conflict") /\ UNCHANGED <<userVars, secretVars>>
       ELSE \E u \in Users, p \in Passwords :
               /\ CreateUser(u, req[r].email, req[r].name, p, FALSE)
               /\ InsertSecret(req[r].secret, "code", u)
               /\ CloseInserting(r)
               /\ UNCHANGED linked
    /\ UNCHANGED <<aware, numbered>>

\* resend_otp and forgot_password: an unknown address is answered like a known
\* one.
BeginIssue(r, op) ==
    \E e \in Emails :
       /\ \/ ByEmail(e) = {} /\ Reply(r, "ok") /\ UNCHANGED numbered
          \/ \E u \in ByEmail(e) :
                /\ NextNumber
                /\ Open(r, [Idle EXCEPT !.op = op, !.user = u,
                                        !.secret = numbered + 1])
       /\ UNCHANGED <<aware, userVars, secretVars>>

\* _issue_otp, or the token of forgot_password; then the mail and the commit.
CommitIssue(r, op, k) ==
    /\ req[r].op = op
    /\ InsertSecret(req[r].secret, k, req[r].user)
    /\ Close(r, "ok")
    /\ UNCHANGED <<aware, userVars, numbered>>

\* EmailOtpRepository.latest_for: the newest code that is not consumed.
LatestCode(u) ==
    {s \in Stored("code") \ spent :
        /\ owner[s] = u
        /\ \A t \in Stored("code") \ spent : owner[t] = u => t <= s}

\* verify_otp up to its decision: no user, no code, the comparison of a time
\* with a zone and one without, an expired code, a code that does not match
\* (the attempt it counts is rolled back).
BeginVerify(r) ==
    \E e \in Emails, s \in Secrets :
       /\ \/ ByEmail(e) = {} /\ Reply(r, "refused")
          \/ \E u \in ByEmail(e) :
                \/ LatestCode(u) = {} /\ Reply(r, "refused")
                \/ LatestCode(u) # {} /\ aware /\ Reply(r, "type_error")
                \/ s \notin LatestCode(u) \ expired /\ ~aware /\ Reply(r, "refused")
                \/ s \in LatestCode(u) \ expired /\ ~aware
                   /\ Open(r, [Idle EXCEPT !.op = "verify", !.user = u, !.secret = s])
       /\ UNCHANGED <<aware, userVars, secretVars, numbered>>

\* The code is consumed whether or not another request has consumed it since;
\* a row the cleanup has deleted meanwhile fails the UPDATE.
CommitVerify(r) ==
    /\ req[r].op = "verify"
    /\ IF req[r].secret \in gone
       THEN Close(r, "failed") /\ UNCHANGED <<spent, verified>>
       ELSE /\ spent' = spent \cup {req[r].secret}
            /\ verified' = [verified EXCEPT ![req[r].user] = TRUE]
            /\ Close(r, "ok")
    /\ UNCHANGED <<aware, email, name, password, linked, kind, owner, expired,
                   gone, numbered>>

-----------------------------------------------------------------------------
(* Passwords.                                                              *)

\* login: an account without a password cannot be entered by one.
Login(r) ==
    \E e \in Emails, p \in Passwords :
       /\ Reply(r, IF \E u \in ByEmail(e) : password[u] = p THEN "ok" ELSE "refused")
       /\ UNCHANGED <<aware, userVars, secretVars, numbered>>

\* Faulty variant: a token is good until it expires.
BeginResetUnchecked(r) ==
    \E s \in Secrets :
       /\ \/ (s \notin Stored("token") \/ s \in expired) /\ Reply(r, "refused")
          \/ s \in Stored("token") /\ aware /\ Reply(r, "type_error")
          \/ s \in Stored("token") \ expired /\ ~aware
             /\ Open(r, [Idle EXCEPT !.op = "reset", !.user = owner[s], !.secret = s])
       /\ UNCHANGED <<aware, userVars, secretVars, numbered>>

\* reset_password up to its decision.
BeginReset(r) ==
    \E s \in Secrets :
       /\ \/ s \notin Stored("token") \ spent /\ Reply(r, "refused")
          \/ s \in Stored("token") \ spent /\ aware /\ Reply(r, "type_error")
          \/ s \in (Stored("token") \ spent) \cap expired /\ ~aware /\ Reply(r, "refused")
          \/ s \in Stored("token") \ (spent \cup expired) /\ ~aware
             /\ Open(r, [Idle EXCEPT !.op = "reset", !.user = owner[s], !.secret = s])
       /\ UNCHANGED <<aware, userVars, secretVars, numbered>>

CommitReset(r) ==
    /\ req[r].op = "reset"
    /\ \E p \in Passwords : password' = [password EXCEPT ![req[r].user] = p]
    /\ spent' = spent \cup {req[r].secret}
    /\ Close(r, "ok")
    /\ UNCHANGED <<aware, email, name, verified, linked, kind, owner, expired,
                   gone, numbered>>

\* get_current_user: the users with a row.
GetCurrentUser == {u \in Users : Exists(u)}

\* change_password: the hash that get_current_user loaded is verified.
BeginChange(r) ==
    \E u \in GetCurrentUser, p \in Passwords :
       /\ \/ password[u] # p /\ Reply(r, "refused")
          \/ password[u] = p /\ Open(r, [Idle EXCEPT !.op = "change", !.user = u])
       /\ UNCHANGED <<aware, userVars, secretVars, numbered>>

\* Faulty variant: an empty new password is accepted.
CommitChangeToEmpty(r) ==
    /\ req[r].op = "change"
    /\ password' = [password EXCEPT ![req[r].user] = "empty"]
    /\ Close(r, "ok")
    /\ UNCHANGED <<aware, email, name, verified, linked, secretVars, numbered>>

\* It is overwritten whatever is stored by then.
CommitChange(r) ==
    /\ req[r].op = "change"
    /\ \E p \in Passwords : password' = [password EXCEPT ![req[r].user] = p]
    /\ Close(r, "ok")
    /\ UNCHANGED <<aware, email, name, verified, linked, secretVars, numbered>>

-----------------------------------------------------------------------------
(* OAuth.                                                                  *)

\* authorize: the state goes to Redis at once, for 600 seconds.
Authorize(r) ==
    /\ Reply(r, "ok")
    /\ NextNumber
    /\ InsertSecret(numbered + 1, "state", None)
    /\ UNCHANGED <<aware, userVars>>

\* handle_callback: GET of the state, for the provider it was made for.
BeginCallback(r) ==
    \E s \in Secrets :
       /\ \/ s \notin Stored("state") /\ Reply(r, "refused")
          \/ s \in Stored("state")
             /\ Open(r, [Idle EXCEPT !.op = "callback", !.secret = s])
       /\ UNCHANGED <<aware, userVars, secretVars, numbered>>

\* DELETE of the state, gone by now or not; the provider is asked next.
TakeState(r) ==
    /\ req[r].op = "callback"
    /\ spent' = spent \cup {req[r].secret}
    /\ gone' = gone \cup {req[r].secret}
    /\ req' = [req EXCEPT ![r] = [Idle EXCEPT !.op = "profile"]]
    /\ answer' = "none"
    /\ UNCHANGED <<aware, userVars, kind, owner, expired, numbered>>

\* The loop over the suffixes takes the first name nobody has; a long name is
\* then cut back to its 39 characters, taken or not.
UsernamesFor(login) ==
    {n \in Names :
       /\ n[1] = login
       /\ IF login \in LongLogins THEN n[2] = 0
          ELSE /\ ByName(n) = {}
               /\ \A k \in 0..Cardinality(Users) :
                     ByName(<<login, k>>) = {} => n[2] <= k}

\* What _fetch_google_profile and _fetch_github_profile bring back; an error of
\* the provider ends the request (Fail).
Profiles == [identity : Identities, email : Emails, login : Logins]

\* The provider's profile and the user it is for: by the link, by the address,
\* or a new one.
LoadProfile(r) ==
    /\ req[r].op = "profile"
    /\ \E p \in Profiles :
          LET q == [Idle EXCEPT !.identity = p.identity, !.email = p.email]
              Go(next) == req' = [req EXCEPT ![r] = next]
          IN  \/ /\ IsLinked(p.identity)
                 /\ Go([q EXCEPT !.op = "sign_in", !.user = linked[p.identity]])
              \/ /\ ~IsLinked(p.identity)
                 /\ \E u \in ByEmail(p.email) : Go([q EXCEPT !.op = "link", !.user = u])
              \/ /\ ~IsLinked(p.identity) /\ ByEmail(p.email) = {}
                 /\ \E n \in UsernamesFor(p.login) :
                       Go([q EXCEPT !.op = "create", !.name = n])
    /\ answer' = "none"
    /\ UNCHANGED <<aware, userVars, secretVars, numbered>>

\* A known link is updated with the provider's new tokens and profile.
CommitSignIn(r) ==
    /\ req[r].op = "sign_in"
    /\ Close(r, "ok")
    /\ UNCHANGED <<aware, userVars, secretVars, numbered>>

\* A new link of an account found by its address, whose own password and
\* verified flag stay.
CommitLink(r) ==
    /\ req[r].op = "link"
    /\ IF IsLinked(req[r].identity)
       THEN Close(r, "conflict") /\ UNCHANGED linked
       ELSE /\ linked' = [linked EXCEPT ![req[r].identity] = req[r].user]
            /\ CloseInserting(r)
    /\ UNCHANGED <<aware, email, name, password, verified, secretVars, numbered>>

\* Faulty variant: the new user is committed before its link is inserted.
CommitCreateFirst(r) ==
    /\ req[r].op = "create"
    /\ ~KeysTaken(req[r].email, req[r].name)
    /\ \E u \in Users :
          /\ CreateUser(u, req[r].email, req[r].name, None, FALSE)
          /\ req' = [req EXCEPT ![r].op = "link", ![r].user = u]
    /\ answer' = "none"
    /\ UNCHANGED <<aware, linked, secretVars, numbered>>

\* A new user, verified by the provider and without a password, and its link:
\* both INSERTs are in the transaction that issues the tokens.
CommitCreate(r) ==
    /\ req[r].op = "create"
    /\ IF KeysTaken(req[r].email, req[r].name) \/ IsLinked(req[r].identity)
       THEN Close(r, "conflict") /\ UNCHANGED userVars
       ELSE \E u \in Users :
               /\ CreateUser(u, req[r].email, req[r].name, None, TRUE)
               /\ linked' = [linked EXCEPT ![req[r].identity] = u]
               /\ CloseInserting(r)
    /\ UNCHANGED <<aware, secretVars, numbered>>

-----------------------------------------------------------------------------
(* Time.                                                                   *)

\* A code or a token passes its expires_at; Redis drops a state.
Expire(s) ==
    /\ \/ s \in (Stored("code") \cup Stored("token")) \ expired
          /\ expired' = expired \cup {s} /\ UNCHANGED gone
       \/ s \in Stored("state")
          /\ gone' = gone \cup {s} /\ UNCHANGED expired
    /\ answer' = "none"
    /\ UNCHANGED <<aware, userVars, kind, owner, spent, numbered, req>>

\* _cleanup_otps: the expired codes, consumed or not. Tokens stay.
CleanupOtps ==
    /\ Stored("code") \cap expired # {}
    /\ gone' = gone \cup (Stored("code") \cap expired)
    /\ answer' = "none"
    /\ UNCHANGED <<aware, userVars, kind, owner, spent, expired, numbered, req>>

-----------------------------------------------------------------------------
(* The migration of the timestamps, either way: ALTER TABLE waits for every  *)
(* open transaction, which a callback has not begun before its profile.      *)

NoTransaction == \A r \in Requests : req[r].op \in {"idle", "callback", "profile"}

Upgrade ==
    /\ ~aware /\ NoTransaction
    /\ aware' = TRUE
    /\ answer' = "none"
    /\ UNCHANGED <<userVars, secretVars, numbered, req>>

Downgrade ==
    /\ aware /\ NoTransaction
    /\ aware' = FALSE
    /\ answer' = "none"
    /\ UNCHANGED <<userVars, secretVars, numbered, req>>

-----------------------------------------------------------------------------
\* The endpoints, each with its commit.
Endpoints(r) ==
    \/ BeginRegister(r) \/ CommitRegister(r)
    \/ Login(r)
    \/ BeginVerify(r) \/ CommitVerify(r)
    \/ BeginIssue(r, "resend") \/ CommitIssue(r, "resend", "code")
    \/ BeginIssue(r, "forgot") \/ CommitIssue(r, "forgot", "token")
    \/ BeginReset(r) \/ CommitReset(r)
    \/ BeginChange(r) \/ CommitChange(r)
    \/ Authorize(r)
    \/ BeginCallback(r) \/ TakeState(r) \/ LoadProfile(r)
    \/ CommitSignIn(r) \/ CommitLink(r) \/ CommitCreate(r)

Next ==
    \/ \E r \in Requests : Endpoints(r) \/ Fail(r)
    \/ \E s \in Secrets : Expire(s)
    \/ CleanupOtps
    \/ Upgrade \/ Downgrade

Spec == Init /\ [][Next]_vars

-----------------------------------------------------------------------------
(* Properties.                                                             *)

\* verify_otp, reset_password and handle_callback accept a secret only from a
\* request that presented it while it was unspent: a second acceptance takes
\* two requests that overlap, never one that comes later.
Codes == INSTANCE OneTimeCodes WITH
    Holders   <- Requests,
    NoSecret  <- 0,
    presented <- [r \in Requests |->
                    IF req[r].op \in {"verify", "reset", "callback"}
                    THEN req[r].secret ELSE 0]

AcceptedOnce == Codes!CodesSpec

\* An address counts as verified only when a code sent to it was consumed or
\* a provider vouches for an identity of the account: neither a registration,
\* a reset nor the linking of an identity to an account found by its address
\* sets the flag.
VerifiedMeansProven ==
    \A u \in Users : verified[u] =>
       \/ \E s \in spent : kind[s] = "code" /\ owner[s] = u
       \/ \E i \in Identities : linked[i] = u

\* No interleaving and no failure leaves an account nobody can enter: it has a
\* password or a linked identity, from its first commit on.
EveryAccountCanSignIn ==
    \A u \in Users : Exists(u) =>
       password[u] # None \/ \E i \in Identities : linked[i] = u

\* The checks of register and of the callback before their INSERTs suffice: an
\* IntegrityError has the cause that another account or link was committed in
\* between, or that the login was cut to the width of its column.
ConflictHasACause ==
    [][\A r \in Requests :
         (req[r].op # "idle" /\ req'[r].op = "idle" /\ answer' = "conflict") =>
            \/ req[r].raced
            \/ req[r].op = "create" /\ req[r].name[1] \in LongLogins]_vars
=============================================================================
