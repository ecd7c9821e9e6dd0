----------------------------- MODULE AuthTokens ------------------------------
(***************************************************************************)
(* Refresh tokens and login sessions of one user: sign-in, rotation, the   *)
(* ways to revoke, and the cleanup.                                        *)
(*                                                                         *)
(* A sign-in or a refresh reads its credential in one step and commits in  *)
(* another; the other requests read nothing that a concurrent request      *)
(* could change under them, and are one step. The rows of this module are  *)
(* never deleted. Passwords, e-mailed codes and OAuth are only present as  *)
(* the sign-ins and the revocations they lead to.                          *)
(***************************************************************************)
EXTENDS Naturals, FiniteSets

CONSTANTS
    Tokens,      \* rows of refresh_tokens, and of user_sessions: one each
    Requests,    \* slots for concurrent requests
    Schemas,     \* the timestamp columns a database may have: aware (TRUE) or not
    MaxSweeps,   \* bound on the revocations of all tokens
    NoToken

ASSUME AuthAssumption ==
    /\ NoToken \notin Tokens
    /\ Schemas \subseteq BOOLEAN /\ Schemas # {}
    /\ MaxSweeps \in Nat

VARIABLES
    aware,       \* the columns' schema: timestamptz (migration d70e7d786901)
    \* a token: revoked_at, its age, replaced_by_id; its session's revoked_at
    status, expired, replacedBy, listed,
    \* a request: what it does, the token it has loaded
    op, loaded,
    \* the answer the last step gave, "none" when it gave none
    answer,
    \* history: sweeps committed, and those committed when a request read its
    \* credential; a token's predecessor, the sign-in it descends from, how
    \* many sweeps that had seen, and whether a sweep overlapped its lineage
    sweeps, readAt, parent, login, signedInAt, overlapped

tokenVars   == <<status, expired, replacedBy, listed>>
requestVars == <<op, loaded>>
lineageVars == <<parent, login, signedInAt, overlapped>>
vars == <<aware, tokenVars, requestVars, answer, sweeps, readAt, lineageVars>>

Answers == {"none", "ok", "expired", "revoked", "type_error", "failed"}

TypeOK ==
    /\ aware \in Schemas
    /\ status \in [Tokens -> {"absent", "live", "revoked"}]
    /\ expired \in [Tokens -> BOOLEAN]
    /\ replacedBy \in [Tokens -> Tokens \cup {NoToken}]
    /\ listed \in [Tokens -> BOOLEAN]
    /\ op \in [Requests -> {"idle", "sign_in", "refresh"}]
    /\ loaded \in [Requests -> Tokens \cup {NoToken}]
    /\ answer \in Answers
    /\ sweeps \in 0..MaxSweeps
    /\ readAt \in [Requests -> 0..MaxSweeps]
    /\ parent \in [Tokens -> Tokens \cup {NoToken}]
    /\ login \in [Tokens -> Tokens \cup {NoToken}]
    /\ signedInAt \in [Tokens -> 0..MaxSweeps]
    /\ overlapped \in [Tokens -> BOOLEAN]

Init ==
    /\ aware \in Schemas
    /\ status = [t \in Tokens |-> "absent"]
    /\ expired = [t \in Tokens |-> FALSE]
    /\ replacedBy = [t \in Tokens |-> NoToken]
    /\ listed = [t \in Tokens |-> FALSE]
    /\ op = [r \in Requests |-> "idle"]
    /\ loaded = [r \in Requests |-> NoToken]
    /\ answer = "none"
    /\ sweeps = 0
    /\ readAt = [r \in Requests |-> 0]
    /\ parent = [t \in Tokens |-> NoToken]
    /\ login = [t \in Tokens |-> NoToken]
    /\ signedInAt = [t \in Tokens |-> 0]
    /\ overlapped = [t \in Tokens |-> FALSE]

Live   == {t \in Tokens : status[t] = "live"}
Issued == {t \in Tokens : status[t] # "absent"}

Start(r, what, token) ==
    /\ op' = [op EXCEPT ![r] = what]
    /\ loaded' = [loaded EXCEPT ![r] = token]
    /\ answer' = "none"
    /\ readAt' = [readAt EXCEPT ![r] = sweeps]

Finish(r, result) ==
    /\ op' = [op EXCEPT ![r] = "idle"]
    /\ loaded' = [loaded EXCEPT ![r] = NoToken]
    /\ answer' = result
    /\ readAt' = [readAt EXCEPT ![r] = 0]

-----------------------------------------------------------------------------
(* Sign-in and rotation.                                                   *)

\* register, verify_otp, login or the OAuth callback accept a credential.
BeginSignIn(r) ==
    /\ op[r] = "idle"
    /\ Start(r, "sign_in", NoToken)
    /\ UNCHANGED <<aware, tokenVars, sweeps, lineageVars>>

\* _issue_tokens: a token and its session. `from` is the token it replaces.
IssueToken(u, from, at) ==
    /\ status[u] = "absent"
    /\ listed' = [listed EXCEPT ![u] = TRUE]
    /\ parent' = [parent EXCEPT ![u] = from]
    /\ login' = [login EXCEPT ![u] = IF from = NoToken THEN u ELSE login[from]]
    /\ signedInAt' = [signedInAt EXCEPT
                        ![u] = IF from = NoToken THEN at ELSE signedInAt[from]]
    /\ overlapped' = [overlapped EXCEPT
                        ![u] = at # sweeps \/ (from # NoToken /\ overlapped[from])]

\* Faulty variant: a new token waits for its first use.
CommitSignInPending(r) ==
    /\ op[r] = "sign_in"
    /\ \E u \in Tokens :
          /\ IssueToken(u, NoToken, readAt[r])
          /\ status' = [status EXCEPT ![u] = "pending"]
    /\ Finish(r, "ok")
    /\ UNCHANGED <<aware, expired, replacedBy, sweeps>>

CommitSignIn(r) ==
    /\ op[r] = "sign_in"
    /\ \E u \in Tokens :
          /\ IssueToken(u, NoToken, readAt[r])
          /\ status' = [status EXCEPT ![u] = "live"]
    /\ Finish(r, "ok")
    /\ UNCHANGED <<aware, expired, replacedBy, sweeps>>

\* Faulty variant: a token is good until it expires.
BeginRefreshUnchecked(r) ==
    /\ op[r] = "idle"
    /\ \E t \in Issued : ~expired[t] /\ Start(r, "refresh", t)
    /\ UNCHANGED <<aware, tokenVars, sweeps, lineageVars>>

\* refresh up to its decision, in the order of the code: the JWT's own expiry;
\* a revoked row (revoke_all_for_user is undone by the exception that follows
\* it, because get_db rolls back); then `rt.expires_at < _db_now()`, which
\* raises TypeError on a column with a time zone. A live token goes on.
BeginRefresh(r) ==
    /\ op[r] = "idle"
    /\ \E t \in Issued :
          \/ expired[t] /\ Finish(r, "expired")
          \/ ~expired[t] /\ status[t] = "revoked" /\ Finish(r, "revoked")
          \/ ~expired[t] /\ status[t] = "live" /\ aware /\ Finish(r, "type_error")
          \/ ~expired[t] /\ status[t] = "live" /\ ~aware /\ Start(r, "refresh", t)
    /\ UNCHANGED <<aware, tokenVars, sweeps, lineageVars>>

\* Faulty variant: the token that was presented is only marked as replaced.
CommitRefreshKeepsOld(r) ==
    /\ op[r] = "refresh"
    /\ \E u \in Tokens :
          /\ IssueToken(u, loaded[r], readAt[r])
          /\ status' = [status EXCEPT ![u] = "live"]
          /\ replacedBy' = [replacedBy EXCEPT ![loaded[r]] = u]
    /\ Finish(r, "ok")
    /\ UNCHANGED <<aware, expired, sweeps>>

\* Faulty variant: revoke is called without its second argument.
CommitRefreshForgetsSuccessor(r) ==
    /\ op[r] = "refresh"
    /\ \E u \in Tokens :
          /\ IssueToken(u, loaded[r], readAt[r])
          /\ status' = [status EXCEPT ![u] = "live", ![loaded[r]] = "revoked"]
    /\ Finish(r, "ok")
    /\ UNCHANGED <<aware, expired, replacedBy, sweeps>>

\* The new token, its session and the old token's revoked_at and replaced_by_id
\* in one commit. The UPDATE is by primary key: what became of the old token
\* since it was read is overwritten.
CommitRefresh(r) ==
    /\ op[r] = "refresh"
    /\ \E u \in Tokens :
          /\ IssueToken(u, loaded[r], readAt[r])
          /\ status' = [status EXCEPT ![u] = "live", ![loaded[r]] = "revoked"]
          /\ replacedBy' = [replacedBy EXCEPT ![loaded[r]] = u]
    /\ Finish(r, "ok")
    /\ UNCHANGED <<aware, expired, sweeps>>

\* Any error before the commit rolls back.
Fail(r) ==
    /\ op[r] # "idle"
    /\ Finish(r, "failed")
    /\ UNCHANGED <<aware, tokenVars, sweeps, lineageVars>>

-----------------------------------------------------------------------------
(* Revocation.                                                             *)

\* logout with a refresh token. An old one is revoked again.
LogoutToken(t) ==
    /\ status[t] # "absent"
    /\ status' = [status EXCEPT ![t] = "revoked"]
    /\ answer' = "none"
    /\ UNCHANGED <<aware, expired, replacedBy, listed, requestVars, sweeps, readAt, lineageVars>>

\* Faulty variant: only tokens that have not been replaced by another.
RevokeAllForUserNewest ==
    /\ sweeps < MaxSweeps
    /\ sweeps' = sweeps + 1
    /\ status' = [t \in Tokens |->
                    IF status[t] = "live" /\ parent[t] = NoToken THEN "revoked" ELSE status[t]]
    /\ answer' = "none"
    /\ UNCHANGED <<aware, expired, replacedBy, listed, requestVars, readAt, lineageVars>>

\* revoke_all_for_user: logout without a token, change_password and
\* reset_password. One UPDATE of the rows that are committed by then. The
\* sessions stay as they are.
RevokeAllForUser ==
    /\ sweeps < MaxSweeps
    /\ sweeps' = sweeps + 1
    /\ status' = [t \in Tokens |-> IF status[t] = "live" THEN "revoked" ELSE status[t]]
    /\ answer' = "none"
    /\ UNCHANGED <<aware, expired, replacedBy, listed, requestVars, readAt, lineageVars>>

\* Faulty variant: the session alone.
RevokeSessionOnly(t) ==
    /\ status[t] # "absent"
    /\ listed' = [listed EXCEPT ![t] = FALSE]
    /\ answer' = "none"
    /\ UNCHANGED <<aware, status, expired, replacedBy, requestVars, sweeps, readAt, lineageVars>>

\* revoke_session: the session and the token it was created with.
RevokeSession(t) ==
    /\ status[t] # "absent"
    /\ listed' = [listed EXCEPT ![t] = FALSE]
    /\ status' = [status EXCEPT ![t] = "revoked"]
    /\ answer' = "none"
    /\ UNCHANGED <<aware, expired, replacedBy, requestVars, sweeps, readAt, lineageVars>>

\* Seven or thirty days go by.
Expire(t) ==
    /\ status[t] # "absent" /\ ~expired[t]
    /\ expired' = [expired EXCEPT ![t] = TRUE]
    /\ answer' = "none"
    /\ UNCHANGED <<aware, status, replacedBy, listed, requestVars, sweeps, readAt, lineageVars>>

\* _cleanup_expired_refresh.
CleanupExpiredRefresh ==
    /\ \E t \in Live : expired[t]
    /\ status' = [t \in Tokens |->
                    IF status[t] = "live" /\ expired[t] THEN "revoked" ELSE status[t]]
    /\ answer' = "none"
    /\ UNCHANGED <<aware, expired, replacedBy, listed, requestVars, sweeps, readAt, lineageVars>>

-----------------------------------------------------------------------------
Next ==
    \/ \E r \in Requests : \/ BeginSignIn(r) \/ CommitSignIn(r)
                           \/ BeginRefresh(r) \/ CommitRefresh(r) \/ Fail(r)
    \/ \E t \in Tokens : LogoutToken(t) \/ RevokeSession(t) \/ Expire(t)
    \/ RevokeAllForUser
    \/ CleanupExpiredRefresh

Spec == Init /\ [][Next]_vars

-----------------------------------------------------------------------------
(* Properties.                                                             *)

\* Rotation: a token that has a successor is revoked, and replaced_by_id names
\* a successor of it, also when several requests present it at once.
RotationInv ==
    \A u \in Issued : parent[u] # NoToken =>
        LET t == parent[u] IN
            /\ status[t] = "revoked"
            /\ replacedBy[t] \in Issued /\ parent[replacedBy[t]] = t

\* A sign-in has one live token at a time, unless two refreshes of one of its
\* tokens overlapped.
OneLiveTokenPerLogin ==
    \A t, u \in Live : t # u /\ login[t] = login[u] =>
        \E v, w \in Issued : /\ v # w /\ parent[v] = parent[w]
                             /\ parent[v] # NoToken /\ login[v] = login[t]

\* A logout everywhere or a change of password ends every earlier login, but
\* for one whose sign-in or refresh was under way when it was committed.
SweepEndsEveryLogin ==
    \A t \in Live : ~overlapped[t] => signedInAt[t] = sweeps

\* Every live token has a session in the user's list, so that the user can
\* revoke it there, whatever rotations and revocations came before.
NoHiddenLogin == \A t \in Live : listed[t]

\* A login has ended when none of its tokens is live and no refresh of one of
\* them is under way.
Ended(l) ==
    /\ \A t \in Live : login[t] # l
    /\ \A r \in Requests : op[r] = "refresh" => login[loaded[r]] # l

\* An ended login never comes back: whatever of it is presented, and however
\* many requests and revocations interleave, only a new sign-in helps.
EndedLoginsStayEnded == [][\A l \in Issued : Ended(l) => Ended(l)']_vars

\* "Token reuse detection: revoke all descendants for the user": once a revoked
\* token has been presented, none of the user's tokens is live.
ReuseRevokesAll == answer = "revoked" => Live = {}

\* "UTC in the naive format used by the existing PostgreSQL columns": no refresh
\* stumbles over the expiry of the row it has loaded.
ExpiryCanBeCompared == answer # "type_error"
=============================================================================
