--------------------------- MODULE AuthTokensProofs ---------------------------
(***************************************************************************)
(* The safety invariants of AuthTokens, for any number of tokens, requests *)
(* and sweeps.                                                             *)
(***************************************************************************)
EXTENDS AuthTokens, TLAPS

-----------------------------------------------------------------------------
(* The inductive invariant.                                                *)

\* A request under way has loaded an issued token, and no sweep that it has
\* seen is still to come.
RequestsInv ==
    \A r \in Requests :
        /\ op[r] = "refresh" => loaded[r] \in Issued
        /\ readAt[r] <= sweeps

\* A row that is not there yet has no predecessor.
FreshInv == \A t \in Tokens : status[t] = "absent" => parent[t] = NoToken

\* What a refresh has loaded was live when it was read, so that the sweeps
\* bound it as they bound a live token, also after it was revoked meanwhile.
LoadedInv ==
    \A r \in Requests :
        op[r] = "refresh" /\ readAt[r] = sweeps /\ ~overlapped[loaded[r]]
            => signedInAt[loaded[r]] = sweeps

Inv ==
    /\ TypeOK
    /\ RequestsInv
    /\ FreshInv
    /\ RotationInv
    /\ NoHiddenLogin
    /\ SweepEndsEveryLogin
    /\ LoadedInv

-----------------------------------------------------------------------------
(* A step of a request that changes no token.                              *)

QuietStep ==
    /\ UNCHANGED <<tokenVars, sweeps, lineageVars>>
    /\ \A r \in Requests :
          \/ op'[r] = op[r] /\ loaded'[r] = loaded[r] /\ readAt'[r] = readAt[r]
          \/ op'[r] # "refresh" /\ readAt'[r] <= sweeps
          \/ loaded'[r] \in Live /\ readAt'[r] = sweeps

\* Whatever only takes up or lets go of a request keeps the invariant.
LEMMA QuietKeeps == Inv /\ TypeOK' /\ QuietStep => Inv'
<1> SUFFICES ASSUME Inv, TypeOK', QuietStep PROVE Inv'
    OBVIOUS
<1>1. Issued' = Issued /\ Live' = Live
    BY DEF QuietStep, tokenVars, Issued, Live
<1>2. RequestsInv'
    BY <1>1 DEF Inv, TypeOK, QuietStep, RequestsInv, Issued, Live
<1>3. FreshInv' /\ RotationInv' /\ NoHiddenLogin' /\ SweepEndsEveryLogin'
    BY <1>1 DEF Inv, QuietStep, tokenVars, lineageVars, FreshInv, RotationInv,
                NoHiddenLogin, SweepEndsEveryLogin
<1>4. LoadedInv'
    BY DEF Inv, TypeOK, QuietStep, lineageVars, LoadedInv, SweepEndsEveryLogin, Live
<1> QED
    BY <1>2, <1>3, <1>4 DEF Inv

-----------------------------------------------------------------------------
(* A step that only takes away: tokens are revoked or expire, sessions are *)
(* taken off the list together with their token.                           *)

RevokingStep ==
    /\ UNCHANGED <<replacedBy, op, loaded, readAt, lineageVars>>
    /\ \A t \in Tokens :
          /\ status'[t] = status[t] \/ (status[t] # "absent" /\ status'[t] = "revoked")
          /\ status'[t] = "live" => listed'[t] = listed[t]
    /\ \/ sweeps' = sweeps
       \/ sweeps' = sweeps + 1 /\ \A t \in Tokens : status'[t] # "live"

\* Revocations keep the invariant. A sweep overlaps whatever is under way.
LEMMA RevokingKeeps == Inv /\ TypeOK' /\ RevokingStep => Inv'
<1> SUFFICES ASSUME Inv, TypeOK', RevokingStep PROVE Inv'
    OBVIOUS
<1>1. Issued' = Issued /\ Live' \subseteq Live
    BY DEF RevokingStep, Issued, Live, Inv, TypeOK
<1>2. sweeps \in Nat /\ sweeps' \in Nat /\ \A r \in Requests : readAt[r] \in Nat
    BY AuthAssumption DEF Inv, TypeOK
<1>3. RequestsInv'
    BY <1>1, <1>2 DEF Inv, RevokingStep, RequestsInv
<1>4. FreshInv'
    BY DEF Inv, RevokingStep, lineageVars, FreshInv
<1>5. RotationInv'
    <2> SUFFICES ASSUME NEW u \in Issued, parent[u] # NoToken
                 PROVE  /\ status'[parent[u]] = "revoked"
                        /\ replacedBy[parent[u]] \in Issued
                        /\ parent[replacedBy[parent[u]]] = parent[u]
        BY <1>1 DEF RevokingStep, lineageVars, RotationInv
    <2>1. parent[u] \in Tokens
        BY DEF Inv, TypeOK, Issued
    <2> QED
        BY <2>1 DEF Inv, RevokingStep, RotationInv
<1>6. NoHiddenLogin'
    BY <1>1 DEF Inv, RevokingStep, NoHiddenLogin, Live
<1>7. SweepEndsEveryLogin'
    BY <1>1 DEF Inv, RevokingStep, lineageVars, SweepEndsEveryLogin, Live
<1>8. LoadedInv'
    BY <1>2 DEF Inv, RevokingStep, lineageVars, LoadedInv, RequestsInv
<1> QED
    BY <1>3, <1>4, <1>5, <1>6, <1>7, <1>8 DEF Inv

-----------------------------------------------------------------------------
(* The two steps that issue a token.                                       *)

\* A sign-in adds a token of its own lineage.
LEMMA SignInKeeps ==
    ASSUME Inv, TypeOK', NEW r \in Requests, CommitSignIn(r)
    PROVE  Inv'
<1>1. PICK u \in Tokens : /\ IssueToken(u, NoToken, readAt[r])
                          /\ status' = [status EXCEPT ![u] = "live"]
    BY DEF CommitSignIn
<1> USE DEF Inv, CommitSignIn, Finish, IssueToken
<1>2. sweeps' = sweeps /\ replacedBy' = replacedBy
    OBVIOUS
<1>3. Issued' = Issued \cup {u} /\ u \notin Issued
    BY <1>1 DEF Issued, TypeOK
<1>4. RequestsInv'
    BY <1>2, <1>3, AuthAssumption DEF RequestsInv, TypeOK
<1>5. FreshInv'
    BY <1>1 DEF FreshInv, TypeOK
<1>6. RotationInv'
    BY <1>1, <1>2, <1>3, AuthAssumption DEF RotationInv, TypeOK, Issued
<1>7. NoHiddenLogin'
    BY <1>1 DEF NoHiddenLogin, Live, TypeOK
<1>8. SweepEndsEveryLogin'
    BY <1>1, <1>2 DEF SweepEndsEveryLogin, Live, TypeOK
<1>9. LoadedInv'
    BY <1>1, <1>2, <1>3 DEF LoadedInv, RequestsInv, TypeOK
<1> QED
    BY <1>4, <1>5, <1>6, <1>7, <1>8, <1>9

\* A rotation hands the sign-in on to the new token and revokes the old one.
LEMMA RotationKeeps ==
    ASSUME Inv, TypeOK', NEW r \in Requests, CommitRefresh(r)
    PROVE  Inv'
<1> DEFINE t == loaded[r]
<1>1. PICK u \in Tokens :
          /\ IssueToken(u, t, readAt[r])
          /\ status' = [status EXCEPT ![u] = "live", ![t] = "revoked"]
          /\ replacedBy' = [replacedBy EXCEPT ![t] = u]
    BY DEF CommitRefresh
<1> USE DEF Inv, CommitRefresh, Finish, IssueToken
<1>2. sweeps' = sweeps
    OBVIOUS
<1>3. t \in Issued /\ t \in Tokens /\ t # NoToken /\ t # u /\ status[u] = "absent"
    BY <1>1, AuthAssumption DEF RequestsInv, Issued
<1>4. Issued' = Issued \cup {u} /\ u \notin Issued
    BY <1>1, <1>3 DEF Issued, TypeOK
<1>5. /\ status'[t] = "revoked" /\ replacedBy'[t] = u /\ parent'[u] = t
      /\ \A v \in Tokens \ {u} : parent'[v] = parent[v]
      /\ \A v \in Tokens \ {t} : replacedBy'[v] = replacedBy[v]
      /\ \A v \in Tokens \ {t, u} : status'[v] = status[v]
    BY <1>1, <1>3 DEF TypeOK
<1>6. RequestsInv'
    BY <1>2, <1>4, AuthAssumption DEF RequestsInv, TypeOK
<1>7. FreshInv'
    BY <1>1, <1>3 DEF FreshInv, TypeOK
<1>8. RotationInv'
    <2> SUFFICES ASSUME NEW v \in Issued', parent'[v] # NoToken
                 PROVE  /\ status'[parent'[v]] = "revoked"
                        /\ replacedBy'[parent'[v]] \in Issued'
                        /\ parent'[replacedBy'[parent'[v]]] = parent'[v]
        BY DEF RotationInv
    <2>1. CASE parent'[v] = t
        BY <2>1, <1>4, <1>5
    <2>2. CASE parent'[v] # t
        <3>1. v \in Issued /\ parent'[v] = parent[v]
            BY <2>2, <1>4, <1>5 DEF Issued
        <3>2. /\ status[parent[v]] = "revoked" /\ replacedBy[parent[v]] \in Issued
              /\ parent[replacedBy[parent[v]]] = parent[v] /\ parent[v] \in Tokens
            BY <3>1 DEF RotationInv, TypeOK, Issued
        <3>3. parent[v] \in Tokens \ {t, u} /\ replacedBy[parent[v]] \in Tokens \ {u}
            BY <2>2, <3>1, <3>2, <1>3 DEF Issued
        <3>4. /\ status'[parent[v]] = status[parent[v]]
              /\ replacedBy'[parent[v]] = replacedBy[parent[v]]
              /\ parent'[replacedBy[parent[v]]] = parent[replacedBy[parent[v]]]
            BY <3>3, <1>5
        <3> QED
            BY ONLY <3>1, <3>2, <3>4, <1>4
    <2> QED
        BY <2>1, <2>2
<1>9. NoHiddenLogin'
    BY <1>1, <1>5 DEF NoHiddenLogin, Live, TypeOK
<1>10. SweepEndsEveryLogin'
    <2> SUFFICES ASSUME NEW v \in Live', ~overlapped'[v] PROVE signedInAt'[v] = sweeps'
        BY DEF SweepEndsEveryLogin
    <2>1. CASE v = u
        <3>1. signedInAt'[v] = signedInAt[t]
            BY <2>1, <1>1, <1>3 DEF TypeOK
        <3>2. overlapped'[u] = (readAt[r] # sweeps \/ (t # NoToken /\ overlapped[t]))
            BY <1>1 DEF TypeOK
        <3>3. readAt[r] = sweeps /\ ~overlapped[t]
            BY <2>1, <3>2, <1>3
        <3> QED
            BY <3>1, <3>3, <1>2 DEF LoadedInv
    <2>2. CASE v # u
        BY <2>2, <1>1, <1>2, <1>5 DEF SweepEndsEveryLogin, Live, TypeOK
    <2> QED
        BY <2>1, <2>2
<1>11. LoadedInv'
    <2> SUFFICES ASSUME NEW q \in Requests, op'[q] = "refresh", readAt'[q] = sweeps',
                        ~overlapped'[loaded'[q]]
                 PROVE  signedInAt'[loaded'[q]] = sweeps'
        BY DEF LoadedInv
    <2>1. q # r /\ op[q] = "refresh" /\ readAt[q] = sweeps /\ loaded'[q] = loaded[q]
        BY <1>2 DEF TypeOK
    <2>2. loaded[q] \in Tokens \ {u}
        BY <2>1, <1>4 DEF RequestsInv, Issued
    <2> QED
        BY <2>1, <2>2, <1>1, <1>2 DEF LoadedInv, TypeOK
<1> QED
    BY <1>6, <1>7, <1>8, <1>9, <1>10, <1>11

-----------------------------------------------------------------------------
(* Types.                                                                  *)

\* Every variable keeps its type.
THEOREM TypeCorrect == Spec => []TypeOK
<1>1. Init => TypeOK
    BY AuthAssumption DEF Init, TypeOK, Answers
<1>2. TypeOK /\ [Next]_vars => TypeOK'
    <2> SUFFICES ASSUME TypeOK, [Next]_vars PROVE TypeOK'
        OBVIOUS
    <2>1. ASSUME NEW r \in Requests, BeginSignIn(r) PROVE TypeOK'
        BY <2>1, AuthAssumption DEF TypeOK, Answers, BeginSignIn, Start, tokenVars, lineageVars
    <2>2. ASSUME NEW r \in Requests, CommitSignIn(r) PROVE TypeOK'
        BY <2>2, AuthAssumption DEF TypeOK, Answers, CommitSignIn, IssueToken, Finish
    <2>3. ASSUME NEW r \in Requests, BeginRefresh(r) PROVE TypeOK'
        BY <2>3, AuthAssumption DEF TypeOK, Answers, BeginRefresh, Start, Finish, Issued,
                                    tokenVars, lineageVars
    <2>4. ASSUME NEW r \in Requests, CommitRefresh(r) PROVE TypeOK'
        <3>1. PICK u \in Tokens :
                  /\ IssueToken(u, loaded[r], readAt[r])
                  /\ status' = [status EXCEPT ![u] = "live", ![loaded[r]] = "revoked"]
                  /\ replacedBy' = [replacedBy EXCEPT ![loaded[r]] = u]
            BY <2>4 DEF CommitRefresh
        <3>2. loaded[r] \in Tokens \cup {NoToken} /\ readAt[r] \in 0..MaxSweeps
            BY DEF TypeOK
        <3>3. /\ aware' = aware /\ expired' = expired /\ sweeps' = sweeps
              /\ op' = [op EXCEPT ![r] = "idle"]
              /\ loaded' = [loaded EXCEPT ![r] = NoToken]
              /\ answer' = "ok" /\ readAt' = [readAt EXCEPT ![r] = 0]
            BY <2>4 DEF CommitRefresh, Finish
        <3>4. /\ status' \in [Tokens -> {"absent", "live", "revoked"}]
              /\ replacedBy' \in [Tokens -> Tokens \cup {NoToken}]
            BY <3>1 DEF TypeOK
        <3>5. /\ listed' \in [Tokens -> BOOLEAN]
              /\ parent' \in [Tokens -> Tokens \cup {NoToken}]
              /\ login' \in [Tokens -> Tokens \cup {NoToken}]
              /\ signedInAt' \in [Tokens -> 0..MaxSweeps]
            BY <3>1, <3>2 DEF TypeOK, IssueToken
        <3>6. overlapped' \in [Tokens -> BOOLEAN]
            BY <3>1, <3>2 DEF TypeOK, IssueToken
        <3> QED
            BY <3>3, <3>4, <3>5, <3>6, AuthAssumption DEF TypeOK, Answers
    <2>5. ASSUME NEW r \in Requests, Fail(r) PROVE TypeOK'
        BY <2>5, AuthAssumption DEF TypeOK, Answers, Fail, Finish, tokenVars, lineageVars
    <2>6. ASSUME NEW t \in Tokens, LogoutToken(t) \/ RevokeSession(t) \/ Expire(t)
          PROVE  TypeOK'
        <3>1. CASE LogoutToken(t)
            BY <3>1 DEF TypeOK, Answers, LogoutToken, requestVars, lineageVars
        <3>2. CASE RevokeSession(t)
            BY <3>2 DEF TypeOK, Answers, RevokeSession, requestVars, lineageVars
        <3>3. CASE Expire(t)
            BY <3>3 DEF TypeOK, Answers, Expire, requestVars, lineageVars
        <3> QED
            BY <2>6, <3>1, <3>2, <3>3
    <2>7. CASE RevokeAllForUser
        BY <2>7, AuthAssumption DEF TypeOK, Answers, RevokeAllForUser,
                                    requestVars, lineageVars
    <2>8. CASE CleanupExpiredRefresh
        BY <2>8, AuthAssumption DEF TypeOK, Answers, CleanupExpiredRefresh,
                                    requestVars, lineageVars
    <2>9. CASE UNCHANGED vars
        BY <2>9, AuthAssumption DEF TypeOK, Answers, vars, tokenVars, requestVars, lineageVars
    <2> QED
        BY <2>1, <2>2, <2>3, <2>4, <2>5, <2>6, <2>7, <2>8, <2>9 DEF Next
<1> QED
    BY <1>1, <1>2, PTL DEF Spec

-----------------------------------------------------------------------------
(* Safety.                                                                 *)

\* Every step is quiet, revokes, or issues a token.
LEMMA StepKeeps == Inv /\ TypeOK' /\ [Next]_vars => Inv'
<1> SUFFICES ASSUME Inv, TypeOK', [Next]_vars PROVE Inv'
    OBVIOUS
<1>1. ASSUME NEW r \in Requests, BeginSignIn(r) \/ BeginRefresh(r) \/ Fail(r)
      PROVE  Inv'
    <2>1. sweeps \in Nat
        BY AuthAssumption DEF Inv, TypeOK
    <2>2. UNCHANGED <<tokenVars, sweeps, lineageVars>>
        BY <1>1 DEF BeginSignIn, BeginRefresh, Fail
    <2>3. \A q \in Requests \ {r} :
              op'[q] = op[q] /\ loaded'[q] = loaded[q] /\ readAt'[q] = readAt[q]
        BY <1>1 DEF BeginSignIn, BeginRefresh, Fail, Start, Finish, Inv, TypeOK
    <2>4. \/ op'[r] # "refresh" /\ readAt'[r] <= sweeps
          \/ loaded'[r] \in Live /\ readAt'[r] = sweeps
        BY <1>1, <2>1 DEF BeginSignIn, BeginRefresh, Fail, Start, Finish, Live, Issued,
                         Inv, TypeOK
    <2> QED
        BY <2>2, <2>3, <2>4, QuietKeeps DEF QuietStep
<1>2. ASSUME NEW r \in Requests, CommitSignIn(r) PROVE Inv'
    BY <1>2, SignInKeeps
<1>3. ASSUME NEW r \in Requests, CommitRefresh(r) PROVE Inv'
    BY <1>3, RotationKeeps
<1>4. ASSUME NEW t \in Tokens, LogoutToken(t) \/ RevokeSession(t) \/ Expire(t)
      PROVE  Inv'
    <2>1. RevokingStep
        BY <1>4 DEF LogoutToken, RevokeSession, Expire, RevokingStep, requestVars,
                    lineageVars, Inv, TypeOK
    <2> QED
        BY <2>1, RevokingKeeps
<1>5. CASE RevokeAllForUser
    <2>1. RevokingStep
        BY <1>5 DEF RevokeAllForUser, RevokingStep, requestVars, lineageVars
    <2> QED
        BY <2>1, RevokingKeeps
<1>6. CASE CleanupExpiredRefresh
    <2>1. RevokingStep
        BY <1>6 DEF CleanupExpiredRefresh, RevokingStep, requestVars, lineageVars
    <2> QED
        BY <2>1, RevokingKeeps
<1>7. CASE UNCHANGED vars
    <2>1. QuietStep
        BY <1>7 DEF vars, requestVars, QuietStep
    <2> QED
        BY <2>1, QuietKeeps
<1> QED
    BY <1>1, <1>2, <1>3, <1>4, <1>5, <1>6, <1>7 DEF Next

\* The invariant holds in every state of the specification.
THEOREM Invariance == Spec => []Inv
<1>1. Init /\ TypeOK => Inv
    BY AuthAssumption DEF Init, Inv, RequestsInv, FreshInv, RotationInv, NoHiddenLogin,
                          SweepEndsEveryLogin, LoadedInv, Live, Issued
<1> QED
    BY <1>1, StepKeeps, TypeCorrect, PTL DEF Spec

\* A token that has a successor is revoked and names one, for any number of
\* requests that present it at once.
THEOREM RotationIsRecorded == Spec => []RotationInv
BY Invariance, PTL DEF Inv

\* A logout everywhere or a change of password leaves no live token but those
\* whose lineage it overlapped.
THEOREM SweepsEndLogins == Spec => []SweepEndsEveryLogin
BY Invariance, PTL DEF Inv

\* Every live token can be found, and ended, in the list of sessions.
THEOREM LiveTokensAreListed == Spec => []NoHiddenLogin
BY Invariance, PTL DEF Inv

-----------------------------------------------------------------------------
(* The tokens of a sign-in.                                                *)

\* A token and the one it replaces descend from the same sign-in, whose token
\* is issued.
LineageInv ==
    \A u \in Issued :
        /\ login[u] \in Issued
        /\ parent[u] # NoToken => parent[u] \in Issued /\ login[u] = login[parent[u]]

\* Two successors of one token, in the lineage of a sign-in.
Branched(l) ==
    \E v, w \in Issued : /\ v # w /\ parent[v] = parent[w]
                         /\ parent[v] # NoToken /\ login[v] = l

Newest(t) == \A v \in Issued : parent[v] # t

\* A lineage that has not branched ends in one token.
NewestInv ==
    \A t, u \in Issued :
        t # u /\ login[t] = login[u] /\ Newest(t) /\ Newest(u) => Branched(login[t])

LineagesInv == LineageInv /\ NewestInv

\* Steps that issue no token leave the lineages alone.
LEMMA OthersKeepLineages ==
    ASSUME LineagesInv, UNCHANGED lineageVars, Issued' = Issued
    PROVE  LineagesInv'
BY DEF LineagesInv, LineageInv, NewestInv, Newest, Branched, lineageVars

\* A sign-in begins a lineage, a rotation extends one at its end or branches it.
LEMMA IssueKeepsLineages ==
    ASSUME TypeOK, LineagesInv, NEW u \in Tokens, NEW from, NEW at,
           from = NoToken \/ from \in Issued, IssueToken(u, from, at),
           Issued' = Issued \cup {u}
    PROVE  LineagesInv'
<1>1. /\ u \notin Issued /\ from # u /\ u # NoToken /\ NoToken \notin Issued
      /\ Issued \subseteq Tokens
    BY AuthAssumption DEF Issued, IssueToken
<1>2. /\ parent'[u] = from /\ login'[u] = IF from = NoToken THEN u ELSE login[from]
      /\ \A v \in Issued : parent'[v] = parent[v] /\ login'[v] = login[v]
    BY <1>1 DEF IssueToken, TypeOK
<1>3. \A v \in Issued : parent[v] # u /\ login[v] # u
    BY <1>1 DEF LineagesInv, LineageInv
<1>4. LineageInv'
    BY <1>1, <1>2 DEF LineagesInv, LineageInv
<1>5. ASSUME NEW l, Branched(l)
      PROVE  Branched(l)'
    BY <1>2, <1>5 DEF Branched
<1>6. \A v \in Issued : Newest(v)' => Newest(v) /\ v # from
    BY <1>1, <1>2 DEF Newest
<1>7. ASSUME NEW l, NEW t \in Issued, l = login'[t], l = login'[u], Newest(t)'
      PROVE  Branched(l)'
    <2>1. from # NoToken /\ from \in Issued /\ l = login[t] /\ l = login[from] /\ t # from
        BY <1>2, <1>3, <1>6, <1>7
    <2>2. CASE Newest(from)
        <3>1. Branched(l)
            BY <1>6, <1>7, <2>1, <2>2 DEF LineagesInv, NewestInv
        <3> QED
            BY <1>5, <3>1
    <2>3. CASE ~Newest(from)
        <3>1. PICK v \in Issued : parent[v] = from
            BY <2>3 DEF Newest
        <3>2. login[v] = l
            BY <2>1, <3>1 DEF LineagesInv, LineageInv
        <3> QED
            BY <1>1, <1>2, <2>1, <3>1, <3>2 DEF Branched
    <2> QED
        BY <2>2, <2>3
<1>8. ASSUME NEW l, NEW t \in Issued, NEW v \in Issued, t # v, l = login'[t], l = login'[v],
             Newest(t)', Newest(v)'
      PROVE  Branched(l)'
    <2>1. Branched(l)
        BY <1>2, <1>6, <1>8 DEF LineagesInv, NewestInv
    <2> QED
        BY <1>5, <2>1
<1>9. NewestInv'
    <2> SUFFICES ASSUME NEW l, NEW t \in Issued \cup {u}, NEW v \in Issued \cup {u}, t # v,
                        l = login'[t], l = login'[v], Newest(t)', Newest(v)'
                 PROVE  Branched(l)'
        BY DEF NewestInv, Newest, Branched
    <2> QED
        BY <1>7, <1>8
<1> QED
    BY <1>4, <1>9 DEF LineagesInv

\* A sign-in has one live token, unless two refreshes of one of its tokens
\* overlapped: a live token has no successor, and is the end of its lineage.
THEOREM LoginsHaveOneLiveToken == Spec => []OneLiveTokenPerLogin
<1>1. Init => LineagesInv
    BY DEF Init, LineagesInv, LineageInv, NewestInv, Issued
<1>2. Inv /\ LineagesInv /\ [Next]_vars => LineagesInv'
    <2> SUFFICES ASSUME Inv, LineagesInv, [Next]_vars PROVE LineagesInv'
        OBVIOUS
    <2> USE DEF Inv
    <2>1. ASSUME NEW r \in Requests, CommitSignIn(r) PROVE LineagesInv'
        <3>1. PICK u \in Tokens : /\ IssueToken(u, NoToken, readAt[r])
                                  /\ status' = [status EXCEPT ![u] = "live"]
            BY <2>1 DEF CommitSignIn
        <3>2. Issued' = Issued \cup {u}
            BY <3>1 DEF Issued, TypeOK
        <3> QED
            BY <3>1, <3>2, IssueKeepsLineages
    <2>2. ASSUME NEW r \in Requests, CommitRefresh(r) PROVE LineagesInv'
        <3>1. PICK u \in Tokens :
                  /\ IssueToken(u, loaded[r], readAt[r])
                  /\ status' = [status EXCEPT ![u] = "live", ![loaded[r]] = "revoked"]
            BY <2>2 DEF CommitRefresh
        <3>2. loaded[r] \in Issued
            BY <2>2 DEF CommitRefresh, RequestsInv
        <3>3. Issued' = Issued \cup {u}
            BY <3>1, <3>2 DEF Issued, TypeOK, IssueToken
        <3> QED
            BY <3>1, <3>2, <3>3, IssueKeepsLineages
    <2>3. ASSUME NEW r \in Requests, BeginSignIn(r) \/ BeginRefresh(r) \/ Fail(r)
          PROVE  LineagesInv'
        <3>1. UNCHANGED <<status, lineageVars>>
            BY <2>3 DEF BeginSignIn, BeginRefresh, Fail, tokenVars
        <3> QED
            BY <3>1, OthersKeepLineages DEF Issued
    <2>4. ASSUME NEW t \in Tokens, LogoutToken(t) \/ RevokeSession(t) \/ Expire(t)
          PROVE  LineagesInv'
        <3>1. UNCHANGED lineageVars
            BY <2>4 DEF LogoutToken, RevokeSession, Expire
        <3>2. Issued' = Issued
            BY <2>4 DEF LogoutToken, RevokeSession, Expire, Issued, TypeOK
        <3> QED
            BY <3>1, <3>2, OthersKeepLineages
    <2>5. CASE RevokeAllForUser \/ CleanupExpiredRefresh
        <3>1. UNCHANGED lineageVars
            BY <2>5 DEF RevokeAllForUser, CleanupExpiredRefresh
        <3>2. Issued' = Issued
            BY <2>5 DEF RevokeAllForUser, CleanupExpiredRefresh, Issued, TypeOK
        <3> QED
            BY <3>1, <3>2, OthersKeepLineages
    <2>6. CASE UNCHANGED vars
        BY <2>6, OthersKeepLineages DEF vars, tokenVars, Issued
    <2> QED
        BY <2>1, <2>2, <2>3, <2>4, <2>5, <2>6 DEF Next
<1>3. Inv /\ LineagesInv => OneLiveTokenPerLogin
    <2> SUFFICES ASSUME Inv, LineagesInv, NEW t \in Live, NEW u \in Live, t # u,
                        login[t] = login[u]
                 PROVE  Branched(login[t])
        BY DEF OneLiveTokenPerLogin, Branched
    <2>1. t \in Issued /\ u \in Issued /\ t # NoToken /\ u # NoToken
        BY AuthAssumption DEF Live, Issued
    <2>2. Newest(t) /\ Newest(u)
        BY <2>1 DEF Inv, RotationInv, Newest, Live
    <2> QED
        BY <2>1, <2>2 DEF LineagesInv, NewestInv
<1> QED
    BY <1>1, <1>2, <1>3, Invariance, PTL DEF Spec
-----------------------------------------------------------------------------
(* Ended logins.                                                           *)

\* No step brings an ended login back: a sign-in issues a token of its own, a
\* refresh loads a live token, and one that commits extends the login of the
\* token it had loaded.
LEMMA EndedStep ==
    ASSUME Inv, [Next]_vars, NEW l \in Issued, Ended(l)
    PROVE  Ended(l)'
<1> USE DEF Inv
<1>1. ASSUME NEW r \in Requests, CommitSignIn(r) PROVE Ended(l)'
    <2>1. PICK u \in Tokens : /\ IssueToken(u, NoToken, readAt[r])
                              /\ status' = [status EXCEPT ![u] = "live"]
        BY <1>1 DEF CommitSignIn
    <2>2. u # l /\ login'[u] = u /\ u \notin Issued
        BY <2>1 DEF IssueToken, Issued, TypeOK
    <2>3. \A t \in Tokens \ {u} : status'[t] = status[t] /\ login'[t] = login[t]
        BY <2>1 DEF IssueToken, TypeOK
    <2>4. \A t \in Live' : login'[t] # l
        BY <2>2, <2>3 DEF Ended, Live
    <2>5. \A q \in Requests :
              op'[q] = "refresh" => op[q] = "refresh" /\ loaded'[q] = loaded[q]
        BY <1>1 DEF CommitSignIn, Finish, TypeOK
    <2>6. \A q \in Requests : op[q] = "refresh" => loaded[q] \in Tokens \ {u}
        BY <2>2 DEF RequestsInv, Issued
    <2> QED
        BY <2>3, <2>4, <2>5, <2>6 DEF Ended
<1>2. ASSUME NEW r \in Requests, CommitRefresh(r) PROVE Ended(l)'
    <2>1. PICK u \in Tokens :
              /\ IssueToken(u, loaded[r], readAt[r])
              /\ status' = [status EXCEPT ![u] = "live", ![loaded[r]] = "revoked"]
        BY <1>2 DEF CommitRefresh
    <2>2. op[r] = "refresh" /\ loaded[r] \in Issued /\ loaded[r] # NoToken
        BY <1>2, AuthAssumption DEF CommitRefresh, RequestsInv, Issued
    <2>3. login'[u] = login[loaded[r]] /\ u \notin Issued
        BY <2>1, <2>2 DEF IssueToken, Issued, TypeOK
    <2>4. login'[u] # l
        BY <2>2, <2>3 DEF Ended
    <2>5. \A t \in Tokens \ {u} :
              login'[t] = login[t] /\ (status'[t] = "live" => status[t] = "live")
        BY <2>1 DEF IssueToken, TypeOK
    <2>6. \A t \in Live' : login'[t] # l
        BY <2>4, <2>5 DEF Ended, Live
    <2>7. \A q \in Requests :
              op'[q] = "refresh" => op[q] = "refresh" /\ loaded'[q] = loaded[q]
        BY <1>2 DEF CommitRefresh, Finish, TypeOK
    <2>8. \A q \in Requests : op[q] = "refresh" => loaded[q] \in Tokens \ {u}
        BY <2>3 DEF RequestsInv, Issued
    <2> QED
        BY <2>5, <2>6, <2>7, <2>8 DEF Ended
<1>3. ASSUME NEW r \in Requests, BeginSignIn(r) \/ BeginRefresh(r) \/ Fail(r)
      PROVE  Ended(l)'
    <2>1. UNCHANGED <<status, login>>
        BY <1>3 DEF BeginSignIn, BeginRefresh, Fail, tokenVars, lineageVars
    <2>2. \A q \in Requests :
              op'[q] = "refresh" =>
                  \/ op[q] = "refresh" /\ loaded'[q] = loaded[q]
                  \/ loaded'[q] \in Live
        BY <1>3 DEF BeginSignIn, BeginRefresh, Fail, Start, Finish, Live, Issued, TypeOK
    <2> QED
        BY <2>1, <2>2 DEF Ended, Live
<1>4. ASSUME NEW t \in Tokens, LogoutToken(t) \/ RevokeSession(t) \/ Expire(t)
      PROVE  Ended(l)'
    <2>1. UNCHANGED <<op, loaded, login>> /\ Live' \subseteq Live
        BY <1>4 DEF LogoutToken, RevokeSession, Expire, requestVars, lineageVars, Live, TypeOK
    <2> QED
        BY <2>1 DEF Ended
<1>5. CASE RevokeAllForUser \/ CleanupExpiredRefresh
    <2>1. UNCHANGED <<op, loaded, login>> /\ Live' \subseteq Live
        BY <1>5 DEF RevokeAllForUser, CleanupExpiredRefresh, requestVars, lineageVars, Live
    <2> QED
        BY <2>1 DEF Ended
<1>6. CASE UNCHANGED vars
    BY <1>6 DEF vars, tokenVars, requestVars, lineageVars, Ended, Live
<1> QED
    BY <1>1, <1>2, <1>3, <1>4, <1>5, <1>6 DEF Next

\* Once none of a sign-in's tokens is live and none is being refreshed, no
\* interleaving of refreshes, revocations and other sign-ins revives it.
THEOREM EndedLoginsAreFinal == Spec => EndedLoginsStayEnded
<1>1. Inv /\ [Next]_vars => [\A l \in Issued : Ended(l) => Ended(l)']_vars
    BY EndedStep
<1> QED
    BY <1>1, Invariance, PTL DEF Spec, EndedLoginsStayEnded
=============================================================================
