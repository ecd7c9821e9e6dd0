---------------------------- MODULE OneTimeCodes -----------------------------
(***************************************************************************)
(* What a one-time secret promises: the code of a verification mail, the   *)
(* token of a reset mail and the state of an OAuth redirect. A holder      *)
(* presents a secret while it is unspent; accepting it spends it. Requests *)
(* that presented it together may all be accepted, and none that presents  *)
(* it later.                                                               *)
(***************************************************************************)
CONSTANTS
    Holders,     \* the requests
    Secrets,
    NoSecret     \* no member of Secrets

VARIABLES
    spent,       \* the secrets accepted at least once
    presented    \* what each holder has presented and is not yet answered for

codeVars == <<spent, presented>>

CodesInit ==
    /\ spent = {}
    /\ presented = [h \in Holders |-> NoSecret]

Present(h) ==
    /\ presented[h] = NoSecret
    /\ \E s \in Secrets \ spent : presented' = [presented EXCEPT ![h] = s]
    /\ UNCHANGED spent

Accept(h) ==
    /\ presented[h] # NoSecret
    /\ spent' = spent \cup {presented[h]}
    /\ presented' = [presented EXCEPT ![h] = NoSecret]

Withdraw(h) ==
    /\ presented[h] # NoSecret
    /\ presented' = [presented EXCEPT ![h] = NoSecret]
    /\ UNCHANGED spent

CodesNext == \E h \in Holders : Present(h) \/ Accept(h) \/ Withdraw(h)

CodesSpec == CodesInit /\ [][CodesNext]_codeVars
=============================================================================
