---------------------------- MODULE MCAuthTokens -----------------------------
(* Small instances of AuthTokens for TLC.                                  *)
EXTENDS AuthTokens, TLC

\* Tokens and requests are interchangeable; safety runs only.
Symmetry == Permutations(Tokens) \cup Permutations(Requests)

BothSchemas    == {TRUE, FALSE}
MigratedSchema == {TRUE}
=============================================================================
