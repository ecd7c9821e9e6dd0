---------------------------- MODULE MCChatStream -----------------------------
(* Small instances of ChatStream for TLC.                                  *)
EXTENDS ChatStream, TLC

\* Enough for a fallback; the order repeats the default and has a stray name.
MCProviders == {"claude", "openai"}
MCFallbackOrder == <<"claude", "retired", "openai", "claude">>

\* Sends are interchangeable; safety runs only.
Symmetry == Permutations(Sends)
=============================================================================
