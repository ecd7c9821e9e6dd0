--------------------------- MODULE AnswerContract ---------------------------
(***************************************************************************)
(* What an answer promises its reader, whoever writes it: the parts that   *)
(* arrive are all of one author; a row is only completed with everything   *)
(* that has arrived, under that author's name, and before the end is       *)
(* announced; an error is announced before its row keeps what had arrived. *)
(* A row is written once. An answer may stop at any moment, and nothing    *)
(* then follows.                                                           *)
(***************************************************************************)
EXTENDS Sequences

CONSTANTS
    Answers,
    Authors,
    NoAuthor     \* no member of Authors

VARIABLES
    row,         \* "absent", "streaming", "complete" or "error"
    kept,        \* the text in the row
    author,      \* the author the row names
    arrived,     \* the parts the reader has received, each with its author
    told         \* the last event: "nothing", "start", "error" or "done"

answerVars == <<row, kept, author, arrived, told>>

AnswerInit ==
    /\ row = [a \in Answers |-> "absent"]
    /\ kept = [a \in Answers |-> <<>>]
    /\ author = [a \in Answers |-> NoAuthor]
    /\ arrived = [a \in Answers |-> <<>>]
    /\ told = [a \in Answers |-> "nothing"]

Move(f, a, from, to) ==
    /\ f[a] = from
    /\ f' = [f EXCEPT ![a] = to]

\* The row is there before the first event.
Open(a) ==
    /\ Move(row, a, "absent", "streaming")
    /\ UNCHANGED <<kept, author, arrived, told>>

Begin(a) ==
    /\ row[a] = "streaming"
    /\ Move(told, a, "nothing", "start")
    /\ UNCHANGED <<row, kept, author, arrived>>

\* Every part is of the author of those before it.
Part(a) ==
    /\ row[a] = "streaming" /\ told[a] = "start"
    /\ \E p \in Authors :
          /\ \A i \in DOMAIN arrived[a] : arrived[a][i] = p
          /\ arrived' = [arrived EXCEPT ![a] = Append(@, p)]
    /\ UNCHANGED <<row, kept, author, told>>

Complete(a) ==
    /\ told[a] = "start"
    /\ Move(row, a, "streaming", "complete")
    /\ \E p \in Authors :
          /\ \A i \in DOMAIN arrived[a] : arrived[a][i] = p
          /\ author' = [author EXCEPT ![a] = p]
    /\ kept' = [kept EXCEPT ![a] = arrived[a]]
    /\ UNCHANGED <<arrived, told>>

Announce(a) ==
    /\ row[a] = "complete"
    /\ Move(told, a, "start", "done")
    /\ UNCHANGED <<row, kept, author, arrived>>

Apologise(a) ==
    /\ row[a] = "streaming"
    /\ Move(told, a, "start", "error")
    /\ UNCHANGED <<row, kept, author, arrived>>

KeepError(a) ==
    /\ told[a] = "error"
    /\ Move(row, a, "streaming", "error")
    /\ kept' = [kept EXCEPT ![a] = arrived[a]]
    /\ UNCHANGED <<author, arrived, told>>

AnswerStep(a) ==
    \/ Open(a) \/ Begin(a) \/ Part(a) \/ Complete(a) \/ Announce(a)
    \/ Apologise(a) \/ KeepError(a)

AnswerNext == \E a \in Answers : AnswerStep(a)

AnswerSpec == AnswerInit /\ [][AnswerNext]_answerVars
=============================================================================
