----------------------------- MODULE ChatStream ------------------------------
(***************************************************************************)
(* Chat over Server-Sent Events: sends into one conversation of one user,  *)
(* each of which stores a question and an empty placeholder, streams the   *)
(* answer from a chain of AI providers, and settles the placeholder and    *)
(* the user's usage of the day in a second transaction.                    *)
(*                                                                         *)
(* The conversation's counter and the usage row are read in one statement  *)
(* and written as an absolute value in a later one. The UPDATE holds the   *)
(* row's lock to the commit that follows it at once, so that both are one  *)
(* step here; the read before it is a step of its own.                     *)
(***************************************************************************)
EXTENDS Naturals, Sequences, FiniteSets, SequencesExt

CONSTANTS
    Sends,          \* sends, each with the id of the placeholder it creates
    Providers,      \* AIProviderEnum
    FallbackOrder,  \* settings.AI_PROVIDER_FALLBACK_ORDER, names of any kind
    MaxDeltas,      \* bound on the deltas of one answer
    NoProvider      \* no provider has been chosen, or has answered

ASSUME ChatAssumption ==
    /\ IsFiniteSet(Sends)
    /\ FallbackOrder \in Seq(STRING)
    /\ Providers \subseteq STRING /\ NoProvider \notin Providers
    /\ MaxDeltas \in Nat

VARIABLES
    \* the conversation and the user's usage row of the day (0: no row)
    deleted, messageCount, usage,
    \* the placeholder: MessageStatusEnum, its content, its AIResponse
    status, content, response,
    \* the request and its generator
    pc, requested, attempt, parts, seenCount, seenUsage,
    \* the last event of note the client has received
    heard

rowVars == <<deleted, messageCount, usage, status, content, response>>
genVars == <<requested, attempt, parts, seenCount, seenUsage>>
vars == <<rowVars, pc, genVars, heard>>

Steps  == {"idle", "read", "saved", "streaming", "erring", "error_sent",
           "answered", "counting", "stored"}
Ends   == {"refused", "ended", "gone", "broken", "conflict"}
Events == {"nothing", "start", "error", "done"}

\* An answer is abstracted to the providers its parts came from.
Texts == UNION {[1..n -> Providers] : n \in 0..MaxDeltas}

TypeOK ==
    /\ deleted \in BOOLEAN
    /\ messageCount \in Nat
    /\ usage \in Nat
    /\ status \in [Sends -> {"absent", "streaming", "complete", "error"}]
    /\ content \in [Sends -> Texts]
    /\ response \in [Sends -> Providers \cup {NoProvider}]
    /\ pc \in [Sends -> Steps \cup Ends]
    /\ requested \in [Sends -> Providers \cup {NoProvider}]
    /\ attempt \in [Sends -> 0..Len(FallbackOrder)]
    /\ parts \in [Sends -> Texts]
    /\ seenCount \in [Sends -> Nat]
    /\ seenUsage \in [Sends -> Nat]
    /\ heard \in [Sends -> Events]

Init ==
    /\ deleted = FALSE
    /\ messageCount = 0
    /\ usage = 0
    /\ status = [s \in Sends |-> "absent"]
    /\ content = [s \in Sends |-> <<>>]
    /\ response = [s \in Sends |-> NoProvider]
    /\ pc = [s \in Sends |-> "idle"]
    /\ requested = [s \in Sends |-> NoProvider]
    /\ attempt = [s \in Sends |-> 0]
    /\ parts = [s \in Sends |-> <<>>]
    /\ seenCount = [s \in Sends |-> 0]
    /\ seenUsage = [s \in Sends |-> 0]
    /\ heard = [s \in Sends |-> "nothing"]

Become(s, from, to) ==
    /\ pc[s] = from
    /\ pc' = [pc EXCEPT ![s] = to]

-----------------------------------------------------------------------------
(* The provider chain.                                                     *)

\* The requested provider is link 0, then come the configured ones by their
\* places: unknown names are skipped, and so is a provider that is in the
\* chain already.
ProviderAt(p, i) == IF i = 0 THEN p ELSE FallbackOrder[i]

ProviderChain(p) ==
    {0} \cup {i \in DOMAIN FallbackOrder :
                 /\ FallbackOrder[i] \in Providers
                 /\ \A j \in 0..(i - 1) : ProviderAt(p, j) # FallbackOrder[i]}

Chain(s)    == ProviderChain(requested[s])
Current(s)  == ProviderAt(requested[s], attempt[s])
LastLink(s) == \A i \in Chain(s) : i <= attempt[s]

\* The next link of the chain.
AskNext(s) ==
    \E i \in Chain(s) :
        /\ i > attempt[s]
        /\ \A j \in Chain(s) : j > attempt[s] => i <= j
        /\ attempt' = [attempt EXCEPT ![s] = i]

\* A provider has begun to answer: all parts stem from the current attempt.
Started(s) == parts[s] # <<>>

-----------------------------------------------------------------------------
(* The request: question and placeholder.                                  *)

\* send_message_and_stream loads the conversation, and with it the counter.
\* (regenerate does the same after it has found its question.)
ReadConversation(s) ==
    /\ ~deleted
    /\ Become(s, "idle", "read")
    /\ seenCount' = [seenCount EXCEPT ![s] = messageCount]
    /\ UNCHANGED <<rowVars, requested, attempt, parts, seenUsage, heard>>

\* Question, placeholder and touch_preview are committed together.
SaveMessages(s) ==
    /\ Become(s, "read", "saved")
    /\ messageCount' = seenCount[s] + 1
    /\ status' = [status EXCEPT ![s] = "streaming"]
    /\ UNCHANGED <<deleted, usage, content, response, genVars, heard>>

\* An error before that commit rolls everything back.
RefuseSend(s) ==
    /\ Become(s, "read", "refused")
    /\ UNCHANGED <<rowVars, genVars, heard>>

\* Faulty variant: without a provider in the payload none is chosen.
StartStreamWithoutDefault(s) ==
    /\ Become(s, "saved", "streaming")
    /\ heard' = [heard EXCEPT ![s] = "start"]
    /\ UNCHANGED <<rowVars, genVars>>

\* Context and history are read, the response starts with its first event.
\* The provider is the payload's or the default one.
StartStream(s) ==
    /\ Become(s, "saved", "streaming")
    /\ \E p \in Providers : requested' = [requested EXCEPT ![s] = p]
    /\ heard' = [heard EXCEPT ![s] = "start"]
    /\ UNCHANGED <<rowVars, attempt, parts, seenCount, seenUsage>>

DeleteConversation ==
    /\ ~deleted
    /\ deleted' = TRUE
    /\ UNCHANGED <<messageCount, usage, status, content, response, pc, genVars, heard>>

-----------------------------------------------------------------------------
(* The generator: streaming.                                               *)

\* A chunk with a delta is kept and passed on.
Delta(s) ==
    /\ pc[s] = "streaming"
    /\ Len(parts[s]) < MaxDeltas
    /\ parts' = [parts EXCEPT ![s] = Append(@, Current(s))]
    /\ UNCHANGED <<rowVars, pc, requested, attempt, seenCount, seenUsage, heard>>

\* The chunk with done = True names the provider that has answered.
ProviderDone(s) ==
    /\ Become(s, "streaming", "answered")
    /\ UNCHANGED <<rowVars, genVars, heard>>

\* Faulty variant: the chain goes on after a provider has begun to answer.
ProviderFailsOver(s) ==
    /\ pc[s] = "streaming"
    /\ \E unavailable \in BOOLEAN :
          IF LastLink(s) \/ ~unavailable
          THEN pc' = [pc EXCEPT ![s] = "erring"] /\ UNCHANGED attempt
          ELSE AskNext(s) /\ UNCHANGED pc
    /\ UNCHANGED <<rowVars, requested, parts, seenCount, seenUsage, heard>>

\* Faulty variant: after the last provider the chain starts over.
ProviderChainStartsOver(s) ==
    /\ pc[s] = "streaming"
    /\ \E unavailable \in BOOLEAN :
          IF Started(s) \/ ~unavailable
          THEN pc' = [pc EXCEPT ![s] = "erring"] /\ UNCHANGED attempt
          ELSE /\ IF LastLink(s) THEN attempt' = [attempt EXCEPT ![s] = 0] ELSE AskNext(s)
               /\ UNCHANGED pc
    /\ UNCHANGED <<rowVars, requested, parts, seenCount, seenUsage, heard>>

\* The provider raises. Out of quota or without a valid key, and before its
\* first chunk, the next one of the chain is asked; anything else (also an
\* error of the retrieval before the first provider) ends the stream.
ProviderFails(s) ==
    /\ pc[s] = "streaming"
    /\ \E unavailable \in BOOLEAN :
          IF Started(s) \/ LastLink(s) \/ ~unavailable
          THEN pc' = [pc EXCEPT ![s] = "erring"] /\ UNCHANGED attempt
          ELSE AskNext(s) /\ UNCHANGED pc
    /\ UNCHANGED <<rowVars, requested, parts, seenCount, seenUsage, heard>>

-----------------------------------------------------------------------------
(* The generator: settling the placeholder.                                *)

\* Faulty variant: the error is sent, and the placeholder forgotten.
SendErrorAndReturn(s) ==
    /\ Become(s, "erring", "ended")
    /\ heard' = [heard EXCEPT ![s] = "error"]
    /\ UNCHANGED <<rowVars, genVars>>

\* The error event comes before the error is stored.
SendError(s) ==
    /\ Become(s, "erring", "error_sent")
    /\ heard' = [heard EXCEPT ![s] = "error"]
    /\ UNCHANGED <<rowVars, genVars>>

\* The error transaction keeps what had arrived.
StoreError(s) ==
    /\ Become(s, "error_sent", "ended")
    /\ status' = [status EXCEPT ![s] = "error"]
    /\ content' = [content EXCEPT ![s] = parts[s]]
    /\ UNCHANGED <<deleted, messageCount, usage, response, genVars, heard>>

\* get_or_create_today, in the transaction that settles the answer.
ReadUsage(s) ==
    /\ Become(s, "answered", "counting")
    /\ seenUsage' = [seenUsage EXCEPT ![s] = usage]
    /\ UNCHANGED <<rowVars, requested, attempt, parts, seenCount, heard>>

\* Faulty variant: the counter is taken from the row, and the answer counted
\* once for its question as well.
StoreAnswerCountedTwice(s) ==
    /\ Become(s, "counting", "stored")
    /\ usage' = usage + 2
    /\ status' = [status EXCEPT ![s] = "complete"]
    /\ content' = [content EXCEPT ![s] = parts[s]]
    /\ response' = [response EXCEPT ![s] = Current(s)]
    /\ UNCHANGED <<deleted, messageCount, genVars, heard>>

\* Its commit: placeholder, AIResponse and the usage row together. A row that
\* was absent is inserted, one that was there is set to what was read plus one.
StoreAnswer(s) ==
    /\ seenUsage[s] = 0 => usage = 0
    /\ Become(s, "counting", "stored")
    /\ usage' = seenUsage[s] + 1
    /\ status' = [status EXCEPT ![s] = "complete"]
    /\ content' = [content EXCEPT ![s] = parts[s]]
    /\ response' = [response EXCEPT ![s] = Current(s)]
    /\ UNCHANGED <<deleted, messageCount, genVars, heard>>

\* (user_id, date) is unique: when another answer has inserted the day's row
\* meanwhile, IntegrityError rolls the whole transaction back. The exception
\* leaves the generator, and the response breaks off.
UsageConflict(s) ==
    /\ seenUsage[s] = 0 /\ usage # 0
    /\ Become(s, "counting", "conflict")
    /\ UNCHANGED <<rowVars, genVars, heard>>

\* The last event, after the commit.
SendDone(s) ==
    /\ Become(s, "stored", "ended")
    /\ heard' = [heard EXCEPT ![s] = "done"]
    /\ UNCHANGED <<rowVars, genVars>>

-----------------------------------------------------------------------------
(* Failures.                                                               *)

\* The client goes away: the generator is cancelled or closed, which
\* `except Exception` does not see. A transaction in progress is rolled back.
Disconnect(s) ==
    /\ pc[s] \in {"streaming", "erring", "error_sent", "answered", "counting", "stored"}
    /\ pc' = [pc EXCEPT ![s] = "gone"]
    /\ UNCHANGED <<rowVars, genVars, heard>>

\* The database (or, before the first event, anything else) fails outside of
\* the generator's try block.
Break(s) ==
    /\ pc[s] \in {"saved", "error_sent", "answered", "counting"}
    /\ pc' = [pc EXCEPT ![s] = "broken"]
    /\ UNCHANGED <<rowVars, genVars, heard>>

-----------------------------------------------------------------------------
ServerStep(s) ==
    \/ SaveMessages(s) \/ RefuseSend(s) \/ StartStream(s)
    \/ SendError(s) \/ StoreError(s)
    \/ ReadUsage(s) \/ StoreAnswer(s) \/ UsageConflict(s) \/ SendDone(s)

ProviderStep(s) == Delta(s) \/ ProviderDone(s) \/ ProviderFails(s)

Next ==
    \/ DeleteConversation
    \/ \E s \in Sends : \/ ReadConversation(s) \/ ServerStep(s) \/ ProviderStep(s)
                        \/ Disconnect(s) \/ Break(s)

Spec == Init /\ [][Next]_vars

\* The server runs every coroutine on, and a provider goes on with its answer,
\* ends it or fails. (The SDKs bound every read by a timeout; the Ollama client
\* does not, so that this is an assumption about the Ollama server.)
Fairness == \A s \in Sends : WF_vars(ServerStep(s)) /\ WF_vars(ProviderStep(s))

FairSpec == Spec /\ Fairness

-----------------------------------------------------------------------------
(* Properties.                                                             *)

Settled == {s \in Sends : status[s] = "complete"}

\* A complete answer is all that was streamed, it was given by one provider
\* from the first part to the last, and its AIResponse names that provider;
\* a placeholder that is not complete has no AIResponse.
CompleteAnswerHasOneVoice ==
    \A s \in Sends :
        /\ status[s] = "complete" =>
              /\ content[s] = parts[s]
              /\ response[s] \in Providers
              /\ ToSet(content[s]) \subseteq {response[s]}
        /\ status[s] # "complete" => response[s] = NoProvider

\* What the client was told and what a later GET of the messages shows agree:
\* "done" only for a stored answer, an ERROR row only after the error event,
\* and after the error event never a complete answer.
ClientAndRowAgree ==
    \A s \in Sends :
        /\ heard[s] = "done" => status[s] = "complete"
        /\ status[s] = "error" => heard[s] = "error"
        /\ heard[s] = "error" => status[s] \in {"streaming", "error"}

\* The daily usage never counts more answers than were stored, and it counts
\* at least one as soon as there is one. (It may count too few, see below.)
UsageNeverAhead ==
    /\ usage <= Cardinality(Settled)
    /\ usage = 0 <=> Settled = {}

\* An answer that was streamed in full is lost only to a stored one: the
\* stream that meets the unique usage row was overtaken by another one.
ConflictHasAWinner ==
    \A s \in Sends : pc[s] = "conflict" => \E t \in Sends \ {s} : status[t] = "complete"

\* A settled placeholder is never written again.
SettledRowsStay ==
    [][\A s \in Sends : status[s] \in {"complete", "error"} =>
          <<status'[s], content'[s], response'[s]>> = <<status[s], content[s], response[s]>>]_vars

\* A placeholder that is still streaming after its send has ended was left by
\* a client that went away, by a database that failed or by the usage conflict
\* with an answer that was stored, and its reader was never told "done". A send
\* that ran to its end has settled its placeholder and said which way.
StrandedAnswersHaveACause ==
    /\ ConflictHasAWinner
    /\ \A s \in Sends : pc[s] \in Ends =>
          /\ status[s] = "streaming" =>
                pc[s] \in {"gone", "broken", "conflict"} /\ heard[s] # "done"
          /\ pc[s] = "ended" =>
                <<status[s], heard[s]>> \in {<<"complete", "done">>, <<"error", "error">>}

\* Whatever the chain of providers, its fallbacks and the other streams do,
\* each answer keeps the contract of a single author's answer.
Contract == INSTANCE AnswerContract WITH
    Answers  <- Sends,
    Authors  <- Providers,
    NoAuthor <- NoProvider,
    row      <- status,
    kept     <- content,
    author   <- response,
    arrived  <- parts,
    told     <- heard

AnswersKeepTheContract == Contract!AnswerSpec

\* What a send has before it at most: its places up to the end, the links of
\* the chain it has not asked, and the parts its answer may still get.
PlacesLeft(place) ==
    CASE place = "idle" -> 9
      [] place = "read" -> 8
      [] place = "saved" -> 7
      [] place = "streaming" -> 6
      [] place = "erring" -> 5
      [] place = "answered" -> 4
      [] place = "counting" -> 3
      [] place = "error_sent" -> 2
      [] place = "stored" -> 1
      [] place \in Ends -> 0

StepsLeft(s) ==
    PlacesLeft(pc[s]) + (Len(FallbackOrder) - attempt[s]) + (MaxDeltas - Len(parts[s]))

\* Every step of a send brings it nearer to its end: no provider is asked a
\* second time, no place of the request is visited again, and another send's
\* steps cost it nothing.
SendsCountDown ==
    [][\A s \in Sends :
          <<pc[s], requested[s], attempt[s], parts[s], heard[s], status[s]>>' #
          <<pc[s], requested[s], attempt[s], parts[s], heard[s], status[s]>>
              => StepsLeft(s)' \in 0..(StepsLeft(s) - 1)]_vars

\* Every send that was accepted comes to an end: the chain of providers is
\* finite and none of its links is visited twice.
SendsEnd == \A s \in Sends : pc[s] = "read" ~> pc[s] \in Ends

\* "the per-request writes already keep the daily row current": the row counts
\* every stored answer of the day.
UsageIsCurrent == usage = Cardinality(Settled)
=============================================================================
