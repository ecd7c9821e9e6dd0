--------------------------- MODULE ChatStreamProofs ---------------------------
(***************************************************************************)
(* The safety properties of ChatStream, for any number of sends, any set   *)
(* of providers and any fallback order.                                    *)
(***************************************************************************)
EXTENDS ChatStream, FiniteSetTheorems, SequenceTheorems, TLAPS

-----------------------------------------------------------------------------
(* The inductive invariant.                                                *)

\* What the row says and the client has heard, by where the send stands.
RowInv ==
    \A s \in Sends :
        /\ pc[s] \in {"idle", "read", "refused"} =>
              status[s] = "absent" /\ heard[s] = "nothing"
        /\ pc[s] = "saved" => status[s] = "streaming" /\ heard[s] = "nothing"
        /\ pc[s] \in {"streaming", "erring", "answered", "counting", "conflict"} =>
              status[s] = "streaming" /\ heard[s] = "start"
        /\ pc[s] = "error_sent" => status[s] = "streaming" /\ heard[s] = "error"
        /\ pc[s] = "stored" => status[s] = "complete" /\ heard[s] = "start"
        /\ pc[s] = "ended" => \/ status[s] = "complete" /\ heard[s] = "done"
                              \/ status[s] = "error" /\ heard[s] = "error"
        /\ pc[s] \in {"gone", "broken"} =>
              \/ status[s] = "streaming" /\ heard[s] # "done"
              \/ status[s] = "complete" /\ heard[s] = "start"

\* All parts are the current provider's, which is a link of the chain.
VoiceInv ==
    \A s \in Sends :
        /\ pc[s] \notin {"idle", "read", "refused", "saved", "broken"} =>
              requested[s] \in Providers /\ attempt[s] \in Chain(s)
        /\ pc[s] \in {"idle", "read", "refused", "saved"} => parts[s] = <<>> /\ attempt[s] = 0
        /\ \A i \in DOMAIN parts[s] : parts[s][i] = Current(s)
        /\ status[s] = "complete" =>
              /\ requested[s] \in Providers /\ attempt[s] \in Chain(s)
              /\ content[s] = parts[s]
              /\ response[s] = Current(s)
        /\ status[s] # "complete" => response[s] = NoProvider

\* What an answer under way has read of the usage row was a true count then,
\* and answers are only added.
UsageInv ==
    /\ UsageNeverAhead
    /\ \A s \in Sends : pc[s] = "counting" => seenUsage[s] <= Cardinality(Settled)

Inv == TypeOK /\ RowInv /\ VoiceInv /\ UsageInv /\ ConflictHasAWinner

-----------------------------------------------------------------------------
(* The chain.                                                              *)

\* Every link of a chain is a provider.
LEMMA LinksAreProviders ==
    ASSUME NEW p \in Providers, NEW i \in ProviderChain(p)
    PROVE  ProviderAt(p, i) \in Providers /\ i \in 0..Len(FallbackOrder)
<1>1. Len(FallbackOrder) \in Nat /\ DOMAIN FallbackOrder = 1..Len(FallbackOrder)
    BY ChatAssumption, LenProperties DEF ChatAssumption
<1>2. CASE i = 0
    BY <1>1, <1>2 DEF ProviderAt
<1>3. CASE i # 0
    BY <1>1, <1>3 DEF ProviderAt, ProviderChain
<1> QED
    BY <1>2, <1>3

-----------------------------------------------------------------------------
(* Types.                                                                  *)

\* An answer grows by a part of a provider, up to its bound.
LEMMA TextsGrow ==
    ASSUME NEW t \in Texts, Len(t) < MaxDeltas, NEW p \in Providers
    PROVE  Append(t, p) \in Texts
<1>1. PICK n \in 0..MaxDeltas : t \in [1..n -> Providers]
    BY DEF Texts
<1>2. t \in Seq(Providers) /\ Len(t) = n
    BY <1>1, ChatAssumption DEF ChatAssumption
<1>3. Append(t, p) \in Seq(Providers) /\ Len(Append(t, p)) = n + 1
    BY <1>2, AppendProperties
<1>4. Append(t, p) \in [1..(n + 1) -> Providers]
    BY <1>3, LenProperties
<1>5. n + 1 \in 0..MaxDeltas
    BY <1>2, ChatAssumption DEF ChatAssumption
<1> QED
    BY <1>4, <1>5 DEF Texts

\* A text is a sequence of providers.
LEMMA TextsAreSequences == ASSUME NEW t \in Texts PROVE t \in Seq(Providers)
<1>1. PICK n \in 0..MaxDeltas : t \in [1..n -> Providers]
    BY DEF Texts
<1> QED
    BY <1>1, ChatAssumption DEF ChatAssumption

\* A text keeps to its bound.
LEMMA TextsAreBounded == ASSUME NEW t \in Texts PROVE Len(t) \in 0..MaxDeltas
<1>1. PICK n \in 0..MaxDeltas : t \in [1..n -> Providers]
    BY DEF Texts
<1>2. Len(t) = n
    BY <1>1, ChatAssumption DEF ChatAssumption
<1> QED
    BY <1>1, <1>2

\* A placeholder is empty.
LEMMA EmptyText == <<>> \in Texts
<1>1. <<>> \in [1..0 -> Providers]
    OBVIOUS
<1>2. 0 \in 0..MaxDeltas
    BY ChatAssumption DEF ChatAssumption
<1> QED
    BY <1>1, <1>2 DEF Texts

\* No action leaves the types; a part and an AIResponse need the chain.
LEMMA TypeStep == TypeOK /\ VoiceInv /\ [Next]_vars => TypeOK'
<1> SUFFICES ASSUME TypeOK, VoiceInv, [Next]_vars PROVE TypeOK'
    OBVIOUS
<1> USE DEF TypeOK, rowVars, genVars, Become, Steps, Ends, Events
<1>1. CASE UNCHANGED vars
    BY <1>1 DEF vars
<1>2. CASE DeleteConversation
    BY <1>2 DEF DeleteConversation
<1>3. ASSUME NEW s \in Sends, ReadConversation(s) \/ SaveMessages(s) \/ RefuseSend(s)
      PROVE  TypeOK'
    <2>1. CASE ReadConversation(s)
        BY <2>1 DEF ReadConversation
    <2>2. CASE SaveMessages(s)
        BY <2>2 DEF SaveMessages
    <2>3. CASE RefuseSend(s)
        BY <2>3 DEF RefuseSend
    <2> QED
        BY <1>3, <2>1, <2>2, <2>3
<1>4. ASSUME NEW s \in Sends, StartStream(s)
      PROVE  TypeOK'
    BY <1>4 DEF StartStream
<1>5. ASSUME NEW s \in Sends, ProviderDone(s) \/ SendError(s) \/ StoreError(s)
      PROVE  TypeOK'
    <2>1. CASE ProviderDone(s)
        BY <2>1 DEF ProviderDone
    <2>2. CASE SendError(s)
        BY <2>2 DEF SendError
    <2>3. CASE StoreError(s)
        BY <2>3 DEF StoreError
    <2> QED
        BY <1>5, <2>1, <2>2, <2>3
<1>6. ASSUME NEW s \in Sends, ReadUsage(s) \/ UsageConflict(s) \/ SendDone(s)
      PROVE  TypeOK'
    BY <1>6 DEF ReadUsage, UsageConflict, SendDone
<1>7. ASSUME NEW s \in Sends, Disconnect(s) \/ Break(s)
      PROVE  TypeOK'
    BY <1>7 DEF Disconnect, Break
<1>8. ASSUME NEW s \in Sends, Delta(s)
      PROVE  TypeOK'
    <2>1. Current(s) \in Providers
        BY <1>8, LinksAreProviders DEF Delta, VoiceInv, Chain, Current
    <2>2. Append(parts[s], Current(s)) \in Texts
        BY <1>8, <2>1, TextsGrow DEF Delta
    <2> QED
        BY <1>8, <2>2 DEF Delta
<1>9. ASSUME NEW s \in Sends, ProviderFails(s)
      PROVE  TypeOK'
    <2>1. requested[s] \in Providers
        BY <1>9 DEF ProviderFails, VoiceInv
    <2>2. \A i \in Chain(s) : i \in 0..Len(FallbackOrder)
        BY <2>1, LinksAreProviders DEF Chain
    <2> QED
        BY <1>9, <2>2 DEF ProviderFails, AskNext
<1>10. ASSUME NEW s \in Sends, StoreAnswer(s)
       PROVE  TypeOK'
    <2>1. Current(s) \in Providers
        BY <1>10, LinksAreProviders DEF StoreAnswer, VoiceInv, Chain, Current
    <2> QED
        BY <1>10, <2>1 DEF StoreAnswer
<1> QED
    BY <1>1, <1>2, <1>3, <1>4, <1>5, <1>6, <1>7, <1>8, <1>9, <1>10
       DEF Next, ServerStep, ProviderStep

-----------------------------------------------------------------------------
(* Rows and the client.                                                    *)

\* No action takes a send to a place where its row or its client disagrees.
LEMMA RowStep == TypeOK /\ RowInv /\ [Next]_vars => RowInv'
<1> SUFFICES ASSUME TypeOK, RowInv, [Next]_vars PROVE RowInv'
    OBVIOUS
<1> USE DEF TypeOK, RowInv, rowVars, genVars, Become
<1>1. CASE UNCHANGED vars
    BY <1>1 DEF vars
<1>2. CASE DeleteConversation
    BY <1>2 DEF DeleteConversation
<1>3. ASSUME NEW s \in Sends, ReadConversation(s) \/ SaveMessages(s) \/ RefuseSend(s)
      PROVE  RowInv'
    <2>1. CASE ReadConversation(s)
        BY <2>1 DEF ReadConversation
    <2>2. CASE SaveMessages(s)
        BY <2>2 DEF SaveMessages
    <2>3. CASE RefuseSend(s)
        BY <2>3 DEF RefuseSend
    <2> QED
        BY <1>3, <2>1, <2>2, <2>3
<1>4. ASSUME NEW s \in Sends, StartStream(s) \/ Delta(s) \/ ProviderDone(s) \/ ProviderFails(s)
      PROVE  RowInv'
    <2>1. CASE StartStream(s)
        BY <2>1 DEF StartStream
    <2>2. CASE Delta(s)
        BY <2>2 DEF Delta
    <2>3. CASE ProviderDone(s)
        BY <2>3 DEF ProviderDone
    <2>4. CASE ProviderFails(s)
        BY <2>4 DEF ProviderFails
    <2> QED
        BY <1>4, <2>1, <2>2, <2>3, <2>4
<1>5. ASSUME NEW s \in Sends, SendError(s) \/ StoreError(s)
      PROVE  RowInv'
    <2>1. CASE SendError(s)
        BY <2>1 DEF SendError
    <2>2. CASE StoreError(s)
        BY <2>2 DEF StoreError
    <2> QED
        BY <1>5, <2>1, <2>2
<1>6. ASSUME NEW s \in Sends, ReadUsage(s) \/ StoreAnswer(s) \/ UsageConflict(s) \/ SendDone(s)
      PROVE  RowInv'
    <2>1. CASE ReadUsage(s)
        BY <2>1 DEF ReadUsage
    <2>2. CASE StoreAnswer(s)
        BY <2>2 DEF StoreAnswer
    <2>3. CASE UsageConflict(s)
        BY <2>3 DEF UsageConflict
    <2>4. CASE SendDone(s)
        BY <2>4 DEF SendDone
    <2> QED
        BY <1>6, <2>1, <2>2, <2>3, <2>4
<1>7. ASSUME NEW s \in Sends, Disconnect(s) \/ Break(s)
      PROVE  RowInv'
    <2>1. CASE Disconnect(s)
        BY <2>1 DEF Disconnect
    <2>2. CASE Break(s)
        BY <2>2 DEF Break
    <2> QED
        BY <1>7, <2>1, <2>2
<1> QED
    BY <1>1, <1>2, <1>3, <1>4, <1>5, <1>6, <1>7 DEF Next, ServerStep, ProviderStep

-----------------------------------------------------------------------------
(* Voices.                                                                 *)

\* Only the current provider adds to an answer, and once it has, it stays current.
LEMMA VoiceStep == TypeOK /\ RowInv /\ VoiceInv /\ [Next]_vars => VoiceInv'
<1> SUFFICES ASSUME TypeOK, RowInv, VoiceInv, [Next]_vars PROVE VoiceInv'
    OBVIOUS
<1> USE DEF TypeOK, VoiceInv, rowVars, genVars, Become, Chain, Current
<1>1. CASE UNCHANGED vars
    BY <1>1 DEF vars
<1>2. CASE DeleteConversation
    BY <1>2 DEF DeleteConversation
<1>3. ASSUME NEW s \in Sends, ReadConversation(s) \/ RefuseSend(s)
      PROVE  VoiceInv'
    <2>1. CASE ReadConversation(s)
        BY <2>1 DEF ReadConversation
    <2>2. CASE RefuseSend(s)
        BY <2>2 DEF RefuseSend
    <2> QED
        BY <1>3, <2>1, <2>2
<1>4. ASSUME NEW s \in Sends, SaveMessages(s)
      PROVE  VoiceInv'
    BY <1>4 DEF SaveMessages, RowInv
<1>5. ASSUME NEW s \in Sends, StartStream(s)
      PROVE  VoiceInv'
    BY <1>5 DEF StartStream, ProviderChain, RowInv
<1>6. ASSUME NEW s \in Sends, Delta(s)
      PROVE  VoiceInv'
    <2>1. Current(s) \in Providers
        BY <1>6, LinksAreProviders DEF Delta
    <2>2. parts[s] \in Texts
        OBVIOUS
    <2>3. parts[s] \in Seq(Providers)
        BY <2>2, TextsAreSequences
    <2>4. \A i \in DOMAIN Append(parts[s], Current(s)) :
             Append(parts[s], Current(s))[i] = Current(s)
        BY <2>1, <2>3, AppendProperties, LenProperties
    <2> QED
        BY <1>6, <2>4 DEF Delta, RowInv
<1>7. ASSUME NEW s \in Sends, ProviderFails(s)
      PROVE  VoiceInv'
    <2>1. CASE UNCHANGED attempt
        BY <1>7, <2>1 DEF ProviderFails
    <2>2. CASE parts[s] = <<>> /\ AskNext(s) /\ UNCHANGED pc
        BY <1>7, <2>2 DEF ProviderFails, AskNext, RowInv
    <2> QED
        BY <1>7, <2>1, <2>2 DEF ProviderFails, Started
<1>8. ASSUME NEW s \in Sends, ProviderDone(s) \/ SendError(s) \/ StoreError(s)
      PROVE  VoiceInv'
    <2>1. CASE ProviderDone(s) \/ SendError(s)
        BY <2>1 DEF ProviderDone, SendError
    <2>2. CASE StoreError(s)
        BY <2>2 DEF StoreError, RowInv
    <2> QED
        BY <1>8, <2>1, <2>2
<1>9. ASSUME NEW s \in Sends, ReadUsage(s) \/ UsageConflict(s) \/ SendDone(s)
      PROVE  VoiceInv'
    <2>1. CASE ReadUsage(s)
        BY <2>1 DEF ReadUsage
    <2>2. CASE UsageConflict(s)
        BY <2>2 DEF UsageConflict
    <2>3. CASE SendDone(s)
        BY <2>3 DEF SendDone
    <2> QED
        BY <1>9, <2>1, <2>2, <2>3
<1>10. ASSUME NEW s \in Sends, StoreAnswer(s)
       PROVE  VoiceInv'
    BY <1>10 DEF StoreAnswer
<1>11. ASSUME NEW s \in Sends, Disconnect(s) \/ Break(s)
       PROVE  VoiceInv'
    BY <1>11 DEF Disconnect, Break
<1> QED
    BY <1>1, <1>2, <1>3, <1>4, <1>5, <1>6, <1>7, <1>8, <1>9, <1>10, <1>11
       DEF Next, ServerStep, ProviderStep

-----------------------------------------------------------------------------
(* Usage.                                                                  *)

\* The settled answers are finitely many.
LEMMA SettledFinite ==
    /\ IsFiniteSet(Settled)
    /\ Cardinality(Settled) \in Nat
    /\ Cardinality(Settled) = 0 <=> Settled = {}
<1>1. IsFiniteSet(Settled)
    BY ChatAssumption, FS_Subset DEF ChatAssumption, Settled
<1> QED
    BY <1>1, FS_CardinalityType, FS_EmptySet

\* Only the commit of an answer changes what has been settled.
SettlesNothing ==
    /\ Settled' = Settled
    /\ usage' = usage
    /\ \A s \in Sends : pc'[s] = "counting" =>
          (pc[s] = "counting" /\ seenUsage'[s] = seenUsage[s]) \/ seenUsage'[s] = usage

\* Only storing an answer settles a send: every other step leaves the set of
\* settled sends and the usage counter alone.
LEMMA OthersSettleNothing ==
    ASSUME TypeOK, RowInv, [Next]_vars, \A s \in Sends : ~StoreAnswer(s)
    PROVE  SettlesNothing
<1> USE DEF TypeOK, rowVars, genVars, Become, Settled, SettlesNothing
<1>1. CASE UNCHANGED vars
    BY <1>1 DEF vars
<1>2. CASE DeleteConversation
    BY <1>2 DEF DeleteConversation
<1>3. ASSUME NEW s \in Sends, ReadConversation(s) \/ SaveMessages(s) \/ RefuseSend(s)
      PROVE  SettlesNothing
    <2>1. CASE ReadConversation(s)
        BY <2>1 DEF ReadConversation, RowInv
    <2>2. CASE SaveMessages(s)
        BY <2>2 DEF SaveMessages, RowInv
    <2>3. CASE RefuseSend(s)
        BY <2>3 DEF RefuseSend, RowInv
    <2> QED
        BY <1>3, <2>1, <2>2, <2>3
<1>4. ASSUME NEW s \in Sends, StartStream(s) \/ Delta(s) \/ ProviderDone(s) \/ ProviderFails(s)
      PROVE  SettlesNothing
    <2>1. CASE StartStream(s)
        BY <2>1 DEF StartStream
    <2>2. CASE Delta(s)
        BY <2>2 DEF Delta
    <2>3. CASE ProviderDone(s)
        BY <2>3 DEF ProviderDone
    <2>4. CASE ProviderFails(s)
        BY <2>4 DEF ProviderFails
    <2> QED
        BY <1>4, <2>1, <2>2, <2>3, <2>4
<1>5. ASSUME NEW s \in Sends, SendError(s) \/ StoreError(s)
      PROVE  SettlesNothing
    <2>1. CASE SendError(s)
        BY <2>1 DEF SendError, RowInv
    <2>2. CASE StoreError(s)
        BY <2>2 DEF StoreError, RowInv
    <2> QED
        BY <1>5, <2>1, <2>2
<1>6. ASSUME NEW s \in Sends, ReadUsage(s) \/ UsageConflict(s) \/ SendDone(s)
      PROVE  SettlesNothing
    <2>1. CASE ReadUsage(s)
        BY <2>1 DEF ReadUsage
    <2>2. CASE UsageConflict(s)
        BY <2>2 DEF UsageConflict
    <2>3. CASE SendDone(s)
        BY <2>3 DEF SendDone
    <2> QED
        BY <1>6, <2>1, <2>2, <2>3
<1>7. ASSUME NEW s \in Sends, Disconnect(s) \/ Break(s)
      PROVE  SettlesNothing
    <2>1. CASE Disconnect(s)
        BY <2>1 DEF Disconnect
    <2>2. CASE Break(s)
        BY <2>2 DEF Break
    <2> QED
        BY <1>7, <2>1, <2>2
<1> QED
    BY <1>1, <1>2, <1>3, <1>4, <1>5, <1>6, <1>7 DEF Next, ServerStep, ProviderStep

\* The usage stays behind the answers, and a conflict has a winner.
LEMMA UsageStep ==
    TypeOK /\ RowInv /\ UsageInv /\ ConflictHasAWinner /\ [Next]_vars
        => UsageInv' /\ ConflictHasAWinner'
<1> SUFFICES ASSUME TypeOK, RowInv, UsageInv, ConflictHasAWinner, [Next]_vars
             PROVE  UsageInv' /\ ConflictHasAWinner'
    OBVIOUS
<1>1. Cardinality(Settled) \in Nat /\ usage \in Nat /\ usage <= Cardinality(Settled)
    BY SettledFinite DEF TypeOK, UsageInv, UsageNeverAhead
<1>2. ASSUME NEW s \in Sends, StoreAnswer(s)
      PROVE  UsageInv' /\ ConflictHasAWinner'
    <2> USE <1>2 DEF StoreAnswer, Become
    <2>1. pc[s] = "counting" /\ s \notin Settled
        BY DEF RowInv, Settled
    <2>2. Settled' = Settled \cup {s}
        BY DEF TypeOK, Settled
    <2>3. Cardinality(Settled') = Cardinality(Settled) + 1
        BY <2>1, <2>2, SettledFinite, FS_AddElement
    <2>4. usage' = seenUsage[s] + 1 /\ seenUsage[s] \in Nat
        BY DEF TypeOK
    <2>5. seenUsage[s] <= Cardinality(Settled)
        BY <2>1 DEF UsageInv
    <2>6. UsageNeverAhead'
        BY <1>1, <2>2, <2>3, <2>4, <2>5 DEF UsageNeverAhead
    <2>7. \A t \in Sends : pc'[t] = "counting" => seenUsage'[t] <= Cardinality(Settled')
        <3> SUFFICES ASSUME NEW t \in Sends, pc'[t] = "counting"
                     PROVE  seenUsage'[t] <= Cardinality(Settled')
            OBVIOUS
        <3>1. pc[t] = "counting" /\ seenUsage'[t] = seenUsage[t] /\ seenUsage[t] \in Nat
            BY DEF TypeOK, genVars
        <3> QED
            BY <3>1, <1>1, <2>3 DEF UsageInv
    <2>8. ConflictHasAWinner'
        BY <2>1 DEF ConflictHasAWinner, TypeOK
    <2> QED
        BY <2>6, <2>7, <2>8 DEF UsageInv
<1>3. CASE \A s \in Sends : ~StoreAnswer(s)
    <2>1. SettlesNothing
        BY <1>3, OthersSettleNothing
    <2>2. UsageInv'
        BY <1>1, <2>1 DEF SettlesNothing, UsageInv, UsageNeverAhead
    <2>3. ASSUME NEW s \in Sends, pc'[s] = "conflict"
          PROVE  \E t \in Sends \ {s} : status'[t] = "complete"
        <3>1. CASE pc[s] = "conflict"
            BY <2>1, <3>1 DEF ConflictHasAWinner, SettlesNothing, Settled
        <3>2. CASE pc[s] # "conflict"
            <4>1. UsageConflict(s)
                <5> USE <2>3, <3>2 DEF TypeOK, Become
                <5>1. CASE UNCHANGED vars \/ DeleteConversation
                    BY <5>1 DEF vars, DeleteConversation
                <5>2. ASSUME NEW t \in Sends, ReadConversation(t) \/ SaveMessages(t)
                             \/ RefuseSend(t) \/ StartStream(t) \/ ProviderStep(t)
                      PROVE  UsageConflict(s)
                    BY <5>2 DEF ReadConversation, SaveMessages, RefuseSend, StartStream,
                                ProviderStep, Delta, ProviderDone, ProviderFails
                <5>3. ASSUME NEW t \in Sends, SendError(t) \/ StoreError(t) \/ ReadUsage(t)
                             \/ SendDone(t) \/ Disconnect(t) \/ Break(t)
                      PROVE  UsageConflict(s)
                    BY <5>3 DEF SendError, StoreError, ReadUsage, SendDone, Disconnect, Break
                <5>4. ASSUME NEW t \in Sends, UsageConflict(t)
                      PROVE  t = s
                    BY <5>4 DEF UsageConflict
                <5> QED
                    BY <1>3, <5>1, <5>2, <5>3, <5>4 DEF Next, ServerStep
            <4>2. Settled # {} /\ s \notin Settled
                BY <4>1 DEF UsageConflict, Become, UsageInv, UsageNeverAhead, RowInv, Settled
            <4> QED
                BY <2>1, <4>2 DEF SettlesNothing, Settled
        <3> QED
            BY <3>1, <3>2
    <2> QED
        BY <2>2, <2>3 DEF ConflictHasAWinner
<1> QED
    BY <1>2, <1>3

-----------------------------------------------------------------------------
(* The theorems.                                                           *)

\* Before the first request nothing is stored and nobody sends.
LEMMA InitInv == Init => Inv
<1> SUFFICES ASSUME Init PROVE Inv
    OBVIOUS
<1> USE DEF Init
<1>1. TypeOK
    <2>1. Len(FallbackOrder) \in Nat
        BY ChatAssumption, LenProperties DEF ChatAssumption
    <2>2. content \in [Sends -> Texts] /\ parts \in [Sends -> Texts]
        BY EmptyText
    <2>3. attempt \in [Sends -> 0..Len(FallbackOrder)]
        BY <2>1
    <2> QED
        BY <2>2, <2>3 DEF TypeOK, Steps, Ends, Events
<1>2. RowInv /\ VoiceInv /\ ConflictHasAWinner
    BY DEF RowInv, VoiceInv, ConflictHasAWinner
<1>3. Settled = {}
    BY DEF Settled
<1>4. UsageInv
    BY <1>3, SettledFinite DEF UsageInv, UsageNeverAhead
<1> QED
    BY <1>1, <1>2, <1>4 DEF Inv

\* Inv is an invariant.
THEOREM Invariance == Spec => []Inv
<1>1. Inv /\ [Next]_vars => Inv'
    BY TypeStep, RowStep, VoiceStep, UsageStep DEF Inv
<1> QED
    BY InitInv, <1>1, PTL DEF Spec

\* Every variable keeps its type.
THEOREM TypeCorrect == Spec => []TypeOK
<1>1. Inv => TypeOK
    BY DEF Inv
<1> QED
    BY Invariance, <1>1, PTL

\* Whatever the chain of providers, a complete answer is one provider's, and
\* its AIResponse says whose.
THEOREM AnswersHaveOneVoice == Spec => []CompleteAnswerHasOneVoice
<1>1. Inv => CompleteAnswerHasOneVoice
    <2> SUFFICES ASSUME Inv, NEW s \in Sends, status[s] = "complete"
                 PROVE  /\ content[s] = parts[s]
                        /\ response[s] \in Providers
                        /\ ToSet(content[s]) \subseteq {response[s]}
        BY DEF CompleteAnswerHasOneVoice, Inv, VoiceInv
    <2>1. requested[s] \in Providers /\ attempt[s] \in Chain(s)
        BY DEF Inv, VoiceInv
    <2>2. Current(s) \in Providers
        BY <2>1, LinksAreProviders DEF Chain, Current
    <2>3. content[s] = parts[s] /\ response[s] = Current(s)
        BY DEF Inv, VoiceInv
    <2>4. \A i \in DOMAIN content[s] : content[s][i] = response[s]
        BY <2>3 DEF Inv, VoiceInv
    <2> QED
        BY <2>2, <2>3, <2>4 DEF ToSet
<1> QED
    BY Invariance, <1>1, PTL

\* The client and the stored row never contradict each other.
THEOREM ClientSeesTheRow == Spec => []ClientAndRowAgree
<1>1. Inv => ClientAndRowAgree
    BY DEF Inv, TypeOK, RowInv, ClientAndRowAgree, Steps, Ends
<1> QED
    BY Invariance, <1>1, PTL

\* The day's usage never counts an answer that is not stored.
THEOREM UsageIsBounded == Spec => []UsageNeverAhead
<1>1. Inv => UsageNeverAhead
    BY DEF Inv, UsageInv
<1> QED
    BY Invariance, <1>1, PTL

\* An answer is lost to the unique usage row only when another one is stored.
THEOREM ConflictsAreLost == Spec => []ConflictHasAWinner
<1>1. Inv => ConflictHasAWinner
    BY DEF Inv
<1> QED
    BY Invariance, <1>1, PTL

\* No step writes a placeholder, its content or its AIResponse once it is
\* complete or has its error.
THEOREM SettledRowsAreFinal == Spec => SettledRowsStay
<1> DEFINE Kept == \A s \in Sends : status[s] \in {"complete", "error"} =>
              <<status'[s], content'[s], response'[s]>> = <<status[s], content[s], response[s]>>
<1>1. Inv /\ [Next]_vars => Kept
    <2> SUFFICES ASSUME Inv, [Next]_vars PROVE Kept
        OBVIOUS
    <2> USE DEF Inv, TypeOK, RowInv, rowVars, genVars, Become
    <2>1. CASE UNCHANGED vars \/ DeleteConversation
        BY <2>1 DEF vars, DeleteConversation
    <2>2. ASSUME NEW s \in Sends, ReadConversation(s) \/ SaveMessages(s) \/ RefuseSend(s)
          PROVE  Kept
        BY <2>2 DEF ReadConversation, SaveMessages, RefuseSend
    <2>3. ASSUME NEW s \in Sends, StartStream(s) \/ ProviderStep(s)
          PROVE  Kept
        BY <2>3 DEF StartStream, ProviderStep, Delta, ProviderDone, ProviderFails
    <2>4. ASSUME NEW s \in Sends, StoreError(s)
          PROVE  Kept
        BY <2>4 DEF StoreError
    <2>5. ASSUME NEW s \in Sends, StoreAnswer(s)
          PROVE  Kept
        BY <2>5 DEF StoreAnswer
    <2>6. ASSUME NEW s \in Sends, SendError(s) \/ ReadUsage(s) \/ UsageConflict(s) \/ SendDone(s)
          PROVE  Kept
        BY <2>6 DEF SendError, ReadUsage, UsageConflict, SendDone
    <2>7. ASSUME NEW s \in Sends, Disconnect(s) \/ Break(s)
          PROVE  Kept
        BY <2>7 DEF Disconnect, Break
    <2> QED
        BY <2>1, <2>2, <2>3, <2>4, <2>5, <2>6, <2>7 DEF Next, ServerStep
<1> QED
    BY Invariance, <1>1, PTL DEF Spec, SettledRowsStay

\* A placeholder is left streaming only by a client that went away, a broken
\* database or the usage conflict; a send that ran to its end has settled it.
THEOREM StrandedAnswersAreExplained == Spec => []StrandedAnswersHaveACause
<1>1. Inv => StrandedAnswersHaveACause
    BY DEF Inv, TypeOK, RowInv, StrandedAnswersHaveACause, Ends
<1> QED
    BY Invariance, <1>1, PTL

-----------------------------------------------------------------------------
(* The contract of a single author's answer.                               *)

\* Nothing is promised before the first request.
LEMMA ContractInit == Init => Contract!AnswerInit
BY DEF Init, Contract!AnswerInit

\* What the reader has received is of one author, who may add a part.
LEMMA OneAuthor ==
    ASSUME VoiceInv, NEW s \in Sends, requested[s] \in Providers, attempt[s] \in Chain(s)
    PROVE  Current(s) \in Providers /\ \A i \in DOMAIN parts[s] : parts[s][i] = Current(s)
BY LinksAreProviders DEF VoiceInv, Chain, Current

\* Every step of a send is a step of its answer, or unseen by its reader: the
\* chain, the counters and the place of the request are not part of the promise.
LEMMA ContractStep == Inv /\ [Next]_vars => [Contract!AnswerNext]_(Contract!answerVars)
<1> SUFFICES ASSUME Inv, [Next]_vars
             PROVE  Contract!AnswerNext \/ UNCHANGED Contract!answerVars
    OBVIOUS
<1> USE DEF rowVars, genVars, Become, Contract!answerVars, Contract!Move
<1>1. CASE UNCHANGED vars \/ DeleteConversation
    BY <1>1 DEF vars, DeleteConversation
<1>2. ASSUME NEW s \in Sends, ReadConversation(s) \/ RefuseSend(s)
      PROVE  UNCHANGED Contract!answerVars
    BY <1>2 DEF ReadConversation, RefuseSend
<1>3. ASSUME NEW s \in Sends, SaveMessages(s)
      PROVE  Contract!Open(s)
    BY <1>3 DEF SaveMessages, Contract!Open, Inv, RowInv
<1>4. ASSUME NEW s \in Sends, StartStream(s)
      PROVE  Contract!Begin(s)
    BY <1>4 DEF StartStream, Contract!Begin, Inv, RowInv
<1>5. ASSUME NEW s \in Sends, Delta(s)
      PROVE  Contract!Part(s)
    <2>1. requested[s] \in Providers /\ attempt[s] \in Chain(s)
        BY <1>5 DEF Delta, Inv, VoiceInv
    <2>2. Current(s) \in Providers /\ \A i \in DOMAIN parts[s] : parts[s][i] = Current(s)
        BY <2>1, OneAuthor DEF Inv
    <2>3. status[s] = "streaming" /\ heard[s] = "start"
        BY <1>5 DEF Delta, Inv, RowInv
    <2> QED
        BY <1>5, <2>2, <2>3 DEF Delta, Contract!Part
<1>6. ASSUME NEW s \in Sends, ProviderDone(s) \/ ProviderFails(s)
      PROVE  UNCHANGED Contract!answerVars
    BY <1>6 DEF ProviderDone, ProviderFails
<1>7. ASSUME NEW s \in Sends, SendError(s)
      PROVE  Contract!Apologise(s)
    BY <1>7 DEF SendError, Contract!Apologise, Inv, RowInv
<1>8. ASSUME NEW s \in Sends, StoreError(s)
      PROVE  Contract!KeepError(s)
    BY <1>8 DEF StoreError, Contract!KeepError, Inv, RowInv
<1>9. ASSUME NEW s \in Sends, ReadUsage(s) \/ UsageConflict(s)
      PROVE  UNCHANGED Contract!answerVars
    BY <1>9 DEF ReadUsage, UsageConflict
<1>10. ASSUME NEW s \in Sends, StoreAnswer(s)
       PROVE  Contract!Complete(s)
    <2>1. requested[s] \in Providers /\ attempt[s] \in Chain(s)
        BY <1>10 DEF StoreAnswer, Inv, VoiceInv
    <2>2. Current(s) \in Providers /\ \A i \in DOMAIN parts[s] : parts[s][i] = Current(s)
        BY <2>1, OneAuthor DEF Inv
    <2>3. status[s] = "streaming" /\ heard[s] = "start"
        BY <1>10 DEF StoreAnswer, Inv, RowInv
    <2> QED
        BY <1>10, <2>2, <2>3 DEF StoreAnswer, Contract!Complete
<1>11. ASSUME NEW s \in Sends, SendDone(s)
       PROVE  Contract!Announce(s)
    BY <1>11 DEF SendDone, Contract!Announce, Inv, RowInv
<1>12. ASSUME NEW s \in Sends, Disconnect(s) \/ Break(s)
       PROVE  UNCHANGED Contract!answerVars
    BY <1>12 DEF Disconnect, Break
<1> QED
    BY <1>1, <1>2, <1>3, <1>4, <1>5, <1>6, <1>7, <1>8, <1>9, <1>10, <1>11, <1>12
       DEF Next, ServerStep, ProviderStep, Contract!AnswerNext, Contract!AnswerStep

\* Chat streams implement AnswerContract: behind the chain of providers, the
\* failures and the other streams, each reader is dealt with as by one author.
THEOREM ChatKeepsTheContract == Spec => AnswersKeepTheContract
<1>1. Spec => []Inv
    BY Invariance
<1> QED
    BY <1>1, ContractInit, ContractStep, PTL
       DEF Spec, AnswersKeepTheContract, Contract!AnswerSpec

-----------------------------------------------------------------------------
(* How far a send can go.                                                  *)

\* What is left of a send is a natural number.
LEMMA LeftIsANumber ==
    ASSUME TypeOK, NEW s \in Sends
    PROVE  /\ PlacesLeft(pc[s]) \in Nat
           /\ Len(FallbackOrder) \in Nat /\ attempt[s] \in Nat /\ attempt[s] <= Len(FallbackOrder)
           /\ MaxDeltas \in Nat /\ Len(parts[s]) \in Nat /\ Len(parts[s]) <= MaxDeltas
<1>1. PlacesLeft(pc[s]) \in Nat
    BY DEF TypeOK, PlacesLeft, Steps, Ends
<1>2. Len(FallbackOrder) \in Nat /\ attempt[s] \in 0..Len(FallbackOrder)
    BY ChatAssumption, LenProperties DEF ChatAssumption, TypeOK
<1>3. parts[s] \in Texts
    BY DEF TypeOK
<1>4. Len(parts[s]) \in 0..MaxDeltas /\ MaxDeltas \in Nat
    BY <1>3, TextsAreBounded, ChatAssumption DEF ChatAssumption
<1> QED
    BY <1>1, <1>2, <1>4

\* So is their sum.
LEMMA LeftIsCounted == TypeOK => \A s \in Sends : StepsLeft(s) \in Nat
BY LeftIsANumber DEF StepsLeft

\* What can be seen of a send's progress.
Progress(s) == <<pc[s], requested[s], attempt[s], parts[s], heard[s], status[s]>>

\* No step of a send that leaves its attempts and parts alone takes it to a
\* place with as much before it.
LEMMA PlaceStep ==
    ASSUME Inv, NEW s \in Sends, attempt'[s] = attempt[s], parts'[s] = parts[s],
           PlacesLeft(pc'[s]) < PlacesLeft(pc[s]), PlacesLeft(pc'[s]) \in Nat
    PROVE  StepsLeft(s)' < StepsLeft(s)
<1>1. TypeOK
    BY DEF Inv
<1> QED
    BY <1>1, LeftIsANumber DEF StepsLeft

\* The steps of one send are not seen in another.
LEMMA OthersStandStill ==
    ASSUME Inv, NEW t \in Sends, NEW s \in Sends \ {t},
           ReadConversation(t) \/ ServerStep(t) \/ ProviderStep(t) \/ Disconnect(t) \/ Break(t)
    PROVE  Progress(s)' = Progress(s)
<1> USE DEF Inv, TypeOK, rowVars, genVars, Become, Progress
<1>1. CASE ReadConversation(t) \/ SaveMessages(t) \/ RefuseSend(t) \/ StartStream(t)
    BY <1>1 DEF ReadConversation, SaveMessages, RefuseSend, StartStream
<1>2. CASE ProviderStep(t)
    BY <1>2 DEF ProviderStep, Delta, ProviderDone, ProviderFails, AskNext
<1>3. CASE SendError(t) \/ StoreError(t) \/ ReadUsage(t) \/ StoreAnswer(t)
    BY <1>3 DEF SendError, StoreError, ReadUsage, StoreAnswer
<1>4. CASE UsageConflict(t) \/ SendDone(t) \/ Disconnect(t) \/ Break(t)
    BY <1>4 DEF UsageConflict, SendDone, Disconnect, Break
<1> QED
    BY <1>1, <1>2, <1>3, <1>4 DEF ServerStep

\* A step of a send leaves less of it.
LEMMA OwnStepCounts ==
    ASSUME Inv, NEW s \in Sends,
           ReadConversation(s) \/ ServerStep(s) \/ ProviderStep(s) \/ Disconnect(s) \/ Break(s)
    PROVE  StepsLeft(s)' < StepsLeft(s)
<1> USE DEF Inv, TypeOK, rowVars, genVars, Become
<1>1. CASE ReadConversation(s) \/ SaveMessages(s) \/ RefuseSend(s) \/ StartStream(s)
    <2>1. /\ attempt'[s] = attempt[s] /\ parts'[s] = parts[s]
          /\ PlacesLeft(pc'[s]) < PlacesLeft(pc[s]) /\ PlacesLeft(pc'[s]) \in Nat
        BY <1>1 DEF ReadConversation, SaveMessages, RefuseSend, StartStream, PlacesLeft, Ends
    <2> QED
        BY <2>1, PlaceStep
<1>2. CASE ProviderDone(s) \/ SendError(s) \/ StoreError(s) \/ ReadUsage(s)
    <2>1. /\ attempt'[s] = attempt[s] /\ parts'[s] = parts[s]
          /\ PlacesLeft(pc'[s]) < PlacesLeft(pc[s]) /\ PlacesLeft(pc'[s]) \in Nat
        BY <1>2 DEF ProviderDone, SendError, StoreError, ReadUsage, PlacesLeft, Ends
    <2> QED
        BY <2>1, PlaceStep
<1>3. CASE StoreAnswer(s) \/ UsageConflict(s) \/ SendDone(s)
    <2>1. /\ attempt'[s] = attempt[s] /\ parts'[s] = parts[s]
          /\ PlacesLeft(pc'[s]) < PlacesLeft(pc[s]) /\ PlacesLeft(pc'[s]) \in Nat
        BY <1>3 DEF StoreAnswer, UsageConflict, SendDone, PlacesLeft, Ends
    <2> QED
        BY <2>1, PlaceStep
<1>4. CASE Disconnect(s) \/ Break(s)
    <2>1. /\ attempt'[s] = attempt[s] /\ parts'[s] = parts[s]
          /\ PlacesLeft(pc'[s]) < PlacesLeft(pc[s]) /\ PlacesLeft(pc'[s]) \in Nat
        BY <1>4 DEF Disconnect, Break, PlacesLeft, Ends
    <2> QED
        BY <2>1, PlaceStep
<1>5. CASE Delta(s)
    <2>1. parts'[s] = Append(parts[s], Current(s)) /\ Len(parts[s]) < MaxDeltas
        BY <1>5 DEF Delta
    <2>2. Current(s) \in Providers
        BY <1>5, OneAuthor DEF Delta, VoiceInv
    <2>3. parts[s] \in Seq(Providers)
        BY TextsAreSequences
    <2>4. Len(parts'[s]) = Len(parts[s]) + 1
        BY <2>1, <2>2, <2>3, AppendProperties
    <2>5. pc'[s] = pc[s] /\ attempt'[s] = attempt[s]
        BY <1>5 DEF Delta
    <2> QED
        BY <2>1, <2>4, <2>5, LeftIsANumber DEF StepsLeft
<1>6. CASE ProviderFails(s)
    <2>1. CASE UNCHANGED attempt /\ pc'[s] = "erring"
        <3>1. attempt'[s] = attempt[s] /\ parts'[s] = parts[s] /\ pc[s] = "streaming"
            BY <1>6, <2>1 DEF ProviderFails
        <3>2. PlacesLeft(pc'[s]) < PlacesLeft(pc[s]) /\ PlacesLeft(pc'[s]) \in Nat
            BY <2>1, <3>1 DEF PlacesLeft, Ends
        <3> QED
            BY <3>1, <3>2, PlaceStep
    <2>2. CASE AskNext(s) /\ UNCHANGED pc
        <3>1. requested[s] \in Providers
            BY <1>6 DEF ProviderFails, VoiceInv
        <3>2. PICK i \in Chain(s) : i > attempt[s] /\ attempt'[s] = i
            BY <2>2 DEF AskNext
        <3>3. i \in 0..Len(FallbackOrder)
            BY <3>1, LinksAreProviders DEF Chain
        <3>4. parts'[s] = parts[s] /\ pc'[s] = pc[s]
            BY <1>6, <2>2 DEF ProviderFails
        <3> QED
            BY <3>2, <3>3, <3>4, LeftIsANumber DEF StepsLeft
    <2> QED
        BY <1>6, <2>1, <2>2 DEF ProviderFails
<1> QED
    BY <1>1, <1>2, <1>3, <1>4, <1>5, <1>6 DEF ServerStep, ProviderStep

\* A send makes no more than 9 + Len(FallbackOrder) + MaxDeltas steps, whatever
\* fails and whatever the other sends do.
THEOREM SendsAreBounded == Spec => SendsCountDown
<1> DEFINE Count == \A s \in Sends : Progress(s)' # Progress(s) =>
                        StepsLeft(s)' \in 0..(StepsLeft(s) - 1)
<1> DEFINE Counted == \A s \in Sends : StepsLeft(s) \in Nat
<1>1. Inv => Counted
    BY LeftIsCounted DEF Inv
<1>2. Inv /\ Counted /\ Counted' /\ [Next]_vars => Count
    <2> SUFFICES ASSUME Inv, [Next]_vars, NEW s \in Sends, Progress(s)' # Progress(s),
                        StepsLeft(s) \in Nat, StepsLeft(s)' \in Nat
                 PROVE  StepsLeft(s)' < StepsLeft(s)
        OBVIOUS
    <2>1. ~UNCHANGED vars /\ ~DeleteConversation
        BY DEF vars, rowVars, genVars, DeleteConversation, Progress
    <2>2. PICK t \in Sends : \/ ReadConversation(t) \/ ServerStep(t) \/ ProviderStep(t)
                            \/ Disconnect(t) \/ Break(t)
        BY <2>1 DEF Next
    <2>3. s = t
        BY <2>2, OthersStandStill
    <2> QED
        BY <2>2, <2>3, OwnStepCounts
<1>3. Count <=> \A s \in Sends :
          <<pc[s], requested[s], attempt[s], parts[s], heard[s], status[s]>>' #
          <<pc[s], requested[s], attempt[s], parts[s], heard[s], status[s]>>
              => StepsLeft(s)' \in 0..(StepsLeft(s) - 1)
    BY DEF Progress
<1> QED
    BY Invariance, <1>1, <1>2, <1>3, PTL DEF Spec, SendsCountDown
=============================================================================
