--------------------------- MODULE EventStreamProofs --------------------------
(***************************************************************************)
(* Theorems about EventStream: for any models, and texts and streams of    *)
(* any length.                                                             *)
(***************************************************************************)
EXTENDS EventStream, SequenceTheorems, FiniteSetTheorems, TLAPS

USE StreamAssumption

(* Texts and frames *)

Chunks == Texts \cup {<<i>> : i \in 1..MaxPieces}

LEMMA UptoIs ==
    ASSUME NEW n \in Nat
    PROVE  /\ Upto(n) \in Seq(Nat) /\ Len(Upto(n)) = n
           /\ Append(Upto(n), n + 1) = Upto(n + 1)
           /\ Upto(n) = <<>> <=> n = 0
  BY DEF Upto

LEMMA TextIs ==
    ASSUME NEW t \in Texts
    PROVE  /\ t \in Seq(Nat) /\ Len(t) \in 0..MaxPieces
           /\ Len(t) < MaxPieces => /\ Append(t, Len(t) + 1) \in Texts \ {<<>>}
                                    /\ Len(Append(t, Len(t) + 1)) = Len(t) + 1
<1>1. PICK n \in 0..MaxPieces : t = Upto(n)
  BY DEF Texts
<1>2. n \in Nat /\ n + 1 \in Nat
  OBVIOUS
<1>3. t \in Seq(Nat) /\ Len(t) = n /\ Append(t, n + 1) = Upto(n + 1) /\ Upto(n + 1) # <<>>
  <2>1. /\ Upto(n) \in Seq(Nat) /\ Len(Upto(n)) = n
        /\ Append(Upto(n), n + 1) = Upto(n + 1)
    BY <1>2, UptoIs
  <2>2. Upto(n + 1) # <<>>
    BY <1>2, UptoIs, n + 1 # 0
  <2> QED
    BY <1>1, <2>1, <2>2
<1>4. n < MaxPieces => Upto(n + 1) \in Texts
  BY DEF Texts
<1>5. Len(Upto(n + 1)) = n + 1
  BY <1>2, UptoIs
<1> QED
  BY <1>3, <1>4, <1>5

LEMMA LastOf ==
    ASSUME NEW t \in Seq(Nat), NEW x \in Nat
    PROVE  SubSeq(Append(t, x), Len(t) + 1, Len(Append(t, x))) = <<x>>
<1>1. /\ Append(t, x) \in Seq(Nat) /\ Len(Append(t, x)) = Len(t) + 1 /\ Len(t) \in Nat
      /\ Append(t, x)[Len(t) + 1] = x
  OBVIOUS
<1> DEFINE s == SubSeq(Append(t, x), Len(t) + 1, Len(t) + 1)
<1>2. s \in Seq(Nat) /\ Len(s) = 1 /\ s[1] = x
  <2>1. Len(t) + 1 \in Int /\ \A i \in (Len(t) + 1)..(Len(t) + 1) : Append(t, x)[i] \in Nat
    BY <1>1
  <2>2. /\ s \in Seq(Nat)
        /\ Len(s) = IF Len(t) + 1 <= Len(t) + 1 THEN Len(t) + 1 - (Len(t) + 1) + 1 ELSE 0
        /\ \A i \in 1..(Len(t) + 1 - (Len(t) + 1) + 1) : s[i] = Append(t, x)[Len(t) + 1 + i - 1]
    BY <2>1, SubSeqProperties
  <2> HIDE DEF s
  <2>3. Len(t) + 1 - (Len(t) + 1) + 1 = 1 /\ Len(t) + 1 + 1 - 1 = Len(t) + 1
    BY <1>1
  <2> QED
    BY <1>1, <2>2, <2>3
<1>3. s = <<x>>
  <2> HIDE DEF s
  <2>1. <<x>> \in Seq(Nat) /\ Len(<<x>>) = 1 /\ <<x>>[1] = x
    OBVIOUS
  <2> QED
    BY <1>2, <2>1, SeqEqual
<1> QED
  BY <1>1, <1>3

LEMMA NoneAfter ==
    ASSUME NEW t \in Seq(Nat)
    PROVE  SubSeq(t, Len(t) + 1, Len(t)) = <<>>
<1>1. Len(t) \in Nat
  OBVIOUS
<1> QED
  BY <1>1

LEMMA Nothing == <<>> \in Texts
  BY UptoIs, 0 \in 0..MaxPieces DEF Texts

LEMMA FrameIs ==
    ASSUME NEW t \in Types, NEW m \in Names, NEW p \in Chunks
    PROVE  Frame(t, m, p) \in Frames
  BY DEF Frame, Frames, Chunks

LEMMA PlainIs ==
    ASSUME NEW t \in Types
    PROVE  Plain(t) \in Frames
  BY FrameIs, Nothing DEF Plain, Names, Chunks

LEMMA OpeningIs ==
    ASSUME NEW m \in Names
    PROVE  Opening(m) \in Seq(Frames)
<1>1. Frame("created", m, <<>>) \in Frames /\ Plain("added") \in Frames
  BY FrameIs, PlainIs, Nothing DEF Types, Chunks
<1> QED
  BY <1>1 DEF Opening

LEMMA DeltaIs ==
    ASSUME NEW p \in Chunks
    PROVE  Delta(p) \in Frames
  BY FrameIs DEF Delta, Types, Names

LEMMA ClosingIs ==
    ASSUME NEW t \in Texts, NEW m \in Names
    PROVE  Closing(t, m) \in Seq(Frames)
<1>1. Frame("text.done", NoModel, t) \in Frames /\ Frame("final", m, t) \in Frames
  BY FrameIs DEF Types, Names, Chunks
<1> QED
  BY <1>1 DEF Closing
-----------------------------------------------------------------------------
(* Types *)

\* The text a handler has put together is what the router has yielded.
TextSaid == text = said

IInv == TypeOK /\ TextSaid

LEMMA TypeInit == Init => IInv
  BY Nothing DEF Init, ContractInit, IInv, TypeOK, TextSaid, Stages, Ended, Names, Outcomes

LEMMA YieldsTextStep ==
    ASSUME IInv, NEW m \in Models, YieldsText(m)
    PROVE  /\ said' = Append(said, Len(said) + 1) /\ said' \in Texts \ {<<>>}
           /\ Len(said') = Len(said) + 1
           /\ <<Len(said')>> \in Chunks \ {<<>>}
           /\ voice \in {NoModel, m} /\ voice' = m
           /\ outcome = "open" /\ UNCHANGED <<outcome, author, empties>>
<1>1. said \in Texts /\ Len(said) < MaxPieces /\ said' = Append(said, Len(said) + 1)
  BY DEF IInv, TypeOK, YieldsText
<1>2. /\ said' \in Texts \ {<<>>} /\ Len(said') = Len(said) + 1
      /\ Len(said) \in 0..MaxPieces
  BY <1>1, TextIs
<1>3. Len(said') \in 1..MaxPieces
  BY <1>1, <1>2
<1> QED
  BY <1>1, <1>2, <1>3 DEF YieldsText, Speak, MaySpeak, Chunks

LEMMA TypeStep ==
    ASSUME IInv, [Next]_vars
    PROVE  IInv'
<1> USE DEF Names, Stages, Ended, Outcomes, Ready, contract
<1>0. TypeOK /\ text = said
  BY DEF IInv, TextSaid
<1>1. CASE PreflightEmpty
  BY <1>0, <1>1, Nothing DEF PreflightEmpty, YieldsNothing, IInv, TypeOK, TextSaid
<1>2. CASE PreflightText
  <2>1. PICK m \in Models : /\ YieldsText(m) /\ pulled' = <<m, said'>> /\ model' = m
                            /\ todo' = Append(Opening(m), Delta(said'))
    BY <1>2 DEF PreflightText
  <2>2. said' \in Texts /\ voice' = m /\ UNCHANGED <<outcome, author, empties>>
    BY <2>1, YieldsTextStep
  <2>3. todo' \in Seq(Frames)
    BY <2>1, <2>2, OpeningIs, DeltaIs DEF Chunks
  <2> QED
    BY <1>0, <1>2, <2>1, <2>2, <2>3 DEF PreflightText, IInv, TypeOK, TextSaid
<1>3. CASE PreflightEnds
  <2>1. /\ outcome' = "answered" /\ author' \in Models \cup {NoModel}
        /\ UNCHANGED <<voice, said, empties>>
    BY <1>0, <1>3 DEF PreflightEnds, Returns, Complete, TypeOK
  <2>2. model' = author' /\ todo' = Opening(model')
    BY <1>3, <2>1 DEF PreflightEnds, OpeningModel
  <2>3. todo' \in Seq(Frames)
    BY <2>1, <2>2, OpeningIs
  <2> QED
    BY <1>0, <1>3, <2>1, <2>2, <2>3 DEF PreflightEnds, IInv, TypeOK, TextSaid
<1>4. CASE PreflightRaises
  BY <1>0, <1>4 DEF PreflightRaises, Raises, Raise, IInv, TypeOK, TextSaid
<1>5. CASE PullText
  <2>1. PICK m \in Models : YieldsText(m) /\ model' = m
    BY <1>5 DEF PullText
  <2>2. /\ said' \in Texts /\ said' = Append(said, Len(said) + 1) /\ Len(said') = Len(said) + 1
        /\ <<Len(said')>> \in Chunks
        /\ voice' = m /\ UNCHANGED <<outcome, author, empties>>
    BY <2>1, YieldsTextStep
  <2>3. todo' \in Seq(Frames) /\ text' = said'
    BY <1>0, <1>5, <2>2, DeltaIs DEF PullText
  <2> QED
    BY <1>0, <1>5, <2>1, <2>2, <2>3 DEF PullText, IInv, TypeOK, TextSaid
<1>6. CASE PullEmpty
  BY <1>0, <1>6 DEF PullEmpty, YieldsNothing, IInv, TypeOK, TextSaid
<1>7. CASE PullEnds
  <2>1. /\ outcome' = "answered" /\ author' \in Models \cup {NoModel}
        /\ UNCHANGED <<voice, said, empties>>
    BY <1>0, <1>7 DEF PullEnds, Returns, Complete, TypeOK
  <2>2. todo' \in Seq(Frames)
    BY <1>0, <1>7, <2>1, ClosingIs DEF PullEnds, TypeOK
  <2> QED
    BY <1>0, <1>7, <2>1, <2>2 DEF PullEnds, IInv, TypeOK, TextSaid
<1>8. CASE PullRaises
  <2>1. Frame("failed", model, text) \in Frames
    BY <1>0, FrameIs DEF TypeOK, Types, Chunks
  <2> QED
    BY <1>0, <1>8, <2>1 DEF PullRaises, Raises, Raise, IInv, TypeOK, TextSaid
<1>9. CASE ChatChunk
  <2>1. PICK m \in Models :
          /\ YieldsText(m) \/ YieldsNothing(m)
          /\ model' = m
          /\ todo' = <<Frame("chunk", m, SubSeq(said', Len(said) + 1, Len(said')))>>
    BY <1>9 DEF ChatChunk
  <2>2. /\ said' \in Texts /\ voice' \in Models \cup {NoModel} /\ empties' \in 0..MaxEmpty
        /\ UNCHANGED <<outcome, author>>
        /\ SubSeq(said', Len(said) + 1, Len(said')) \in Chunks
    <3>1. CASE YieldsText(m)
      <4>1. SubSeq(said', Len(said) + 1, Len(said')) = <<Len(said')>>
        <5>1. said \in Seq(Nat) /\ Len(said) + 1 \in Nat
          BY <1>0, TextIs DEF TypeOK
        <5>2. said' = Append(said, Len(said) + 1) /\ Len(said') = Len(said) + 1
          BY <3>1, YieldsTextStep
        <5> QED
          BY <5>1, <5>2, LastOf
      <4> QED
        BY <1>0, <3>1, <4>1, YieldsTextStep DEF TypeOK
    <3>2. CASE YieldsNothing(m)
      <4>1. SubSeq(said, Len(said) + 1, Len(said)) = <<>>
        BY <1>0, TextIs, NoneAfter DEF TypeOK
      <4>2. /\ said' = said /\ empties' \in 0..MaxEmpty
            /\ UNCHANGED <<voice, outcome, author>>
        BY <1>0, <3>2 DEF TypeOK, YieldsNothing
      <4>3. SubSeq(said', Len(said) + 1, Len(said')) \in Chunks
        BY <4>1, <4>2, Nothing DEF Chunks
      <4> QED
        BY <1>0, <4>2, <4>3 DEF TypeOK
    <3> QED
      BY <2>1, <3>1, <3>2
  <2>3. todo' \in Seq(Frames)
    BY <2>1, <2>2, FrameIs DEF Types
  <2> QED
    BY <1>0, <1>9, <2>1, <2>2, <2>3 DEF ChatChunk, IInv, TypeOK, TextSaid
<1>10. CASE ChatEnds
  <2>1. /\ outcome' = "answered" /\ author' \in Models \cup {NoModel}
        /\ UNCHANGED <<voice, said, empties>>
    BY <1>0, <1>10 DEF ChatEnds, Returns, Complete, TypeOK
  <2>2. Frame("stop", model, <<>>) \in Frames /\ Plain("[DONE]") \in Frames
    BY <1>0, FrameIs, PlainIs, Nothing DEF TypeOK, Types, Chunks
  <2> QED
    BY <1>0, <1>10, <2>1, <2>2 DEF ChatEnds, IInv, TypeOK, TextSaid
<1>11. CASE ChatRaises
  <2>1. Plain("error") \in Frames /\ Plain("[DONE]") \in Frames
    BY PlainIs DEF Types
  <2>2. todo' \in Seq(Frames) /\ stage' \in Stages /\ outcome' \in Outcomes
    <3>1. <<Plain("error"), Plain("[DONE]")>> \in Seq(Frames)
      BY <2>1
    <3>2. todo \in Seq(Frames)
      BY <1>0 DEF TypeOK
    <3>3. todo' = <<Plain("error"), Plain("[DONE]")>> \/ todo' = todo
      BY <1>11 DEF ChatRaises
    <3>4. stage' \in {"closing", "broken"} /\ outcome' \in {"failed", "crashed"}
      BY <1>11 DEF ChatRaises, Raises
    <3> QED
      BY <3>1, <3>2, <3>3, <3>4
  <2>3. UNCHANGED <<kind, model, pulled, text, sent, said, empties, voice, author>>
    BY <1>11 DEF ChatRaises, Raises, Raise
  <2> QED
    BY <1>0, <2>2, <2>3 DEF IInv, TypeOK, TextSaid
<1>12. CASE Yield
  <2>1. sent' \in Seq(Frames) /\ todo' \in Seq(Frames)
    BY <1>0, <1>12 DEF Yield, TypeOK
  <2> QED
    BY <1>0, <1>12, <2>1 DEF Yield, IInv, TypeOK, TextSaid
<1>13. CASE Leave
  BY <1>0, <1>13 DEF Leave, Close, IInv, TypeOK, TextSaid
<1>14. CASE UNCHANGED vars
  BY <1>0, <1>14 DEF vars, handler, IInv, TypeOK, TextSaid
<1> QED
  BY <1>1, <1>2, <1>3, <1>4, <1>5, <1>6, <1>7, <1>8, <1>9, <1>10, <1>11, <1>12, <1>13, <1>14
     DEF Next

\* Frames and texts stay what they are whatever the router yields, and the text of
\* the handler is the router's.
THEOREM TypeCorrect == Spec => []TypeOK
<1>1. IInv => TypeOK
  BY DEF IInv
<1> QED
  BY <1>1, TypeInit, TypeStep, PTL DEF Spec
-----------------------------------------------------------------------------
(* One model is named *)

\* The model a stream is of: the one that spoke or, of a stream without text, the
\* one that answered.
Speaker == IF voice # NoModel THEN voice ELSE author

FramesOf(S) == {f \in Frames : f.model \in S}
Wordless == {f \in Frames : f.text = <<>>}

ContractKept == outcome = "answered" => author \in Models /\ voice \in {NoModel, author}

\* A handler that may still pull text holds the model that spoke.
ModelKept == stage = "streaming" /\ outcome = "open" /\ voice # NoModel => model = voice

PreflightSilent ==
    stage = "preflight" =>
        kind = "responses" /\ voice = NoModel /\ outcome = "open" /\ todo = <<>> /\ sent = <<>>

\* A Responses stream starts with a text or with the answer.
ResponsesNamed ==
    kind = "responses" =>
        /\ stage = "streaming" => voice # NoModel \/ outcome = "answered"
        /\ sent \in Seq(FramesOf({NoModel, Speaker}))
        /\ todo \in Seq(FramesOf({NoModel, Speaker}))

ChatNamed ==
    kind = "chat" =>
        /\ stage = "streaming" => outcome = "open"
        /\ voice = NoModel => sent \in Seq(Wordless) /\ todo \in Seq(Wordless)
        /\ voice # NoModel => todo \in Seq(FramesOf({NoModel, voice}))
        /\ \A i \in 1..Len(sent) :
            sent[i].model # NoModel /\ (\E j \in 1..i : sent[j].text # <<>>)
            => sent[i].model = voice

NInv == IInv /\ ContractKept /\ ModelKept /\ PreflightSilent /\ ResponsesNamed /\ ChatNamed

LEMMA NamedInit == Init => NInv
<1>1. SUFFICES ASSUME Init PROVE NInv
  OBVIOUS
<1>2. IInv
  BY <1>1, TypeInit
<1>3. ContractKept /\ ModelKept /\ PreflightSilent
  BY <1>1 DEF Init, ContractInit, ContractKept, ModelKept, PreflightSilent
<1>4. ResponsesNamed /\ ChatNamed
  BY <1>1 DEF Init, ContractInit, ResponsesNamed, ChatNamed
<1> QED
  BY <1>2, <1>3, <1>4 DEF NInv

\* Where only the named facts are disturbed, the rest of NInv stays.
LEMMA Undisturbed ==
    ASSUME NInv, UNCHANGED <<kind, voice, author, outcome, sent, todo, model, stage>>
    PROVE  /\ ContractKept' /\ ModelKept' /\ PreflightSilent' /\ ResponsesNamed' /\ ChatNamed'
  BY DEF NInv, ContractKept, ModelKept, PreflightSilent, ResponsesNamed, ChatNamed, Speaker

LEMMA NamedResult == NInv => OneModelNamed
<1>1. SUFFICES ASSUME NInv, NEW i \in DOMAIN sent, sent[i].model # NoModel,
                      kind = "responses" \/ \E j \in 1..i : sent[j].text # <<>>
               PROVE  /\ voice # NoModel => sent[i].model = voice
                      /\ outcome = "answered" => sent[i].model = author
  BY DEF OneModelNamed
<1>2. sent \in Seq(Frames) /\ kind \in {"responses", "chat"} /\ i \in 1..Len(sent)
  BY <1>1 DEF NInv, IInv, TypeOK
<1>3. outcome = "answered" => author \in Models /\ voice \in {NoModel, author}
  BY <1>1 DEF NInv, ContractKept
<1>4. CASE kind = "responses"
  <2>1. sent[i] \in FramesOf({NoModel, Speaker})
    BY <1>1, <1>2, <1>4 DEF NInv, ResponsesNamed
  <2>2. sent[i].model = Speaker
    BY <1>1, <2>1 DEF FramesOf
  <2> QED
    BY <1>3, <2>2 DEF Speaker
<1>5. CASE kind = "chat"
  <2>1. \E j \in 1..i : sent[j].text # <<>>
    BY <1>1, <1>5
  <2>2. sent[i].model = voice
    BY <1>1, <1>2, <1>5, <2>1 DEF NInv, ChatNamed
  <2> QED
    BY <1>1, <1>3, <2>2
<1> QED
  BY <1>2, <1>4, <1>5

\* The model of each frame of an opening and of a closing.
LEMMA OpeningOf ==
    ASSUME NEW m \in Names
    PROVE  Opening(m) \in Seq(FramesOf({NoModel, m}))
<1>1. /\ Frame("created", m, <<>>) \in FramesOf({NoModel, m})
      /\ Plain("added") \in FramesOf({NoModel, m})
  <2>1. Frame("created", m, <<>>) \in Frames /\ Plain("added") \in Frames
    BY FrameIs, PlainIs, Nothing DEF Types, Chunks
  <2> QED
    BY <2>1 DEF FramesOf, Frame, Plain
<1> QED
  BY <1>1 DEF Opening

LEMMA ClosingOf ==
    ASSUME NEW t \in Texts, NEW m \in Names
    PROVE  Closing(t, m) \in Seq(FramesOf({NoModel, m}))
<1>1. /\ Frame("text.done", NoModel, t) \in FramesOf({NoModel, m})
      /\ Frame("final", m, t) \in FramesOf({NoModel, m})
  <2>1. Frame("text.done", NoModel, t) \in Frames /\ Frame("final", m, t) \in Frames
    BY FrameIs DEF Types, Names, Chunks
  <2> QED
    BY <2>1 DEF FramesOf, Frame
<1> QED
  BY <1>1 DEF Closing

LEMMA DeltaOf ==
    ASSUME NEW m, NEW p \in Chunks
    PROVE  Delta(p) \in FramesOf({NoModel, m})
<1>1. Delta(p) \in Frames
  BY DeltaIs
<1> QED
  BY <1>1 DEF FramesOf, Delta, Frame

LEMMA NamedPreflight ==
    ASSUME NInv, IInv',
           PreflightEmpty \/ PreflightText \/ PreflightEnds \/ PreflightRaises
    PROVE  NInv'
<1> USE DEF Ready
<1>0. /\ kind = "responses" /\ stage = "preflight" /\ voice = NoModel /\ outcome = "open"
      /\ todo = <<>> /\ sent = <<>> /\ kind' = kind /\ sent' = sent
  BY DEF PreflightEmpty, PreflightText, PreflightEnds, PreflightRaises, NInv, PreflightSilent
<1>1. ChatNamed'
  BY <1>0 DEF ChatNamed
<1>2. CASE PreflightEmpty
  BY <1>0, <1>1, <1>2
     DEF PreflightEmpty, YieldsNothing, contract, NInv, ContractKept, ModelKept,
         PreflightSilent, ResponsesNamed
<1>3. CASE PreflightText
  <2>1. PICK m \in Models : /\ YieldsText(m) /\ pulled' = <<m, said'>> /\ model' = m
                            /\ todo' = Append(Opening(m), Delta(said'))
    BY <1>3 DEF PreflightText
  <2>2. said' \in Chunks /\ voice' = m /\ outcome' = "open" /\ m # NoModel
    BY <1>0, <2>1, YieldsTextStep DEF NInv, Chunks
  <2>3. todo' \in Seq(FramesOf({NoModel, m}))
    <3>1. Opening(m) \in Seq(FramesOf({NoModel, m}))
      BY OpeningOf DEF Names
    <3>2. Delta(said') \in FramesOf({NoModel, m})
      BY <2>2, DeltaOf
    <3> QED
      BY <2>1, <3>1, <3>2
  <2>4. Speaker' = m /\ stage' = "streaming"
    BY <1>3, <2>2 DEF Speaker, PreflightText
  <2>5. sent' \in Seq(FramesOf({NoModel, m}))
    BY <1>0
  <2>6. ResponsesNamed'
    BY <2>2, <2>3, <2>4, <2>5 DEF ResponsesNamed
  <2> QED
    BY <1>1, <2>1, <2>2, <2>4, <2>6 DEF NInv, ContractKept, ModelKept, PreflightSilent
<1>4. CASE PreflightEnds
  <2>1. PICK m \in Models : Complete(m)
    BY <1>0, <1>4 DEF PreflightEnds, Returns
  <2>2. outcome' = "answered" /\ author' = m /\ voice' = NoModel
    BY <1>0, <2>1 DEF Complete
  <2>3. todo' = Opening(m) /\ stage' = "streaming"
    BY <1>4, <2>2 DEF PreflightEnds, OpeningModel
  <2>4. todo' \in Seq(FramesOf({NoModel, m})) /\ Speaker' = m
    BY <2>2, <2>3, OpeningOf DEF Names, Speaker
  <2>5. sent' \in Seq(FramesOf({NoModel, m}))
    BY <1>0
  <2>6. ResponsesNamed'
    BY <2>2, <2>3, <2>4, <2>5 DEF ResponsesNamed
  <2> QED
    BY <1>1, <2>1, <2>2, <2>3, <2>6 DEF NInv, ContractKept, ModelKept, PreflightSilent
<1>5. CASE PreflightRaises
  <2>1. /\ stage' \in {"rejected", "broken"} /\ outcome' \in {"failed", "crashed"}
        /\ todo' = <<>>
    BY <1>0, <1>5 DEF PreflightRaises, Raises
  <2>2. ResponsesNamed'
    BY <1>0, <2>1 DEF ResponsesNamed
  <2> QED
    BY <1>1, <2>1, <2>2 DEF NInv, ContractKept, ModelKept, PreflightSilent
<1> QED
  BY <1>2, <1>3, <1>4, <1>5

LEMMA NamedPull ==
    ASSUME NInv, IInv', PullText \/ PullEmpty \/ PullEnds \/ PullRaises
    PROVE  NInv'
<1> USE DEF Ready
<1>0. /\ kind = "responses" /\ stage = "streaming" /\ kind' = kind /\ sent' = sent
      /\ voice # NoModel \/ outcome = "answered"
      /\ sent \in Seq(FramesOf({NoModel, Speaker}))
      /\ outcome = "open" /\ voice # NoModel => model = voice
  BY DEF PullText, PullEmpty, PullEnds, PullRaises, NInv, ResponsesNamed, ModelKept
<1>1. ChatNamed' /\ TypeOK
  BY <1>0 DEF ChatNamed, NInv, IInv
<1>2. CASE PullText
  <2>1. PICK m \in Models : YieldsText(m) /\ model' = m
    BY <1>2 DEF PullText
  <2>2. /\ <<Len(said')>> \in Chunks /\ voice \in {NoModel, m} /\ voice' = m
        /\ outcome = "open" /\ outcome' = "open" /\ m # NoModel
    BY <2>1, YieldsTextStep DEF NInv
  <2>3. stage' = "streaming" /\ todo' = <<Delta(<<Len(said')>>)>>
    BY <1>0, <1>2 DEF PullText
  <2>4. Speaker = m /\ Speaker' = m
    BY <1>0, <2>2 DEF Speaker
  <2>5. todo' \in Seq(FramesOf({NoModel, m}))
    <3>1. Delta(<<Len(said')>>) \in FramesOf({NoModel, m})
      BY <2>2, DeltaOf
    <3> QED
      BY <2>3, <3>1
  <2>6. ResponsesNamed'
    BY <1>0, <2>2, <2>4, <2>5 DEF ResponsesNamed
  <2> QED
    BY <1>1, <2>1, <2>2, <2>3, <2>6 DEF NInv, ContractKept, ModelKept, PreflightSilent
<1>3. CASE PullEmpty
  <2>1. PICK m \in Models : YieldsNothing(m) /\ model' = m
    BY <1>3 DEF PullEmpty
  <2>2. /\ voice = m /\ outcome = "open"
        /\ UNCHANGED <<voice, outcome, author, stage, todo>>
    BY <1>0, <1>3, <2>1 DEF PullEmpty, YieldsNothing, MaySpeak, contract
  <2>3. ResponsesNamed'
    BY <1>0, <2>2 DEF ResponsesNamed, Speaker, NInv
  <2> QED
    BY <1>0, <1>1, <2>1, <2>2, <2>3 DEF NInv, ContractKept, ModelKept, PreflightSilent
<1>4. CASE PullEnds
  <2>1. /\ outcome' = "answered" /\ author' \in Models /\ voice' = voice
        /\ voice \in {NoModel, author'}
        /\ outcome = "answered" => author' = author
    BY <1>4 DEF PullEnds, Returns, Complete, MaySpeak, contract, NInv, ContractKept
  <2>2. Speaker = author' /\ Speaker' = author'
    BY <1>0, <2>1 DEF Speaker
  <2>3. todo' = Closing(text, author') /\ stage' = "closing"
    BY <1>4 DEF PullEnds
  <2>4. todo' \in Seq(FramesOf({NoModel, Speaker'}))
    BY <1>1, <2>1, <2>2, <2>3, ClosingOf DEF Names, TypeOK
  <2>5. ResponsesNamed'
    BY <1>0, <2>2, <2>3, <2>4 DEF ResponsesNamed
  <2> QED
    BY <1>1, <2>1, <2>3, <2>5 DEF NInv, ContractKept, ModelKept, PreflightSilent
<1>5. CASE PullRaises
  <2>1. /\ outcome = "open" /\ outcome' = "failed" /\ stage' = "closing"
        /\ UNCHANGED <<voice, author>> /\ todo' = <<Frame("failed", model, text)>>
    BY <1>5 DEF PullRaises, Raises, Raise
  <2>2. model = Speaker /\ Speaker' = Speaker
    BY <1>0, <2>1 DEF Speaker
  <2>3. Frame("failed", model, text) \in FramesOf({NoModel, Speaker})
    <3>1. Frame("failed", model, text) \in Frames
      BY <1>1, FrameIs DEF TypeOK, Types, Chunks
    <3> QED
      BY <2>2, <3>1 DEF FramesOf, Frame
  <2>4. todo' \in Seq(FramesOf({NoModel, Speaker}))
    BY <2>1, <2>3
  <2>5. ResponsesNamed'
    BY <1>0, <2>1, <2>2, <2>4 DEF ResponsesNamed
  <2> QED
    BY <1>1, <2>1, <2>5 DEF NInv, ContractKept, ModelKept, PreflightSilent
<1> QED
  BY <1>2, <1>3, <1>4, <1>5

LEMMA NamedChat ==
    ASSUME NInv, IInv', ChatChunk \/ ChatEnds \/ ChatRaises
    PROVE  NInv'
<1> USE DEF Ready
<1>0. /\ kind = "chat" /\ stage = "streaming" /\ kind' = kind /\ sent' = sent /\ todo = <<>>
      /\ outcome = "open"
      /\ voice = NoModel => sent \in Seq(Wordless)
      /\ voice # NoModel => model = voice
      /\ \A i \in 1..Len(sent) :
            sent[i].model # NoModel /\ (\E j \in 1..i : sent[j].text # <<>>)
            => sent[i].model = voice
  BY DEF ChatChunk, ChatEnds, ChatRaises, NInv, ChatNamed, ModelKept
<1>1. ResponsesNamed' /\ TypeOK
  BY <1>0 DEF ResponsesNamed, NInv, IInv
<1>2. CASE ChatChunk
  <2>1. PICK m \in Models :
          /\ YieldsText(m) \/ YieldsNothing(m)
          /\ model' = m
          /\ todo' = <<Frame("chunk", m, SubSeq(said', Len(said) + 1, Len(said')))>>
    BY <1>2 DEF ChatChunk
  <2>2. stage' = "streaming" /\ todo' \in Seq(Frames) /\ m # NoModel
    BY <1>0, <1>2 DEF ChatChunk, IInv, TypeOK
  <2> DEFINE f == Frame("chunk", m, SubSeq(said', Len(said) + 1, Len(said')))
  <2>3. f \in Frames /\ f.model = m
    <3>1. todo' = <<f>>
      BY <2>1
    <3>2. Len(todo') = 1 /\ todo'[1] = f
      BY <3>1
    <3>3. todo'[1] \in Frames
      BY <2>2, <3>2, ElementOfSeq
    <3> QED
      BY <3>2, <3>3 DEF Frame
  <2>4. CASE YieldsText(m)
    <3>1. voice \in {NoModel, m} /\ voice' = m /\ outcome' = "open"
      BY <1>0, <2>4, YieldsTextStep DEF NInv
    <3>2. todo' \in Seq(FramesOf({NoModel, m}))
      <4> HIDE DEF f
      <4>1. f \in FramesOf({NoModel, m})
        BY <2>3 DEF FramesOf
      <4>2. todo' = <<f>>
        BY <2>1 DEF f
      <4> QED
        BY <4>1, <4>2
    <3>3. \A i \in 1..Len(sent) :
            sent[i].model # NoModel /\ (\E j \in 1..i : sent[j].text # <<>>)
            => sent[i].model = m
      <4>1. CASE voice = m
        BY <1>0, <4>1
      <4>2. CASE voice = NoModel
        <5>1. \A j \in 1..Len(sent) : sent[j].text = <<>>
          BY <1>0, <4>2 DEF Wordless
        <5>2. Len(sent) \in Nat
          BY <1>1 DEF TypeOK
        <5> QED
          BY <5>1, <5>2
      <4> QED
        BY <3>1, <4>1, <4>2
    <3>4. ChatNamed'
      BY <1>0, <2>2, <3>1, <3>2, <3>3 DEF ChatNamed
    <3> QED
      BY <1>1, <2>1, <2>2, <3>1, <3>4 DEF NInv, ContractKept, ModelKept, PreflightSilent
  <2>5. CASE YieldsNothing(m)
    <3>1. voice \in {NoModel, m} /\ voice' = voice /\ outcome' = "open" /\ said' = said
      BY <1>0, <2>5 DEF YieldsNothing, MaySpeak, contract
    <3>2. voice # NoModel => todo' \in Seq(FramesOf({NoModel, voice}))
      <4> HIDE DEF f
      <4>1. voice # NoModel => f \in FramesOf({NoModel, voice})
        BY <2>3, <3>1 DEF FramesOf
      <4>2. todo' = <<f>>
        BY <2>1 DEF f
      <4> QED
        BY <4>1, <4>2
    <3>3. todo' \in Seq(Wordless)
      <4>1. said \in Seq(Nat)
        BY <1>1, TextIs DEF TypeOK
      <4>2. f.text = <<>>
        BY <3>1, <4>1, NoneAfter DEF Frame
      <4> HIDE DEF f
      <4>3. f \in Wordless
        BY <2>3, <4>2 DEF Wordless
      <4>4. todo' = <<f>>
        BY <2>1 DEF f
      <4> QED
        BY <4>3, <4>4
    <3>4. ChatNamed'
      BY <1>0, <2>2, <3>1, <3>2, <3>3 DEF ChatNamed
    <3> QED
      BY <1>1, <2>1, <2>2, <3>1, <3>4 DEF NInv, ContractKept, ModelKept, PreflightSilent
  <2> QED
    BY <2>1, <2>4, <2>5
<1>3. CASE ChatEnds
  <2>1. /\ outcome' = "answered" /\ author' \in Models /\ voice' = voice
        /\ voice \in {NoModel, author'}
    BY <1>0, <1>3 DEF ChatEnds, Returns, Complete, MaySpeak
  <2>2. stage' = "closing" /\ todo' = <<Frame("stop", model, <<>>), Plain("[DONE]")>>
    BY <1>3 DEF ChatEnds
  <2>3. /\ Frame("stop", model, <<>>) \in Wordless /\ Plain("[DONE]") \in Wordless
        /\ voice # NoModel => /\ Frame("stop", model, <<>>) \in FramesOf({NoModel, voice})
                              /\ Plain("[DONE]") \in FramesOf({NoModel, voice})
    <3>1. Frame("stop", model, <<>>) \in Frames /\ Plain("[DONE]") \in Frames
      BY <1>1, FrameIs, PlainIs, Nothing DEF TypeOK, Types, Chunks
    <3> QED
      BY <1>0, <3>1 DEF Wordless, FramesOf, Frame, Plain
  <2>4. /\ todo' \in Seq(Wordless)
        /\ voice # NoModel => todo' \in Seq(FramesOf({NoModel, voice}))
    BY <2>2, <2>3
  <2>5. ChatNamed'
    BY <1>0, <2>1, <2>2, <2>4 DEF ChatNamed
  <2> QED
    BY <1>1, <2>1, <2>2, <2>5 DEF NInv, ContractKept, ModelKept, PreflightSilent
<1>4. CASE ChatRaises
  <2>1. /\ outcome' \in {"failed", "crashed"} /\ stage' \in {"closing", "broken"}
        /\ UNCHANGED <<voice, author>>
    BY <1>4 DEF ChatRaises, Raises, Raise
  <2>2. /\ Plain("error") \in Wordless /\ Plain("[DONE]") \in Wordless
        /\ Plain("error") \in FramesOf({NoModel, voice})
        /\ Plain("[DONE]") \in FramesOf({NoModel, voice})
    <3>1. Plain("error") \in Frames /\ Plain("[DONE]") \in Frames
      BY PlainIs DEF Types
    <3> QED
      BY <3>1 DEF Wordless, FramesOf, Frame, Plain
  <2>3. todo' = <<>> \/ todo' = <<Plain("error"), Plain("[DONE]")>>
    BY <1>0, <1>4 DEF ChatRaises
  <2>4. todo' \in Seq(Wordless) /\ todo' \in Seq(FramesOf({NoModel, voice}))
    <3>1. CASE todo' = <<>>
      BY <3>1
    <3>2. CASE todo' = <<Plain("error"), Plain("[DONE]")>>
      BY <2>2, <3>2
    <3> QED
      BY <2>3, <3>1, <3>2
  <2>5. ChatNamed'
    BY <1>0, <2>1, <2>4 DEF ChatNamed
  <2> QED
    BY <1>1, <2>1, <2>5 DEF NInv, ContractKept, ModelKept, PreflightSilent
<1> QED
  BY <1>2, <1>3, <1>4

LEMMA NamedYield ==
    ASSUME NInv, IInv', Yield
    PROVE  NInv'
<1>0. /\ todo # <<>> /\ sent' = Append(sent, Head(todo)) /\ todo' = Tail(todo)
      /\ stage' \in {stage, "done"} /\ UNCHANGED <<kind, model, voice, outcome, author>>
      /\ sent \in Seq(Frames) /\ todo \in Seq(Frames) /\ kind \in {"responses", "chat"}
  BY DEF Yield, contract, NInv, IInv, TypeOK
<1>1. ContractKept' /\ ModelKept' /\ PreflightSilent'
  BY <1>0 DEF NInv, ContractKept, ModelKept, PreflightSilent
<1>2. ResponsesNamed'
  <2>1. SUFFICES ASSUME kind = "responses" PROVE ResponsesNamed'
    BY <1>0 DEF ResponsesNamed
  <2>2. /\ sent \in Seq(FramesOf({NoModel, Speaker})) /\ todo \in Seq(FramesOf({NoModel, Speaker}))
        /\ stage = "streaming" => voice # NoModel \/ outcome = "answered"
    BY <2>1 DEF NInv, ResponsesNamed
  <2>3. /\ sent' \in Seq(FramesOf({NoModel, Speaker})) /\ todo' \in Seq(FramesOf({NoModel, Speaker}))
    BY <1>0, <2>2
  <2>4. Speaker' = Speaker
    BY <1>0 DEF Speaker
  <2> QED
    BY <1>0, <2>2, <2>3, <2>4 DEF ResponsesNamed
<1>3. ChatNamed'
  <2>1. SUFFICES ASSUME kind = "chat" PROVE ChatNamed'
    BY <1>0 DEF ChatNamed
  <2>2. /\ stage = "streaming" => outcome = "open"
        /\ voice = NoModel => sent \in Seq(Wordless) /\ todo \in Seq(Wordless)
        /\ voice # NoModel => todo \in Seq(FramesOf({NoModel, voice}))
        /\ \A i \in 1..Len(sent) :
            sent[i].model # NoModel /\ (\E j \in 1..i : sent[j].text # <<>>)
            => sent[i].model = voice
    BY <2>1 DEF NInv, ChatNamed
  <2>3. /\ voice = NoModel => sent' \in Seq(Wordless) /\ todo' \in Seq(Wordless)
        /\ voice # NoModel => todo' \in Seq(FramesOf({NoModel, voice}))
    BY <1>0, <2>2
  <2>4. ASSUME NEW i \in 1..Len(sent'), sent'[i].model # NoModel,
               NEW j \in 1..i, sent'[j].text # <<>>
        PROVE  sent'[i].model = voice
    <3>1. /\ Len(sent) \in Nat /\ Len(sent') = Len(sent) + 1
          /\ \A k \in 1..Len(sent) : sent'[k] = sent[k]
          /\ sent'[Len(sent) + 1] = Head(todo)
      BY <1>0
    <3>2. CASE i <= Len(sent)
      BY <2>2, <2>4, <3>1, <3>2
    <3>3. CASE i = Len(sent) + 1
      <4>1. CASE voice # NoModel
        <5>1. Head(todo) \in FramesOf({NoModel, voice})
          BY <1>0, <2>2, <4>1
        <5> QED
          BY <2>4, <3>1, <3>3, <5>1 DEF FramesOf
      <4>2. CASE voice = NoModel
        <5>1. sent' \in Seq(Wordless) /\ j \in 1..Len(sent')
          BY <2>3, <3>1, <4>2
        <5>2. sent'[j] \in Wordless
          BY <5>1, ElementOfSeq
        <5> QED
          BY <2>4, <5>2 DEF Wordless
      <4> QED
        BY <4>1, <4>2
    <3> QED
      BY <3>1, <3>2, <3>3
  <2> QED
    BY <1>0, <2>2, <2>3, <2>4 DEF ChatNamed
<1> QED
  BY <1>1, <1>2, <1>3 DEF NInv

LEMMA NamedStep ==
    ASSUME NInv, [Next]_vars
    PROVE  NInv'
<1>0. IInv'
  BY TypeStep DEF NInv
<1>1. CASE PreflightEmpty \/ PreflightText \/ PreflightEnds \/ PreflightRaises
  BY <1>0, <1>1, NamedPreflight
<1>2. CASE PullText \/ PullEmpty \/ PullEnds \/ PullRaises
  BY <1>0, <1>2, NamedPull
<1>3. CASE ChatChunk \/ ChatEnds \/ ChatRaises
  BY <1>0, <1>3, NamedChat
<1>4. CASE Yield
  BY <1>0, <1>4, NamedYield
<1>5. CASE Leave
  <2>1. /\ UNCHANGED <<kind, model, sent, todo, voice, author>> /\ stage' = "gone"
        /\ outcome' = outcome \/ outcome' = "closed"
    BY <1>5 DEF Leave, Close, contract
  <2>2. ContractKept' /\ ModelKept' /\ PreflightSilent'
    BY <2>1 DEF NInv, ContractKept, ModelKept, PreflightSilent
  <2>3. ResponsesNamed' /\ ChatNamed'
    BY <2>1 DEF NInv, ResponsesNamed, ChatNamed, Speaker
  <2> QED
    BY <1>0, <2>2, <2>3 DEF NInv
<1>6. CASE UNCHANGED vars
  BY <1>0, <1>6, Undisturbed DEF vars, handler, contract, NInv
<1> QED
  BY <1>1, <1>2, <1>3, <1>4, <1>5, <1>6 DEF Next

\* Whatever models were tried and whatever each of them yielded, a stream names one:
\* a Responses stream from its first frame on, a chat stream from the first text on.
THEOREM OneModel == Spec => []OneModelNamed
  BY NamedInit, NamedStep, NamedResult, PTL DEF Spec
-----------------------------------------------------------------------------
(* The protocol *)

\* What the client was sent and what it is to be sent before the next pull.
Script == sent \o todo

LEMMA TypesAre ==
    ASSUME NEW s \in Seq(Frames)
    PROVE  TypesOf(s) \in Seq(Types) /\ Len(TypesOf(s)) = Len(s)
<1>1. \A i \in 1..Len(s) : s[i].type \in Types
  <2>1. \A i \in 1..Len(s) : s[i] \in Frames
    OBVIOUS
  <2> QED
    BY <2>1 DEF Frames
<1> QED
  BY <1>1 DEF TypesOf

LEMMA TypesOfBoth ==
    ASSUME NEW s \in Seq(Frames), NEW t \in Seq(Frames)
    PROVE  TypesOf(s \o t) = TypesOf(s) \o TypesOf(t)
<1> DEFINE a == TypesOf(s \o t)
           b == TypesOf(s) \o TypesOf(t)
<1>1. /\ s \o t \in Seq(Frames) /\ Len(s \o t) = Len(s) + Len(t)
      /\ \A i \in 1..(Len(s) + Len(t)) :
            (s \o t)[i] = IF i <= Len(s) THEN s[i] ELSE t[i - Len(s)]
  BY ConcatProperties
<1>2. /\ TypesOf(s) \in Seq(Types) /\ Len(TypesOf(s)) = Len(s)
      /\ TypesOf(t) \in Seq(Types) /\ Len(TypesOf(t)) = Len(t)
      /\ a \in Seq(Types) /\ Len(a) = Len(s) + Len(t)
  BY <1>1, TypesAre
<1>3. /\ b \in Seq(Types) /\ Len(b) = Len(s) + Len(t)
      /\ \A i \in 1..(Len(s) + Len(t)) :
            b[i] = IF i <= Len(s) THEN TypesOf(s)[i] ELSE TypesOf(t)[i - Len(s)]
  <2> DEFINE x == TypesOf(s)
             y == TypesOf(t)
  <2> HIDE DEF x, y
  <2>1. x \in Seq(Types) /\ y \in Seq(Types) /\ Len(x) = Len(s) /\ Len(y) = Len(t)
    BY <1>2 DEF x, y
  <2>2. /\ x \o y \in Seq(Types) /\ Len(x \o y) = Len(s) + Len(t)
        /\ \A i \in 1..(Len(s) + Len(t)) :
              (x \o y)[i] = IF i <= Len(s) THEN x[i] ELSE y[i - Len(s)]
    <3>1. /\ x \o y \in Seq(Types) /\ Len(x \o y) = Len(x) + Len(y)
          /\ \A i \in 1..(Len(x) + Len(y)) :
                (x \o y)[i] = IF i <= Len(x) THEN x[i] ELSE y[i - Len(x)]
      BY <2>1, ConcatProperties
    <3> QED
      BY <2>1, <3>1
  <2> QED
    BY <2>2 DEF x, y
<1>4. ASSUME NEW i \in 1..(Len(s) + Len(t)) PROVE a[i] = b[i]
  <2>1. a[i] = (s \o t)[i].type
    BY <1>1 DEF TypesOf
  <2>2. CASE i <= Len(s)
    <3>1. i \in 1..Len(s) /\ TypesOf(s)[i] = s[i].type
      BY <2>2 DEF TypesOf
    <3> QED
      BY <1>1, <1>3, <2>1, <2>2, <3>1
  <2>3. CASE ~(i <= Len(s))
    <3>1. i - Len(s) \in 1..Len(t)
      BY <2>3
    <3>2. TypesOf(t)[i - Len(s)] = t[i - Len(s)].type
      BY <3>1 DEF TypesOf
    <3> QED
      BY <1>1, <1>3, <2>1, <2>3, <3>2
  <2> QED
    BY <2>2, <2>3
<1> HIDE DEF a, b
<1>5. a = b
  BY <1>2, <1>3, <1>4, SeqEqual
<1> QED
  BY <1>5 DEF a, b

LEMMA NothingHasNoTypes == TypesOf(<<>>) = <<>>
<1>1. <<>> \in Seq(Frames) /\ Len(<<>>) = 0
  OBVIOUS
<1>2. TypesOf(<<>>) \in Seq(Types) /\ Len(TypesOf(<<>>)) = 0
  BY <1>1, TypesAre
<1> QED
  BY <1>2

LEMMA RepeatIs ==
    ASSUME NEW n \in Nat, NEW x \in Types
    PROVE  /\ Repeat(n, x) \in Seq(Types) /\ Repeat(0, x) = <<>>
           /\ Repeat(n, x) \o <<x>> = Repeat(n + 1, x)
<1>1. Repeat(n, x) \in Seq(Types) /\ Len(Repeat(n, x)) = n
  BY DEF Repeat
<1>2. Repeat(n + 1, x) \in Seq(Types) /\ Len(Repeat(n + 1, x)) = n + 1
  BY DEF Repeat
<1>3. \A i \in 1..(n + 1) : Repeat(n + 1, x)[i] = x
  BY DEF Repeat
<1>4. \A i \in 1..n : Repeat(n, x)[i] = x
  BY DEF Repeat
<1> DEFINE r == Repeat(n, x)
           t == Repeat(n + 1, x)
<1>5. /\ r \in Seq(Types) /\ Len(r) = n /\ t \in Seq(Types) /\ Len(t) = n + 1
      /\ \A i \in 1..n : r[i] = x
      /\ \A i \in 1..(n + 1) : t[i] = x
  BY <1>1, <1>2, <1>3, <1>4
<1> HIDE DEF r, t
<1>6. /\ <<x>> \in Seq(Types) /\ Len(<<x>>) = 1 /\ <<x>>[1] = x
  OBVIOUS
<1>7. /\ r \o <<x>> \in Seq(Types) /\ Len(r \o <<x>>) = n + 1
      /\ \A i \in 1..(n + 1) : (r \o <<x>>)[i] = IF i <= n THEN r[i] ELSE <<x>>[i - n]
  BY <1>5, <1>6, ConcatProperties
<1>8. \A i \in 1..(n + 1) : (r \o <<x>>)[i] = t[i]
  BY <1>5, <1>6, <1>7
<1>9. r \o <<x>> = t
  BY <1>5, <1>7, <1>8, SeqEqual
<1>10. Repeat(0, x) = <<>>
  BY DEF Repeat
<1> QED
  BY <1>1, <1>9, <1>10 DEF r, t

LEMMA StartIsPrefix ==
    ASSUME NEW S, NEW s \in Seq(S), NEW t \in Seq(S)
    PROVE  IsPrefix(s, s \o t)
<1> DEFINE u == s \o t
<1>1. /\ u \in Seq(S) /\ Len(u) = Len(s) + Len(t) /\ Len(s) \in Nat /\ Len(t) \in Nat
      /\ \A i \in 1..Len(s) : u[i] = s[i]
  BY ConcatProperties
<1> HIDE DEF u
<1>2. SubSeq(s, 1, Len(s)) = s
  BY SubSeqFull
<1>3. SubSeq(u, 1, Len(s)) = s
  <2> DEFINE v == SubSeq(u, 1, Len(s))
  <2>1. \A i \in 1..Len(s) : u[i] \in S
    BY <1>1
  <2>2. /\ v \in Seq(S) /\ Len(v) = IF 1 <= Len(s) THEN Len(s) - 1 + 1 ELSE 0
        /\ \A i \in 1..(Len(s) - 1 + 1) : v[i] = u[1 + i - 1]
    BY <1>1, <2>1, SubSeqProperties
  <2> HIDE DEF v
  <2>3. Len(v) = Len(s) /\ \A i \in 1..Len(v) : v[i] = s[i]
    BY <1>1, <2>2
  <2> QED
    BY <2>2, <2>3, SeqEqual DEF v
<1> QED
  BY <1>1, <1>2, <1>3 DEF IsPrefix, u

\* Head and Tail take a frame over.
LEMMA HandedOver ==
    ASSUME NEW s \in Seq(Frames), NEW t \in Seq(Frames), t # <<>>
    PROVE  Append(s, Head(t)) \o Tail(t) = s \o t
<1>1. Head(t) \in Frames /\ Tail(t) \in Seq(Frames) /\ t = <<Head(t)>> \o Tail(t)
  OBVIOUS
<1>2. Append(s, Head(t)) = s \o <<Head(t)>> /\ <<Head(t)>> \in Seq(Frames)
  BY <1>1
<1> DEFINE a == <<Head(t)>>
           b == Tail(t)
<1>3. a \in Seq(Frames) /\ b \in Seq(Frames) /\ t = a \o b /\ Append(s, Head(t)) = s \o a
  BY <1>1, <1>2
<1> HIDE DEF a, b
<1>4. (s \o a) \o b = s \o (a \o b)
  BY <1>3, ConcatAssociative
<1> QED
  BY <1>3, <1>4 DEF b

\* Nothing is in front of the script when a handler pulls.
LEMMA ScriptGrows ==
    ASSUME NEW s \in Seq(Frames), NEW t \in Seq(Frames)
    PROVE  s \o <<>> = s /\ TypesOf(s \o t) = TypesOf(s) \o TypesOf(t)
  BY TypesOfBoth

Whole == {Opened \o ending : ending \in Endings}

\* How far the script has come: its opening while the handler may pull, all of it
\* when the handler is closing.
Scripted ==
    /\ stage \in {"preflight", "rejected"} => sent = <<>> /\ todo = <<>> /\ said = <<>>
    /\ stage = "streaming" => TypesOf(Script) = Opened
    /\ stage \in {"closing", "done"} => TypesOf(Script) \in Whole
    /\ stage = "gone" => TypesOf(Script) \in {Opened} \cup Whole
    /\ stage = "broken" =>
        said = <<>> /\ todo = <<>> /\ (sent = <<>> \/ TypesOf(sent) = Opened)
    /\ stage = "done" => todo = <<>>
    /\ voice = NoModel => said = <<>>
    /\ kind = "responses" /\ stage = "streaming" /\ outcome = "open" => said # <<>>

SInv == NInv /\ Scripted

LEMMA OpenedIs ==
    ASSUME IInv
    PROVE  Opened \in Seq(Types) /\ Endings \in SUBSET Seq(Types) /\ Endings # {}
<1>1. /\ Len(said) \in Nat /\ Len(said) + empties \in Nat /\ kind \in {"responses", "chat"}
  BY TextIs DEF IInv, TypeOK
<1>2. /\ Repeat(Len(said), "delta") \in Seq(Types)
      /\ Repeat(Len(said) + empties, "chunk") \in Seq(Types)
  BY <1>1, RepeatIs DEF Types
<1>3. TypesOf(Opening(NoModel)) \in Seq(Types)
  BY OpeningIs, TypesAre DEF Names
<1>4. TypesOf(Closing(<<>>, NoModel)) \in Seq(Types)
  BY ClosingIs, TypesAre, Nothing DEF Names
<1>5. /\ <<"stop", "[DONE]">> \in Seq(Types) /\ <<"error", "[DONE]">> \in Seq(Types)
      /\ <<"failed">> \in Seq(Types)
  BY DEF Types
<1>6. Opened \in Seq(Types)
  <2> DEFINE a == TypesOf(Opening(NoModel))
             b == Repeat(Len(said), "delta")
  <2> HIDE DEF a, b
  <2>1. a \o b \in Seq(Types)
    BY <1>2, <1>3, ConcatProperties DEF a, b
  <2> QED
    BY <1>2, <2>1 DEF Opened, a, b
<1>7. Endings \in SUBSET Seq(Types) /\ Endings # {}
  <2> DEFINE a == TypesOf(Closing(<<>>, NoModel))
  <2>1. a \in Seq(Types)
    BY <1>4
  <2> HIDE DEF a
  <2>2. Endings = IF kind = "chat" THEN {<<"stop", "[DONE]">>, <<"error", "[DONE]">>}
                  ELSE {a} \cup (IF text = <<>> THEN {} ELSE {<<"failed">>})
    BY Zenon DEF Endings, a
  <2> QED
    BY <1>5, <2>1, <2>2
<1> QED
  BY <1>6, <1>7

LEMMA ScriptedResult == SInv => Lifecycle
<1> SUFFICES ASSUME SInv PROVE Lifecycle
  OBVIOUS
<1>1. /\ sent \in Seq(Frames) /\ todo \in Seq(Frames) /\ stage \in Stages /\ text = said
      /\ Opened \in Seq(Types) /\ Endings \in SUBSET Seq(Types) /\ Endings # {}
  BY OpenedIs DEF SInv, NInv, IInv, TypeOK, TextSaid
<1> DEFINE a == TypesOf(sent)
           b == TypesOf(todo)
<1>2. a \in Seq(Types) /\ b \in Seq(Types) /\ TypesOf(Script) = a \o b
  BY <1>1, TypesAre, TypesOfBoth DEF Script
<1>3. /\ todo = <<>> => b = <<>>
      /\ sent = <<>> => a = <<>>
  BY Zenon, NothingHasNoTypes
<1> HIDE DEF a, b
<1>4. a \o <<>> = a /\ <<>> \in Seq(Types)
  BY <1>2
<1>5. ASSUME NEW x \in Seq(Types), Opened = a \o x
      PROVE  \E p \in Whole : IsPrefix(a, p)
  <2>1. PICK e \in Endings : e \in Seq(Types)
    BY <1>1
  <2>2. (a \o x) \o e = a \o (x \o e) /\ x \o e \in Seq(Types)
    BY <1>2, <1>5, <2>1, ConcatAssociative, ConcatProperties
  <2>3. IsPrefix(a, Opened \o e)
    BY <1>2, <1>5, <2>2, StartIsPrefix
  <2> QED
    BY <2>1, <2>3 DEF Whole
<1>6. ASSUME NEW x \in Seq(Types), a \o x \in Whole
      PROVE  \E p \in Whole : IsPrefix(a, p)
  BY <1>2, <1>6, StartIsPrefix
<1>7. ASSUME a = <<>> PROVE \E p \in Whole : IsPrefix(a, p)
  <2>1. Opened = a \o Opened
    BY <1>1, <1>7
  <2> QED
    BY <1>1, <1>5, <2>1
<1>8. Scripted
  BY DEF SInv
<1>9. \E p \in Whole : IsPrefix(a, p)
  <2>1. CASE stage \in {"preflight", "rejected"}
    BY <1>3, <1>7, <1>8, <2>1 DEF Scripted
  <2>2. CASE stage = "streaming"
    BY <1>2, <1>5, <1>8, <2>2 DEF Scripted
  <2>3. CASE stage \in {"closing", "done"}
    BY <1>2, <1>6, <1>8, <2>3 DEF Scripted
  <2>4. CASE stage = "gone"
    BY <1>2, <1>5, <1>6, <1>8, <2>4 DEF Scripted
  <2>5. CASE stage = "broken"
    <3>1. a = <<>> \/ a = Opened
      BY <1>3, <1>8, <2>5 DEF Scripted, a
    <3> QED
      BY <1>4, <1>5, <1>7, <3>1
  <2> QED
    BY <1>1, <2>1, <2>2, <2>3, <2>4, <2>5 DEF Stages, Ended
<1>10. stage = "done" => a \in Whole
  BY <1>2, <1>3, <1>4, <1>8 DEF Scripted
<1>11. /\ stage \in {"rejected", "broken"} => text = <<>>
       /\ stage = "rejected" => sent = <<>>
  BY <1>1, <1>8 DEF Scripted
<1> QED
  BY Zenon, <1>9, <1>10, <1>11 DEF Lifecycle, Whole, a

LEMMA OneType ==
    ASSUME NEW t, NEW m, NEW p
    PROVE  TypesOf(<<Frame(t, m, p)>>) = <<t>>
  BY DEF TypesOf, Frame

LEMMA TwoTypes ==
    ASSUME NEW t, NEW m, NEW p, NEW u, NEW n, NEW q
    PROVE  TypesOf(<<Frame(t, m, p), Frame(u, n, q)>>) = <<t, u>>
  BY DEF TypesOf, Frame

LEMMA OpeningTypes ==
    ASSUME NEW m
    PROVE  TypesOf(Opening(m)) = TypesOf(Opening(NoModel))
<1>1. \A x : TypesOf(Opening(x)) = <<"created", "created", "added", "added">>
  BY DEF TypesOf, Opening, Frame, Plain
<1> QED
  BY Zenon, <1>1

LEMMA ClosingTypes ==
    ASSUME NEW t, NEW m
    PROVE  TypesOf(Closing(t, m)) = TypesOf(Closing(<<>>, NoModel))
<1>1. \A x, y : TypesOf(Closing(x, y)) = <<"text.done", "text.done", "text.done", "final">>
  BY DEF TypesOf, Closing, Frame
<1> QED
  BY Zenon, <1>1

LEMMA OpenedStays ==
    ASSUME UNCHANGED <<kind, said>>, kind = "responses" \/ UNCHANGED empties
    PROVE  Opened' = Opened
  BY Zenon DEF Opened

LEMMA EndingsStay ==
    ASSUME UNCHANGED <<kind, text>>
    PROVE  Endings' = Endings
  BY Zenon DEF Endings

LEMMA OpenedGrows ==
    ASSUME IInv, UNCHANGED kind
    PROVE  /\ kind = "responses" /\ Len(said') = Len(said) + 1
              => Opened' = Opened \o <<"delta">>
           /\ kind = "chat" /\ Len(said') + empties' = Len(said) + empties + 1
              => Opened' = Opened \o <<"chunk">>
<1>1. /\ Len(said) \in Nat /\ Len(said) + empties \in Nat /\ kind \in {"responses", "chat"}
  BY TextIs DEF IInv, TypeOK
<1> DEFINE n == Len(said)
           k == Len(said) + empties
           a == TypesOf(Opening(NoModel))
           r == Repeat(n, "delta")
<1>2. CASE kind = "responses" /\ Len(said') = Len(said) + 1
  <2>1. Opened = a \o r /\ Opened' = a \o Repeat(n + 1, "delta")
    BY Zenon, <1>2 DEF Opened
  <2>2. r \in Seq(Types) /\ r \o <<"delta">> = Repeat(n + 1, "delta")
    BY <1>1, RepeatIs DEF Types
  <2>3. a \in Seq(Types) /\ <<"delta">> \in Seq(Types)
    BY OpeningIs, TypesAre DEF Names, Types
  <2> HIDE DEF a, r, n
  <2>4. (a \o r) \o <<"delta">> = a \o (r \o <<"delta">>)
    BY <2>2, <2>3, ConcatAssociative
  <2> QED
    BY <1>2, <2>1, <2>2, <2>4
<1>3. CASE kind = "chat" /\ Len(said') + empties' = Len(said) + empties + 1
  <2>1. Opened = Repeat(k, "chunk") /\ Opened' = Repeat(k + 1, "chunk")
    BY Zenon, <1>3 DEF Opened
  <2>2. Repeat(k, "chunk") \o <<"chunk">> = Repeat(k + 1, "chunk")
    BY <1>1, RepeatIs DEF Types
  <2> QED
    BY <1>3, <2>1, <2>2
<1> QED
  BY <1>2, <1>3

\* What is added when a handler pulls and nothing is to be sent.
LEMMA ScriptNext ==
    ASSUME IInv, IInv', todo = <<>>, UNCHANGED sent
    PROVE  /\ TypesOf(Script) = TypesOf(sent)
           /\ TypesOf(Script') = TypesOf(sent) \o TypesOf(todo')
<1>1. sent \in Seq(Frames) /\ todo' \in Seq(Frames)
  BY DEF IInv, TypeOK
<1>2. Script = sent
  BY <1>1, ConcatEmptySeq DEF Script
<1>3. Script' = sent \o todo'
  BY DEF Script
<1>4. TypesOf(sent \o todo') = TypesOf(sent) \o TypesOf(todo')
  BY <1>1, TypesOfBoth
<1> QED
  BY Zenon, <1>2, <1>3, <1>4

LEMMA ScriptedPreflight ==
    ASSUME SInv, IInv', PreflightEmpty \/ PreflightText \/ PreflightEnds \/ PreflightRaises
    PROVE  Scripted'
<1> USE DEF Ready
<1>0. /\ kind = "responses" /\ stage = "preflight" /\ voice = NoModel /\ outcome = "open"
      /\ todo = <<>> /\ sent = <<>> /\ said = <<>> /\ kind' = kind /\ sent' = sent
      /\ IInv /\ NInv
  BY DEF PreflightEmpty, PreflightText, PreflightEnds, PreflightRaises, SInv, NInv,
         PreflightSilent, Scripted
<1>1. CASE PreflightEmpty
  BY <1>0, <1>1 DEF PreflightEmpty, YieldsNothing, contract, Scripted
<1>2. CASE PreflightText
  <2>1. PICK m \in Models : /\ YieldsText(m) /\ pulled' = <<m, said'>> /\ model' = m
                            /\ todo' = Append(Opening(m), Delta(said'))
    BY <1>2 DEF PreflightText
  <2>2. /\ voice' = m /\ m # NoModel /\ outcome' = "open" /\ said' # <<>>
        /\ Len(said') = Len(said) + 1 /\ said' \in Chunks /\ UNCHANGED empties
    BY <1>0, <2>1, YieldsTextStep DEF Chunks
  <2>3. stage' = "streaming"
    BY <1>2 DEF PreflightText
  <2>4. TypesOf(todo') = TypesOf(Opening(NoModel)) \o <<"delta">>
    <3>1. Opening(m) \in Seq(Frames) /\ Delta(said') \in Frames
      BY <2>2, OpeningIs, DeltaIs DEF Names
    <3> DEFINE o == Opening(m)
               d == Delta(said')
    <3>2. TypesOf(<<d>>) = <<"delta">>
      BY Zenon, OneType DEF Delta
    <3>3. TypesOf(o) = TypesOf(Opening(NoModel))
      BY Zenon, OpeningTypes
    <3>4. o \in Seq(Frames) /\ d \in Frames /\ todo' = Append(o, d)
      BY <2>1, <3>1
    <3> HIDE DEF o, d
    <3>5. todo' = o \o <<d>> /\ <<d>> \in Seq(Frames)
      BY <3>4
    <3>6. TypesOf(o \o <<d>>) = TypesOf(o) \o TypesOf(<<d>>)
      BY Zenon, <3>4, <3>5, TypesOfBoth
    <3> QED
      BY Zenon, <3>2, <3>3, <3>5, <3>6
  <2>5. Opened' = TypesOf(Opening(NoModel)) \o <<"delta">>
    <3>1. Opened' = Opened \o <<"delta">>
      BY <1>0, <2>2, OpenedGrows
    <3>2. Opened = TypesOf(Opening(NoModel))
      <4>1. Opened = TypesOf(Opening(NoModel)) \o Repeat(Len(said), "delta")
        BY Zenon, <1>0 DEF Opened
      <4>2. Repeat(Len(said), "delta") = <<>>
        BY <1>0 DEF Repeat
      <4>3. TypesOf(Opening(NoModel)) \in Seq(Types)
        BY OpeningIs, TypesAre DEF Names
      <4>4. TypesOf(Opening(NoModel)) \o <<>> = TypesOf(Opening(NoModel))
        BY <4>3, ConcatEmptySeq
      <4> QED
        BY Zenon, <4>1, <4>2, <4>4
    <3> QED
      BY Zenon, <3>1, <3>2
  <2>6. TypesOf(Script') = TypesOf(todo')
    <3>1. Script' = todo'
      BY <1>0, <2>2 DEF Script, IInv, TypeOK
    <3> QED
      BY Zenon, <3>1
  <2>7. TypesOf(Script)' = Opened'
    BY Zenon, <2>4, <2>5, <2>6
  <2> QED
    BY <2>2, <2>3, <2>7 DEF Scripted
<1>3. CASE PreflightEnds
  <2>1. PICK m \in Models : Complete(m)
    BY <1>0, <1>3 DEF PreflightEnds, Returns
  <2>2. /\ outcome' = "answered" /\ UNCHANGED <<voice, said, empties>>
    BY <1>0, <1>3, <2>1 DEF PreflightEnds, Returns, Complete
  <2>3. todo' = Opening(model') /\ stage' = "streaming"
    BY <1>3 DEF PreflightEnds
  <2>4. Opened' = TypesOf(Opening(NoModel))
    <3>1. Opened' = TypesOf(Opening(NoModel)) \o Repeat(Len(said'), "delta")
      BY Zenon, <1>0 DEF Opened
    <3>2. Repeat(Len(said'), "delta") = <<>>
      BY <1>0, <2>2 DEF Repeat
    <3>3. TypesOf(Opening(NoModel)) \in Seq(Types)
      BY OpeningIs, TypesAre DEF Names
    <3>4. TypesOf(Opening(NoModel)) \o <<>> = TypesOf(Opening(NoModel))
      BY <3>3, ConcatEmptySeq
    <3> QED
      BY Zenon, <3>1, <3>2, <3>4
  <2>5. Script' = todo'
    BY <1>0 DEF Script, IInv, TypeOK
  <2>6. TypesOf(Script)' = Opened'
    BY Zenon, <2>3, <2>4, <2>5, OpeningTypes
  <2> QED
    BY <1>0, <2>2, <2>3, <2>6 DEF Scripted
<1>4. CASE PreflightRaises
  <2>1. /\ stage' \in {"rejected", "broken"} /\ UNCHANGED <<voice, said, todo>>
    BY <1>4 DEF PreflightRaises, Raises, Raise
  <2> QED
    BY <1>0, <2>1 DEF Scripted
<1> QED
  BY <1>1, <1>2, <1>3, <1>4

LEMMA ScriptedPull ==
    ASSUME SInv, IInv', PullText \/ PullEmpty \/ PullEnds \/ PullRaises
    PROVE  Scripted'
<1> USE DEF Ready
<1>0. /\ kind = "responses" /\ stage = "streaming" /\ todo = <<>>
      /\ kind' = kind /\ sent' = sent /\ TypesOf(Script) = Opened
      /\ (voice = NoModel => said = <<>>) /\ (outcome = "open" => said # <<>>)
      /\ IInv /\ NInv /\ text = said
  BY DEF PullText, PullEmpty, PullEnds, PullRaises, SInv, NInv, IInv, TextSaid, Scripted
<1>1. /\ TypesOf(Script)' = Opened \o TypesOf(todo')
      /\ TypesOf(sent) = Opened /\ sent \in Seq(Frames)
  <2>1. /\ TypesOf(Script) = TypesOf(sent)
        /\ TypesOf(Script') = TypesOf(sent) \o TypesOf(todo')
    BY <1>0, ScriptNext
  <2> QED
    BY <1>0, <2>1 DEF IInv, TypeOK
<1>2. CASE PullText
  <2>1. PICK m \in Models : YieldsText(m) /\ model' = m
    BY <1>2 DEF PullText
  <2>2. /\ voice' = m /\ m # NoModel /\ said' # <<>> /\ Len(said') = Len(said) + 1
    BY <1>0, <2>1, YieldsTextStep
  <2>3. TypesOf(todo') = <<"delta">>
    <3>1. todo' = <<Frame("delta", NoModel, <<Len(said')>>)>>
      BY <1>2 DEF PullText, Delta
    <3> QED
      BY Zenon, <3>1, OneType
  <2>4. Opened' = Opened \o <<"delta">>
    BY <1>0, <2>2, OpenedGrows
  <2>5. TypesOf(Script)' = Opened' /\ stage' = "streaming"
    BY <1>0, <1>1, <1>2, <2>3, <2>4 DEF PullText
  <2> QED
    BY <2>2, <2>5 DEF Scripted
<1>3. CASE PullEmpty
  <2>1. UNCHANGED <<kind, stage, said, todo, voice, outcome>>
    BY <1>3 DEF PullEmpty, YieldsNothing, contract
  <2>2. Opened' = Opened
    BY <1>0, <2>1, OpenedStays
  <2>3. Script' = Script
    BY <1>0, <2>1 DEF Script
  <2>4. TypesOf(Script)' = Opened'
    BY Zenon, <1>0, <2>2, <2>3
  <2> QED
    BY <1>0, <2>1, <2>4 DEF Scripted
<1>4. CASE PullEnds
  <2>1. /\ stage' = "closing" /\ UNCHANGED <<voice, said, empties, text>>
    BY <1>4 DEF PullEnds, Returns, Complete, contract
  <2>2. TypesOf(todo') = TypesOf(Closing(<<>>, NoModel))
    BY Zenon, <1>4, ClosingTypes DEF PullEnds
  <2>3. Opened' = Opened
    BY <1>0, <2>1, OpenedStays
  <2>4. TypesOf(Closing(<<>>, NoModel)) \in Endings'
    <3> DEFINE a == TypesOf(Closing(<<>>, NoModel))
    <3>1. Endings' = IF kind' = "chat" THEN {<<"stop", "[DONE]">>, <<"error", "[DONE]">>}
                     ELSE {a} \cup (IF text' = <<>> THEN {} ELSE {<<"failed">>})
      BY Zenon DEF Endings
    <3> HIDE DEF a
    <3>2. a \in Endings'
      BY <1>0, <3>1
    <3> QED
      BY <3>2 DEF a
  <2>5. TypesOf(Script)' \in Whole'
    BY Zenon, <1>1, <2>2, <2>3, <2>4 DEF Whole
  <2> QED
    BY <1>0, <2>1, <2>5 DEF Scripted
<1>5. CASE PullRaises
  <2>1. /\ stage' = "closing" /\ UNCHANGED <<voice, said, empties, text>> /\ outcome = "open"
    BY <1>5 DEF PullRaises, Raises, Raise
  <2>2. TypesOf(todo') = <<"failed">>
    BY Zenon, <1>5, OneType DEF PullRaises
  <2>3. Opened' = Opened
    BY <1>0, <2>1, OpenedStays
  <2>4. <<"failed">> \in Endings'
    <3> DEFINE a == TypesOf(Closing(<<>>, NoModel))
    <3>1. Endings' = IF kind' = "chat" THEN {<<"stop", "[DONE]">>, <<"error", "[DONE]">>}
                     ELSE {a} \cup (IF text' = <<>> THEN {} ELSE {<<"failed">>})
      BY Zenon DEF Endings
    <3> HIDE DEF a
    <3> QED
      BY <1>0, <2>1, <3>1
  <2>5. TypesOf(Script)' \in Whole'
    BY Zenon, <1>1, <2>2, <2>3, <2>4 DEF Whole
  <2> QED
    BY <1>0, <2>1, <2>5 DEF Scripted
<1> QED
  BY <1>2, <1>3, <1>4, <1>5

LEMMA ScriptedChat ==
    ASSUME SInv, IInv', ChatChunk \/ ChatEnds \/ ChatRaises
    PROVE  Scripted'
<1> USE DEF Ready
<1>0. /\ kind = "chat" /\ stage = "streaming" /\ todo = <<>>
      /\ kind' = kind /\ sent' = sent /\ TypesOf(Script) = Opened
      /\ (voice = NoModel => said = <<>>)
      /\ IInv /\ NInv /\ text = said
  BY DEF ChatChunk, ChatEnds, ChatRaises, SInv, NInv, IInv, TextSaid, Scripted
<1>1. /\ TypesOf(Script)' = Opened \o TypesOf(todo')
      /\ TypesOf(sent) = Opened /\ sent \in Seq(Frames)
  <2>1. /\ TypesOf(Script) = TypesOf(sent)
        /\ TypesOf(Script') = TypesOf(sent) \o TypesOf(todo')
    BY <1>0, ScriptNext
  <2> QED
    BY <1>0, <2>1 DEF IInv, TypeOK
<1>2. CASE ChatChunk
  <2>1. PICK m \in Models :
          /\ YieldsText(m) \/ YieldsNothing(m)
          /\ model' = m
          /\ todo' = <<Frame("chunk", m, SubSeq(said', Len(said) + 1, Len(said')))>>
    BY <1>2 DEF ChatChunk
  <2>2. /\ Len(said') + empties' = Len(said) + empties + 1
        /\ voice' = NoModel => said' = <<>>
    <3>1. Len(said) \in Nat /\ empties \in Nat
      BY <1>0, TextIs DEF IInv, TypeOK
    <3>2. CASE YieldsText(m)
      BY <1>0, <3>1, <3>2, YieldsTextStep
    <3>3. CASE YieldsNothing(m)
      BY <1>0, <3>1, <3>3 DEF YieldsNothing, contract
    <3> QED
      BY <2>1, <3>2, <3>3
  <2>3. TypesOf(todo') = <<"chunk">>
    BY Zenon, <2>1, OneType
  <2>4. Opened' = Opened \o <<"chunk">>
    BY <1>0, <2>2, OpenedGrows
  <2>5. TypesOf(Script)' = Opened' /\ stage' = "streaming" /\ kind' = "chat"
    BY <1>0, <1>1, <1>2, <2>3, <2>4 DEF ChatChunk
  <2> QED
    BY <2>2, <2>5 DEF Scripted
<1>3. Endings' = {<<"stop", "[DONE]">>, <<"error", "[DONE]">>}
  BY Zenon, <1>0 DEF Endings
<1>4. CASE ChatEnds
  <2>1. /\ stage' = "closing" /\ UNCHANGED <<voice, said, empties, text>>
    BY <1>4 DEF ChatEnds, Returns, Complete, contract
  <2>2. TypesOf(todo') = <<"stop", "[DONE]">>
    <3>1. todo' = <<Frame("stop", model, <<>>), Frame("[DONE]", NoModel, <<>>)>>
      BY Zenon, <1>4 DEF ChatEnds, Plain
    <3>2. TypesOf(<<Frame("stop", model, <<>>), Frame("[DONE]", NoModel, <<>>)>>)
            = <<"stop", "[DONE]">>
      BY TwoTypes
    <3> QED
      BY Zenon, <3>1, <3>2
  <2>3. Opened' = Opened
    BY <1>0, <2>1, OpenedStays
  <2>4. TypesOf(Script)' \in Whole'
    BY Zenon, <1>1, <1>3, <2>2, <2>3 DEF Whole
  <2> QED
    BY <1>0, <2>1, <2>4 DEF Scripted
<1>5. ASSUME ChatRaises, stage' = "closing", todo' = <<Plain("error"), Plain("[DONE]")>>
      PROVE  Scripted'
  <2>1. UNCHANGED <<voice, said, empties, text>>
    BY <1>5 DEF ChatRaises, Raises, Raise
  <2>2. TypesOf(todo') = <<"error", "[DONE]">>
    <3>1. TypesOf(<<Plain("error"), Plain("[DONE]")>>) = <<"error", "[DONE]">>
      BY TwoTypes DEF Plain
    <3> QED
      BY Zenon, <1>5, <3>1
  <2>3. Opened' = Opened
    BY <1>0, <2>1, OpenedStays
  <2>4. TypesOf(Script)' \in Whole'
    BY Zenon, <1>1, <1>3, <2>2, <2>3 DEF Whole
  <2> QED
    BY <1>0, <1>5, <2>1, <2>4 DEF Scripted
<1>6. ASSUME ChatRaises, Raises("crashed"), stage' = "broken", UNCHANGED todo
      PROVE  Scripted'
  <2>1. UNCHANGED <<voice, said, empties, text>> /\ voice = NoModel
    BY <1>6 DEF ChatRaises, Raises, Raise
  <2>2. Opened' = Opened
    BY <1>0, <2>1, OpenedStays
  <2>3. TypesOf(sent)' = Opened'
    BY Zenon, <1>0, <1>1, <2>2
  <2> QED
    BY <1>0, <1>6, <2>1, <2>3 DEF Scripted
<1> QED
  BY <1>2, <1>4, <1>5, <1>6 DEF ChatRaises

LEMMA ScriptedYield ==
    ASSUME SInv, IInv', Yield \/ Leave \/ UNCHANGED vars
    PROVE  Scripted'
<1>0. /\ IInv /\ NInv /\ Scripted /\ sent \in Seq(Frames) /\ todo \in Seq(Frames)
      /\ UNCHANGED <<kind, said, empties, text, voice>>
  BY DEF SInv, NInv, IInv, TypeOK, Yield, Leave, Close, contract, vars, handler
<1>1. Opened' = Opened /\ Endings' = Endings
  BY <1>0, OpenedStays, EndingsStay
<1>2. Whole' = Whole
  BY Zenon, <1>1 DEF Whole
<1>3. Script' = Script
  <2>1. CASE Yield
    <3>1. Append(sent, Head(todo)) \o Tail(todo) = sent \o todo
      BY <1>0, <2>1, HandedOver DEF Yield
    <3> QED
      BY Zenon, <2>1, <3>1 DEF Yield, Script
  <2>2. CASE ~Yield
    BY Zenon, <2>2 DEF Leave, vars, handler, Script
  <2> QED
    BY <2>1, <2>2
<1>4. TypesOf(Script)' = TypesOf(Script)
  BY Zenon, <1>3
<1>5. CASE Yield
  <2>1. /\ \/ stage' = stage
           \/ stage = "closing" /\ stage' = "done" /\ todo' = <<>>
        /\ stage \in {"preflight", "streaming", "closing"} /\ todo # <<>>
        /\ UNCHANGED outcome
    <3>1. Len(todo) = 1 => Tail(todo) = <<>>
      <4>1. todo # <<>>
        BY <1>5 DEF Yield
      <4>2. Tail(todo) \in Seq(Frames) /\ Len(Tail(todo)) = Len(todo) - 1
        BY <1>0, <4>1, HeadTailProperties
      <4> DEFINE r == Tail(todo)
      <4>3. r \in Seq(Frames) /\ Len(r) = Len(todo) - 1
        BY <4>2
      <4> HIDE DEF r
      <4>4. Len(todo) = 1 => r = <<>>
        BY <4>3, EmptySeq
      <4> QED
        BY <4>4 DEF r
    <3>2. stage \in Stages
      BY <1>0 DEF IInv, TypeOK
    <3> QED
      BY <1>5, <3>1, <3>2 DEF Yield, Stages, Ended, contract
  <2> QED
    BY <1>0, <1>1, <1>2, <1>4, <2>1 DEF Scripted
<1>6. CASE Leave
  <2>1. stage \in {"streaming", "closing"} /\ stage' = "gone"
    BY <1>6 DEF Leave
  <2> QED
    BY <1>0, <1>1, <1>2, <1>4, <2>1 DEF Scripted
<1>7. CASE UNCHANGED vars
  <2>1. UNCHANGED <<stage, sent, todo, outcome>>
    BY <1>7 DEF vars, handler, contract
  <2>2. TypesOf(sent)' = TypesOf(sent)
    BY Zenon, <2>1
  <2> QED
    BY <1>0, <1>1, <1>2, <1>4, <2>1, <2>2 DEF Scripted
<1> QED
  BY <1>5, <1>6, <1>7

LEMMA ScriptedStep ==
    ASSUME SInv, NInv', [Next]_vars
    PROVE  SInv'
<1>1. IInv'
  BY DEF NInv
<1>2. Scripted'
  BY <1>1, ScriptedPreflight, ScriptedPull, ScriptedChat, ScriptedYield DEF Next
<1> QED
  BY <1>2 DEF SInv

LEMMA ScriptedInit == Init => SInv
<1> SUFFICES ASSUME Init PROVE SInv
  OBVIOUS
<1>1. NInv
  BY NamedInit
<1>2. /\ said = <<>> /\ todo = <<>> /\ sent = <<>> /\ voice = NoModel /\ empties = 0
      /\ kind \in {"responses", "chat"}
      /\ stage = IF kind = "responses" THEN "preflight" ELSE "streaming"
  BY DEF Init, ContractInit
<1>3. kind = "chat" => TypesOf(Script) = Opened
  <2>1. Script = <<>>
    BY <1>2 DEF Script
  <2>2. kind = "chat" => Opened = <<>>
    BY <1>2 DEF Opened, Repeat
  <2> QED
    BY <2>1, <2>2, NothingHasNoTypes
<1>4. Scripted
  BY <1>2, <1>3 DEF Scripted
<1> QED
  BY <1>1, <1>4 DEF SInv

\* However the router fails or the client leaves, what a client received is a prefix
\* of its endpoint's protocol, for texts of any length: the script of a stream is that
\* protocol up to where the handler pulls.
THEOREM FollowsProtocol == Spec => []Lifecycle
<1>1. SInv /\ [Next]_vars => SInv'
  <2>1. SInv => NInv
    BY DEF SInv
  <2> QED
    BY <2>1, NamedStep, ScriptedStep
<1> QED
  BY <1>1, ScriptedInit, ScriptedResult, PTL DEF Spec
-----------------------------------------------------------------------------
(* The text is intact *)

\* How many pieces there are up to the i-th frame.
Rank(s, i) == Cardinality({j \in PiecesOf(s) : j <= i})

\* The pieces of s are the first n, in their order.
Numbers(s, n) ==
    Cardinality(PiecesOf(s)) = n /\ \A i \in PiecesOf(s) : s[i].text = <<Rank(s, i)>>

FinalsOf(s) == {i \in DOMAIN s : s[i].type \in {"text.done", "final", "failed"}}

LEMMA PiecesAre ==
    ASSUME NEW s \in Seq(Frames)
    PROVE  /\ PiecesOf(s) \in SUBSET (1..Len(s)) /\ FinalsOf(s) \in SUBSET (1..Len(s))
           /\ IsFiniteSet(PiecesOf(s)) /\ Len(s) \in Nat
           /\ \A i : {j \in PiecesOf(s) : j <= i} \in SUBSET PiecesOf(s)
<1>1. PiecesOf(s) \in SUBSET (1..Len(s)) /\ Len(s) \in Nat /\ FinalsOf(s) \in SUBSET (1..Len(s))
  BY DEF PiecesOf, FinalsOf
<1> DEFINE n == Len(s)
<1>2. n \in Int
  BY <1>1
<1> HIDE DEF n
<1>3. IsFiniteSet(1..n)
  BY <1>2, 1 \in Int, FS_Interval
<1>4. IsFiniteSet(PiecesOf(s))
  BY <1>1, <1>3, FS_Subset DEF n
<1> QED
  BY <1>1, <1>4

LEMMA PiecesOfBoth ==
    ASSUME NEW s \in Seq(Frames), NEW t \in Seq(Frames)
    PROVE  /\ PiecesOf(s \o t) = PiecesOf(s) \cup {Len(s) + j : j \in PiecesOf(t)}
           /\ FinalsOf(s \o t) = FinalsOf(s) \cup {Len(s) + j : j \in FinalsOf(t)}
           /\ \A i \in 1..Len(s) : (s \o t)[i] = s[i]
           /\ \A j \in 1..Len(t) : (s \o t)[Len(s) + j] = t[j]
<1> DEFINE u == s \o t
<1>1. /\ u \in Seq(Frames) /\ Len(u) = Len(s) + Len(t) /\ Len(s) \in Nat /\ Len(t) \in Nat
      /\ \A i \in 1..(Len(s) + Len(t)) : u[i] = IF i <= Len(s) THEN s[i] ELSE t[i - Len(s)]
      /\ DOMAIN u = 1..Len(u) /\ DOMAIN s = 1..Len(s) /\ DOMAIN t = 1..Len(t)
  BY ConcatProperties
<1> HIDE DEF u
<1>2. /\ \A i \in 1..Len(s) : u[i] = s[i]
      /\ \A j \in 1..Len(t) : u[Len(s) + j] = t[j]
  <2>1. \A i \in 1..Len(s) : u[i] = s[i]
    BY <1>1
  <2>2. ASSUME NEW j \in 1..Len(t) PROVE u[Len(s) + j] = t[j]
    <3>1. /\ Len(s) + j \in 1..(Len(s) + Len(t)) /\ ~(Len(s) + j <= Len(s))
          /\ Len(s) + j - Len(s) = j
      BY <1>1
    <3> QED
      BY <1>1, <3>1
  <2> QED
    BY <2>1, <2>2
<1>3. \A i \in DOMAIN u : i \in DOMAIN s \/ \E j \in DOMAIN t : i = Len(s) + j
  <2> SUFFICES ASSUME NEW i \in DOMAIN u, i \notin DOMAIN s PROVE \E j \in DOMAIN t : i = Len(s) + j
    OBVIOUS
  <2>1. i - Len(s) \in DOMAIN t /\ i = Len(s) + (i - Len(s))
    BY <1>1
  <2> QED
    BY <2>1
<1>4. /\ \A i \in DOMAIN s : i \in DOMAIN u
      /\ \A j \in DOMAIN t : Len(s) + j \in DOMAIN u
  BY <1>1
<1>5. PiecesOf(u) = PiecesOf(s) \cup {Len(s) + j : j \in PiecesOf(t)}
  BY <1>1, <1>2, <1>3, <1>4 DEF PiecesOf
<1>6. FinalsOf(u) = FinalsOf(s) \cup {Len(s) + j : j \in FinalsOf(t)}
  BY <1>1, <1>2, <1>3, <1>4 DEF FinalsOf
<1> QED
  BY <1>2, <1>5, <1>6 DEF u

LEMMA NumbersMore ==
    ASSUME NEW s \in Seq(Frames), NEW t \in Seq(Frames), NEW n, Numbers(s, n), PiecesOf(t) = {}
    PROVE  Numbers(s \o t, n) /\ PiecesOf(s \o t) = PiecesOf(s)
<1>1. /\ PiecesOf(s \o t) = PiecesOf(s) \cup {Len(s) + j : j \in PiecesOf(t)}
      /\ \A i \in 1..Len(s) : (s \o t)[i] = s[i]
  BY PiecesOfBoth
<1>2. PiecesOf(s \o t) = PiecesOf(s)
  BY <1>1
<1>3. \A i : Rank(s \o t, i) = Rank(s, i)
  BY Zenon, <1>2 DEF Rank
<1>4. PiecesOf(s) \in SUBSET (1..Len(s))
  BY PiecesAre
<1> QED
  BY <1>1, <1>2, <1>3, <1>4 DEF Numbers

LEMMA NumbersOne ==
    ASSUME NEW s \in Seq(Frames), NEW f \in Frames, NEW n \in Nat, Numbers(s, n),
           PieceIn(f), f.text = <<n + 1>>
    PROVE  Numbers(s \o <<f>>, n + 1)
<1> DEFINE l == Len(s)
           u == s \o <<f>>
           P == PiecesOf(s)
<1>1. /\ <<f>> \in Seq(Frames) /\ PiecesOf(<<f>>) = {1} /\ <<f>>[1] = f /\ Len(<<f>>) = 1
  BY DEF PiecesOf
<1>2. /\ PiecesOf(u) = P \cup {l + j : j \in PiecesOf(<<f>>)}
      /\ \A i \in 1..l : u[i] = s[i]
      /\ \A j \in 1..Len(<<f>>) : u[l + j] = <<f>>[j]
  BY <1>1, PiecesOfBoth
<1>3. /\ P \in SUBSET (1..l) /\ IsFiniteSet(P) /\ l \in Nat
      /\ Cardinality(P) = n /\ \A i \in P : s[i].text = <<Rank(s, i)>>
  BY PiecesAre DEF Numbers
<1> HIDE DEF l, u, P
<1>4. PiecesOf(u) = P \cup {l + 1} /\ u[l + 1] = f /\ \A i \in P : u[i] = s[i]
  <2>1. {l + j : j \in PiecesOf(<<f>>)} = {l + 1}
    BY <1>1
  <2>2. 1 \in 1..Len(<<f>>)
    BY <1>1
  <2>3. u[l + 1] = f
    BY <1>1, <1>2, <2>2
  <2> QED
    BY <1>2, <1>3, <2>1, <2>3
<1>5. l + 1 \notin P
  BY <1>3
<1>6. Cardinality(PiecesOf(u)) = n + 1
  BY <1>3, <1>4, <1>5, FS_AddElement
<1>7. ASSUME NEW i \in P PROVE Rank(u, i) = Rank(s, i)
  <2>1. {j \in PiecesOf(u) : j <= i} = {j \in P : j <= i}
    BY <1>3, <1>4, <1>7
  <2> QED
    BY Zenon, <2>1 DEF Rank, P
<1>8. Rank(u, l + 1) = n + 1
  <2>1. {j \in PiecesOf(u) : j <= l + 1} = PiecesOf(u)
    <3>1. \A j \in P \cup {l + 1} : j <= l + 1
      BY <1>3
    <3> QED
      BY <1>4, <3>1
  <2> QED
    BY Zenon, <1>6, <2>1 DEF Rank
<1>9. ASSUME NEW i \in PiecesOf(u) PROVE u[i].text = <<Rank(u, i)>>
  <2>1. CASE i \in P
    BY <1>3, <1>4, <1>7, <2>1
  <2>2. CASE i = l + 1
    BY <1>4, <1>8, <2>2
  <2> QED
    BY <1>4, <2>1, <2>2
<1> QED
  BY Zenon, <1>6, <1>9 DEF Numbers, u

\* A frame by frame account of what there is to say.
Numbered ==
    /\ Numbers(Script, Len(said))
    /\ \A i \in FinalsOf(Script) : Script[i].text = said /\ \A j \in PiecesOf(Script) : j < i
    /\ stage \in {"preflight", "streaming"} => FinalsOf(Script) = {}

TInv == SInv /\ Numbered

LEMMA NumberedResult == TInv => TextIntact
<1> SUFFICES ASSUME TInv PROVE TextIntact
  OBVIOUS
<1>1. /\ sent \in Seq(Frames) /\ todo \in Seq(Frames) /\ said \in Texts
      /\ Numbers(Script, Len(said)) /\ (stage = "done" => todo = <<>>)
      /\ \A i \in FinalsOf(Script) : Script[i].text = said /\ \A j \in PiecesOf(Script) : j < i
  BY DEF TInv, Numbered, SInv, Scripted, NInv, IInv, TypeOK
<1> DEFINE u == sent \o todo
           l == Len(sent)
           P == PiecesOf(sent)
           Q == PiecesOf(u)
<1>2. /\ u \in Seq(Frames) /\ u = Script
      /\ Q = P \cup {l + j : j \in PiecesOf(todo)}
      /\ FinalsOf(u) = FinalsOf(sent) \cup {l + j : j \in FinalsOf(todo)}
      /\ \A i \in 1..l : u[i] = sent[i]
  BY <1>1, PiecesOfBoth, ConcatProperties DEF Script
<1>3. /\ P \in SUBSET (1..l) /\ FinalsOf(sent) \in SUBSET (1..l) /\ l \in Nat /\ IsFiniteSet(Q)
      /\ PiecesOf(todo) \in SUBSET (1..Len(todo)) /\ Len(todo) \in Nat
      /\ DOMAIN sent = 1..l /\ \A j \in Q : j \in Int
  <2>1. /\ PiecesOf(sent) \in SUBSET (1..Len(sent)) /\ FinalsOf(sent) \in SUBSET (1..Len(sent))
        /\ Len(sent) \in Nat /\ DOMAIN sent = 1..Len(sent)
    BY <1>1, PiecesAre
  <2>2. PiecesOf(todo) \in SUBSET (1..Len(todo)) /\ Len(todo) \in Nat
    BY <1>1, PiecesAre
  <2> HIDE DEF u
  <2>3. IsFiniteSet(Q) /\ Q \in SUBSET (1..Len(u))
    BY <1>2, PiecesAre
  <2> HIDE DEF Q
  <2> QED
    BY <2>1, <2>2, <2>3
<1>4. Cardinality(Q) = Len(said) /\ \A i \in Q : u[i].text = <<Rank(u, i)>>
  BY <1>1, <1>2 DEF Numbers
<1>5. stage = "done" => u = sent
  BY <1>1, ConcatEmptySeq
<1> HIDE DEF u, l, P, Q
<1>6. P \subseteq Q /\ \A i \in Q : i <= l => i \in P
  BY <1>2, <1>3
<1>7. IsFiniteSet(P) /\ Cardinality(P) <= Len(said)
  BY <1>3, <1>4, <1>6, FS_Subset
<1>8. ASSUME NEW i \in P
      PROVE  sent[i].text = <<said[Cardinality({j \in P : j <= i})]>>
  <2> DEFINE R == {j \in P : j <= i}
  <2>1. R = {j \in Q : j <= i}
    <3>1. i \in Int /\ i <= l
      BY <1>3, <1>8
    <3>2. \A j \in Q : j <= i => j \in P
      BY <1>3, <1>6, <3>1
    <3> QED
      BY <1>6, <3>2
  <2>2. sent[i].text = <<Cardinality(R)>>
    <3>1. Rank(u, i) = Cardinality(R)
      BY Zenon, <2>1 DEF Rank, Q
    <3> QED
      BY <1>2, <1>3, <1>4, <1>6, <1>8, <3>1
  <2>3. Cardinality(R) \in 1..Len(said)
    <3>1. R \in SUBSET P /\ i \in R
      BY <1>3, <1>8
    <3> HIDE DEF R
    <3>2. IsFiniteSet(R) /\ Cardinality(R) <= Cardinality(P) /\ Cardinality(R) \in Nat
      BY <1>7, <3>1, FS_Subset, FS_CardinalityType
    <3>3. Cardinality(R) # 0
      BY <3>1, <3>2, FS_EmptySet
    <3>4. Cardinality(P) \in Nat /\ Len(said) \in Nat
      BY <1>1, <1>7, FS_CardinalityType, TextIs
    <3> QED
      BY <1>7, <3>2, <3>3, <3>4
  <2> HIDE DEF R
  <2>4. said[Cardinality(R)] = Cardinality(R)
    <3>1. PICK k \in 0..MaxPieces : said = Upto(k)
      BY <1>1 DEF Texts
    <3> DEFINE r == Cardinality(R)
    <3>2. r \in 1..Len(said)
      BY <2>3
    <3> HIDE DEF r
    <3>3. k \in Nat /\ Len(said) = k
      BY <3>1, UptoIs
    <3>4. said[r] = r
      BY <3>1, <3>2, <3>3 DEF Upto
    <3> QED
      BY <3>4 DEF r
  <2> QED
    BY <2>2, <2>4 DEF R
<1>9. stage = "done" => Cardinality(P) = Len(said)
  BY <1>4, <1>5 DEF P, Q
<1>10. ASSUME NEW i \in DOMAIN sent, sent[i].type \in {"text.done", "final", "failed"}
       PROVE  sent[i].text = SubSeq(said, 1, Cardinality(P))
  <2>1. i \in FinalsOf(sent) /\ i \in 1..l
    BY <1>3, <1>10 DEF FinalsOf
  <2>2. sent[i].text = said /\ \A j \in Q : j < i
    BY <1>1, <1>2, <2>1 DEF Q
  <2>3. Q = P
    <3>1. \A j \in Q : j <= l
      BY <1>3, <2>1, <2>2
    <3> QED
      BY <1>6, <3>1
  <2>4. SubSeq(said, 1, Len(said)) = said
    BY <1>1, TextIs, SubSeqFull
  <2> QED
    BY <1>4, <2>2, <2>3, <2>4
<1> QED
  BY Zenon, <1>7, <1>8, <1>9, <1>10 DEF TextIntact, P

LEMMA NoPiece ==
    ASSUME NEW t, DOMAIN t = 1..Len(t), \A i \in DOMAIN t : ~PieceIn(t[i])
    PROVE  PiecesOf(t) = {}
  BY DEF PiecesOf

LEMMA OpeningSilent ==
    ASSUME NEW m \in Names
    PROVE  PiecesOf(Opening(m)) = {} /\ FinalsOf(Opening(m)) = {} /\ Numbers(Opening(m), 0)
<1>1. \A i \in DOMAIN Opening(m) : Opening(m)[i].type \in {"created", "added"}
  BY DEF Opening, Frame, Plain
<1>2. PiecesOf(Opening(m)) = {} /\ FinalsOf(Opening(m)) = {}
  BY <1>1 DEF PiecesOf, PieceIn, FinalsOf
<1> QED
  BY <1>2, FS_EmptySet DEF Numbers

\* What is not a piece of text leaves the account as it is.
LEMMA NumberedMore ==
    ASSUME TInv, IInv', todo = <<>>, UNCHANGED <<sent, said>>, PiecesOf(todo') = {}
    PROVE  /\ Numbers(Script, Len(said))'
           /\ PiecesOf(Script') = PiecesOf(sent) /\ PiecesOf(sent) \in SUBSET (1..Len(sent))
           /\ FinalsOf(Script') = FinalsOf(sent) \cup {Len(sent) + j : j \in FinalsOf(todo')}
           /\ \A j \in 1..Len(todo') : Script'[Len(sent) + j] = todo'[j]
           /\ Script = sent /\ FinalsOf(todo') \in SUBSET (1..Len(todo')) /\ Len(sent) \in Nat
<1> DEFINE t == todo'
<1>1. /\ sent \in Seq(Frames) /\ t \in Seq(Frames) /\ Numbers(Script, Len(said)) /\ PiecesOf(t) = {}
  BY DEF TInv, SInv, NInv, IInv, TypeOK, Numbered
<1>2. Script = sent /\ Script' = sent \o t
  BY <1>1, ConcatEmptySeq DEF Script
<1> HIDE DEF t
<1>3. /\ Numbers(sent \o t, Len(said)) /\ PiecesOf(sent \o t) = PiecesOf(sent)
  BY <1>1, <1>2, NumbersMore
<1>4. /\ FinalsOf(sent \o t) = FinalsOf(sent) \cup {Len(sent) + j : j \in FinalsOf(t)}
      /\ \A j \in 1..Len(t) : (sent \o t)[Len(sent) + j] = t[j]
  BY <1>1, PiecesOfBoth
<1>5. /\ PiecesOf(sent) \in SUBSET (1..Len(sent)) /\ FinalsOf(t) \in SUBSET (1..Len(t))
      /\ Len(sent) \in Nat
  BY <1>1, PiecesAre
<1>6. Numbers(Script, Len(said))'
  BY Zenon, <1>2, <1>3
<1> QED
  BY Zenon, <1>2, <1>3, <1>4, <1>5, <1>6 DEF t

\* An ending: its frames repeat the text, if any, and carry no piece of it.
LEMMA NumberedEnding ==
    ASSUME TInv, IInv', todo = <<>>, UNCHANGED <<sent, said>>, PiecesOf(todo') = {},
           stage = "streaming", stage' \notin {"preflight", "streaming"},
           \A j \in FinalsOf(todo') : todo'[j].text = said
    PROVE  Numbered'
<1>1. /\ Numbers(Script, Len(said))' /\ Script = sent
      /\ PiecesOf(Script') = PiecesOf(sent) /\ PiecesOf(sent) \in SUBSET (1..Len(sent))
      /\ FinalsOf(Script') = FinalsOf(sent) \cup {Len(sent) + j : j \in FinalsOf(todo')}
      /\ \A j \in 1..Len(todo') : Script'[Len(sent) + j] = todo'[j]
      /\ FinalsOf(todo') \in SUBSET (1..Len(todo')) /\ Len(sent) \in Nat
  BY NumberedMore
<1>2. FinalsOf(sent) = {}
  BY <1>1 DEF TInv, Numbered
<1>3. ASSUME NEW i \in FinalsOf(Script')
      PROVE  Script'[i].text = said /\ \A j \in PiecesOf(Script') : j < i
  <2>1. PICK j \in FinalsOf(todo') : i = Len(sent) + j
    BY <1>1, <1>2
  <2>2. j \in 1..Len(todo') /\ todo'[j].text = said
    BY <1>1, <2>1
  <2>3. Script'[i].text = said
    BY <1>1, <2>1, <2>2
  <2>4. i > Len(sent) /\ i \in Int
    BY <1>1, <2>1, <2>2
  <2> QED
    BY <1>1, <2>3, <2>4
<1> QED
  BY <1>1, <1>3 DEF Numbered

\* A frame of a stream that goes on.
LEMMA NumberedSilent ==
    ASSUME TInv, IInv', todo = <<>>, UNCHANGED <<sent, said>>, PiecesOf(todo') = {},
           stage \in {"preflight", "streaming"}, FinalsOf(todo') = {}
    PROVE  Numbered'
<1>1. /\ Numbers(Script, Len(said))' /\ Script = sent
      /\ FinalsOf(Script') = FinalsOf(sent) \cup {Len(sent) + j : j \in FinalsOf(todo')}
  BY NumberedMore
<1>2. FinalsOf(Script') = {}
  BY <1>1 DEF TInv, Numbered
<1> QED
  BY <1>1, <1>2 DEF Numbered

\* The next piece.
LEMMA NumberedOne ==
    ASSUME TInv, IInv', NEW s \in Seq(Frames), Numbers(s, Len(said)), FinalsOf(s) = {},
           NEW f \in Frames, PieceIn(f), f.type \in {"delta", "chunk"}, f.text = <<Len(said')>>,
           Len(said') = Len(said) + 1, Script' = s \o <<f>>
    PROVE  Numbered'
<1>1. Len(said) \in Nat
  BY TextIs DEF TInv, SInv, NInv, IInv, TypeOK
<1>2. Numbers(s \o <<f>>, Len(said) + 1)
  BY <1>1, NumbersOne
<1>3. FinalsOf(s \o <<f>>) = {}
  <2>1. FinalsOf(<<f>>) = {}
    BY DEF FinalsOf
  <2>2. <<f>> \in Seq(Frames)
    OBVIOUS
  <2>3. FinalsOf(s \o <<f>>) = FinalsOf(s) \cup {Len(s) + j : j \in FinalsOf(<<f>>)}
    BY <2>2, PiecesOfBoth
  <2> QED
    BY <2>1, <2>3
<1>4. Numbers(Script, Len(said))' /\ FinalsOf(Script)' = {}
  BY Zenon, <1>2, <1>3
<1> QED
  BY <1>4 DEF Numbered

LEMMA NumberedPreflight ==
    ASSUME TInv, IInv', PreflightEmpty \/ PreflightText \/ PreflightEnds \/ PreflightRaises
    PROVE  Numbered'
<1> USE DEF Ready
<1>0. /\ stage = "preflight" /\ todo = <<>> /\ sent = <<>> /\ said = <<>> /\ sent' = sent
      /\ IInv /\ Numbered /\ SInv
  BY DEF PreflightEmpty, PreflightText, PreflightEnds, PreflightRaises, TInv, SInv, NInv, Scripted
<1>1. CASE PreflightText
  <2>1. PICK m \in Models : YieldsText(m) /\ todo' = Append(Opening(m), Delta(said'))
    BY <1>1 DEF PreflightText
  <2>2. /\ said' = Append(said, Len(said) + 1) /\ Len(said') = Len(said) + 1
        /\ said' \in Chunks /\ said' # <<>>
    BY <1>0, <2>1, YieldsTextStep DEF Chunks
  <2>3. said' = <<Len(said')>> /\ Len(said) = 0
    BY <1>0, <2>2
  <2> DEFINE o == Opening(m)
             d == Delta(said')
  <2>4. o \in Seq(Frames) /\ FinalsOf(o) = {} /\ Numbers(o, Len(said))
    BY <2>3, OpeningIs, OpeningSilent DEF Names
  <2>5. /\ d \in Frames /\ PieceIn(d) /\ d.type \in {"delta", "chunk"} /\ d.text = <<Len(said')>>
    <3>1. d \in Frames
      BY <2>2, DeltaIs
    <3> QED
      BY <2>2, <2>3, <3>1 DEF Delta, Frame, PieceIn
  <2>6. todo' = Append(o, d)
    BY <2>1
  <2> HIDE DEF o, d
  <2>7. Script' = o \o <<d>>
    <3>1. Append(o, d) = o \o <<d>> /\ o \o <<d>> \in Seq(Frames)
      BY <2>4, <2>5
    <3> DEFINE u == o \o <<d>>
    <3> HIDE DEF u
    <3>2. <<>> \o u = u
      BY <3>1, ConcatEmptySeq DEF u
    <3>3. todo' = u /\ sent' = <<>>
      BY <1>0, <2>6, <3>1 DEF u
    <3> QED
      BY Zenon, <3>2, <3>3 DEF Script, u
  <2> QED
    BY <2>2, <2>4, <2>5, <2>7, NumberedOne
<1>2. CASE PreflightEnds
  <2>1. said' = said /\ todo' = Opening(model')
    BY <1>2 DEF PreflightEnds, Returns
  <2>2. PiecesOf(todo') = {} /\ FinalsOf(todo') = {}
    BY <2>1, OpeningSilent DEF IInv, TypeOK
  <2> QED
    BY <1>0, <2>1, <2>2, NumberedSilent
<1>3. CASE PreflightEmpty \/ PreflightRaises
  <2>1. said' = said /\ todo' = <<>>
    BY <1>0, <1>3 DEF PreflightEmpty, YieldsNothing, PreflightRaises, Raises
  <2>2. PiecesOf(todo') = {} /\ FinalsOf(todo') = {}
    BY <2>1 DEF PiecesOf, FinalsOf
  <2> QED
    BY <1>0, <2>1, <2>2, NumberedSilent
<1> QED
  BY <1>1, <1>2, <1>3

LEMMA NumberedPull ==
    ASSUME TInv, IInv', PullText \/ PullEmpty \/ PullEnds \/ PullRaises
    PROVE  Numbered'
<1> USE DEF Ready
<1>0. /\ stage = "streaming" /\ todo = <<>> /\ sent' = sent /\ text = said
      /\ IInv /\ Numbered /\ SInv /\ sent \in Seq(Frames)
  BY DEF PullText, PullEmpty, PullEnds, PullRaises, TInv, SInv, NInv, IInv, TypeOK, TextSaid
<1>1. CASE PullText
  <2>1. PICK m \in Models : YieldsText(m)
    BY <1>1 DEF PullText
  <2>2. /\ Len(said') = Len(said) + 1 /\ <<Len(said')>> \in Chunks
    BY <1>0, <2>1, YieldsTextStep
  <2> DEFINE d == Delta(<<Len(said')>>)
  <2>3. d \in Frames
    BY <2>2, DeltaIs
  <2>4. PieceIn(d) /\ d.type \in {"delta", "chunk"} /\ d.text = <<Len(said')>>
    BY DEF Delta, Frame, PieceIn
  <2>5. todo' = <<d>>
    BY <1>1 DEF PullText
  <2> HIDE DEF d
  <2>6. Script' = sent \o <<d>> /\ Script = sent
    BY <1>0, <2>5, ConcatEmptySeq DEF Script
  <2>7. Numbers(sent, Len(said)) /\ FinalsOf(sent) = {}
    BY <1>0, <2>6 DEF Numbered
  <2> QED
    BY <1>0, <2>2, <2>3, <2>4, <2>6, <2>7, NumberedOne
<1>2. CASE PullEmpty
  <2>1. said' = said /\ todo' = <<>>
    BY <1>0, <1>2 DEF PullEmpty, YieldsNothing
  <2>2. PiecesOf(todo') = {} /\ FinalsOf(todo') = {}
    BY <2>1 DEF PiecesOf, FinalsOf
  <2> QED
    BY <1>0, <2>1, <2>2, NumberedSilent
<1>3. CASE PullEnds
  <2>1. said' = said /\ todo' = Closing(said, author') /\ stage' = "closing"
    BY <1>0, <1>3 DEF PullEnds, Returns
  <2>2. /\ \A i \in DOMAIN todo' : todo'[i].type \in {"text.done", "final"}
        /\ \A i \in DOMAIN todo' : todo'[i].text = said
    BY <2>1 DEF Closing, Frame
  <2>3. PiecesOf(todo') = {} /\ \A j \in FinalsOf(todo') : todo'[j].text = said
    BY <2>2 DEF PiecesOf, PieceIn, FinalsOf
  <2> QED
    BY <1>0, <2>1, <2>3, NumberedEnding
<1>4. CASE PullRaises
  <2>1. said' = said /\ todo' = <<Frame("failed", model, said)>> /\ stage' = "closing"
    BY <1>0, <1>4 DEF PullRaises, Raises
  <2>2. /\ \A i \in DOMAIN todo' : todo'[i].type = "failed"
        /\ \A i \in DOMAIN todo' : todo'[i].text = said
    BY <2>1 DEF Frame
  <2>3. PiecesOf(todo') = {} /\ \A j \in FinalsOf(todo') : todo'[j].text = said
    BY <2>2 DEF PiecesOf, PieceIn, FinalsOf
  <2> QED
    BY <1>0, <2>1, <2>3, NumberedEnding
<1> QED
  BY <1>1, <1>2, <1>3, <1>4

LEMMA NumberedChat ==
    ASSUME TInv, IInv', ChatChunk \/ ChatEnds \/ ChatRaises
    PROVE  Numbered'
<1> USE DEF Ready
<1>0. /\ stage = "streaming" /\ todo = <<>> /\ sent' = sent /\ said \in Texts
      /\ IInv /\ Numbered /\ SInv /\ sent \in Seq(Frames) /\ empties \in Nat
  BY DEF ChatChunk, ChatEnds, ChatRaises, TInv, SInv, NInv, IInv, TypeOK
<1>1. CASE ChatChunk
  <2>1. PICK m \in Models :
          /\ YieldsText(m) \/ YieldsNothing(m)
          /\ todo' = <<Frame("chunk", m, SubSeq(said', Len(said) + 1, Len(said')))>>
    BY <1>1 DEF ChatChunk
  <2>2. CASE YieldsText(m)
    <3>1. /\ said' = Append(said, Len(said) + 1) /\ Len(said') = Len(said) + 1
          /\ <<Len(said')>> \in Chunks
      BY <1>0, <2>2, YieldsTextStep
    <3>2. SubSeq(said', Len(said) + 1, Len(said')) = <<Len(said')>>
      <4>1. said \in Seq(Nat) /\ Len(said) + 1 \in Nat
        BY <1>0, TextIs
      <4> QED
        BY <3>1, <4>1, LastOf
    <3> DEFINE d == Frame("chunk", m, <<Len(said')>>)
    <3>3. d \in Frames
      BY <3>1, FrameIs DEF Types, Names
    <3>4. PieceIn(d) /\ d.type \in {"delta", "chunk"} /\ d.text = <<Len(said')>>
      BY DEF Frame, PieceIn
    <3>5. todo' = <<d>>
      BY <2>1, <3>2
    <3> HIDE DEF d
    <3>6. Script' = sent \o <<d>> /\ Script = sent
      BY <1>0, <3>5, ConcatEmptySeq DEF Script
    <3>7. Numbers(sent, Len(said)) /\ FinalsOf(sent) = {}
      BY <1>0, <3>6 DEF Numbered
    <3> QED
      BY <1>0, <3>1, <3>3, <3>4, <3>6, <3>7, NumberedOne
  <2>3. CASE YieldsNothing(m)
    <3>1. said' = said
      BY <2>3 DEF YieldsNothing
    <3>2. SubSeq(said', Len(said) + 1, Len(said')) = <<>>
      BY <1>0, <3>1, TextIs, NoneAfter
    <3>3. todo' = <<Frame("chunk", m, <<>>)>>
      BY <2>1, <3>2
    <3>4. PiecesOf(todo') = {} /\ FinalsOf(todo') = {}
      BY <3>3 DEF PiecesOf, PieceIn, FinalsOf, Frame
    <3> QED
      BY <1>0, <3>1, <3>4, NumberedSilent
  <2> QED
    BY <2>1, <2>2, <2>3
<1>2. CASE ChatEnds \/ ChatRaises
  <2>1. /\ said' = said
        /\ \/ todo' = <<Frame("stop", model, <<>>), Plain("[DONE]")>>
           \/ todo' = <<Plain("error"), Plain("[DONE]")>>
           \/ todo' = <<>>
    BY <1>0, <1>2 DEF ChatEnds, ChatRaises, Returns, Raises
  <2>2. PiecesOf(todo') = {} /\ FinalsOf(todo') = {}
    BY <2>1 DEF PiecesOf, PieceIn, FinalsOf, Frame, Plain
  <2> QED
    BY <1>0, <2>1, <2>2, NumberedSilent
<1> QED
  BY <1>1, <1>2

LEMMA NumberedYield ==
    ASSUME TInv, IInv', Yield \/ Leave \/ UNCHANGED vars
    PROVE  Numbered'
<1>0. /\ IInv /\ Numbered /\ sent \in Seq(Frames) /\ todo \in Seq(Frames) /\ UNCHANGED said
      /\ stage' \in {"preflight", "streaming"} => stage' = stage
  BY DEF TInv, SInv, NInv, IInv, TypeOK, Yield, Leave, Close, contract, vars, handler
<1>1. Script' = Script
  <2>1. CASE Yield
    <3>1. Append(sent, Head(todo)) \o Tail(todo) = sent \o todo
      BY <1>0, <2>1, HandedOver DEF Yield
    <3> QED
      BY Zenon, <2>1, <3>1 DEF Yield, Script
  <2>2. CASE ~Yield
    BY Zenon, <2>2 DEF Leave, vars, handler, Script
  <2> QED
    BY <2>1, <2>2
<1>2. Numbers(Script, Len(said))'
  BY Zenon, <1>0, <1>1 DEF Numbered
<1>3. FinalsOf(Script)' = FinalsOf(Script) /\ PiecesOf(Script)' = PiecesOf(Script)
  BY Zenon, <1>1
<1> QED
  BY <1>0, <1>1, <1>2, <1>3 DEF Numbered

LEMMA NumberedStep ==
    ASSUME TInv, SInv', [Next]_vars
    PROVE  TInv'
<1>1. IInv'
  BY DEF SInv, NInv
<1>2. Numbered'
  BY <1>1, NumberedPreflight, NumberedPull, NumberedChat, NumberedYield DEF Next
<1> QED
  BY <1>2 DEF TInv

LEMMA NumberedInit == Init => TInv
<1> SUFFICES ASSUME Init PROVE TInv
  OBVIOUS
<1>1. Script = <<>> /\ said = <<>>
  BY DEF Init, Script
<1>2. PiecesOf(Script) = {} /\ FinalsOf(Script) = {}
  BY <1>1 DEF PiecesOf, FinalsOf
<1>3. Numbers(Script, Len(said))
  BY <1>1, <1>2, FS_EmptySet DEF Numbers
<1> QED
  BY <1>2, <1>3, ScriptedInit DEF TInv, Numbered

\* No piece of a text, of any length, is lost, repeated or displaced between the
\* router and the client, and the final frames repeat what was received: every frame
\* that is sent or still to be sent is accounted for.
THEOREM TextArrives == Spec => []TextIntact
<1>1. TInv /\ [Next]_vars => TInv'
  <2>1. TInv => SInv /\ NInv
    BY DEF TInv, SInv
  <2> QED
    BY <2>1, NamedStep, ScriptedStep, NumberedStep
<1> QED
  BY <1>1, NumberedInit, NumberedResult, PTL DEF Spec
===============================================================================
