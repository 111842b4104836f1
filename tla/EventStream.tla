------------------------------ MODULE EventStream -----------------------------
(***************************************************************************)
(* One streamed request at the gateway: POST /v1/responses                 *)
(* (_stream_response in src/api/main.py, stream_response_events in         *)
(* src/api/responses.py) or POST /v1/chat/completions                      *)
(* (_stream_chat_completion in src/api/main.py), over a router stream that *)
(* keeps StreamContract.                                                   *)
(*                                                                         *)
(* A handler pulls the router's generator until it yields, and yields its  *)
(* own frames one by one; the client may go away at either point.  Text is *)
(* a sequence of pieces, numbered in the order the router yields them.     *)
(***************************************************************************)
EXTENDS StreamContract, Naturals, SequencesExt

CONSTANTS
    DraftModel,     \* requested_model or "nexus-routed"
    MaxPieces,      \* bound of the model: pieces of text in a stream
    MaxEmpty        \* bound of the model: empty chunks in a stream

ASSUME StreamAssumption ==
    /\ NoModel \notin Models
    /\ DraftModel \notin Models \cup {NoModel}
    /\ MaxPieces \in Nat
    /\ MaxEmpty \in Nat

VARIABLES
    kind,           \* the endpoint
    stage,          \* where the handler is
    model,          \* its local variable of that name
    pulled,         \* first_chunk, as <<model, text>>, or <<>> for None
    said,           \* pieces the router has yielded
    empties,        \* empty chunks it has yielded
    text,           \* the handler's local variable of that name
    todo,           \* frames to yield before the next pull
    sent            \* frames the client was sent

handler == <<kind, stage, model, pulled, said, empties, text, todo, sent>>
vars == <<handler, contract>>

Ended == {"done", "rejected", "broken", "gone"}
Stages == {"preflight", "streaming", "closing"} \cup Ended
Names == Models \cup {NoModel, DraftModel}
Upto(n) == [i \in 1..n |-> i]
Texts == {Upto(n) : n \in 0..MaxPieces}

Types == {"created", "added", "delta", "text.done", "final", "failed",
          "chunk", "stop", "error", "[DONE]"}
Frames == [type : Types, model : Names, text : Texts \cup {<<i>> : i \in 1..MaxPieces}]

TypeOK ==
    /\ kind \in {"responses", "chat"}
    /\ stage \in Stages
    /\ model \in Names
    /\ pulled \in {<<>>} \cup (Models \X (Texts \cup {<<i>> : i \in 1..MaxPieces}))
    /\ said \in Texts
    /\ empties \in 0..MaxEmpty
    /\ text \in Texts
    /\ todo \in Seq(Frames)
    /\ sent \in Seq(Frames)
    /\ voice \in Models \cup {NoModel}
    /\ author \in Models \cup {NoModel}
    /\ outcome \in Outcomes

Frame(t, m, p) == [type |-> t, model |-> m, text |-> p]
Plain(t) == Frame(t, NoModel, <<>>)
-----------------------------------------------------------------------------
(* The sequences of frames *)

\* response.created, .in_progress, .output_item.added and .content_part.added:
\* the first two carry the model; the handler yields them in a row.
Opening(m) == <<Frame("created", m, <<>>), Frame("created", m, <<>>), Plain("added"), Plain("added")>>

Delta(p) == Frame("delta", NoModel, p)

\* .output_text.done, .content_part.done, .output_item.done, and then
\* response.completed or response.incomplete, both "final" here.
Closing(t, m) ==
    <<Frame("text.done", NoModel, t), Frame("text.done", NoModel, t),
      Frame("text.done", NoModel, t), Frame("final", m, t)>>

\* fault: the first chunk names the model, whatever came of its attempt
NamedByFirstChunk ==
    IF pulled # <<>> THEN pulled[1] ELSE IF outcome = "answered" THEN author ELSE DraftModel

\* The model named in response.created.
OpeningModel ==
    IF outcome = "answered" THEN author
    ELSE IF pulled # <<>> THEN pulled[1]
    ELSE DraftModel
-----------------------------------------------------------------------------
(* What the router's generator does when it is pulled *)

\* The next chunk carries the next piece of text.
YieldsText(m) ==
    /\ Len(said) < MaxPieces
    /\ Speak(m)
    /\ said' = Append(said, Len(said) + 1)
    /\ UNCHANGED empties

YieldsNothing(m) ==
    /\ empties < MaxEmpty
    /\ MaySpeak(m)
    /\ empties' = empties + 1
    /\ UNCHANGED <<contract, said>>

\* on_complete, then return; pulled again, the generator ends at once.
Returns ==
    /\ \/ \E m \in Models : Complete(m)
       \/ outcome = "answered" /\ UNCHANGED contract
    /\ UNCHANGED <<said, empties>>

Raises(o) ==
    /\ Raise
    /\ outcome' = o
    /\ UNCHANGED <<said, empties>>

Ready(k, s) == kind = k /\ stage = s /\ todo = <<>>
-----------------------------------------------------------------------------
Init ==
    /\ ContractInit
    /\ kind \in {"responses", "chat"}
    /\ stage = IF kind = "responses" THEN "preflight" ELSE "streaming"
    /\ model = DraftModel
    /\ pulled = <<>>
    /\ said = <<>>
    /\ empties = 0
    /\ text = <<>>
    /\ todo = <<>>
    /\ sent = <<>>

\* An empty chunk is kept in mind and the preflight goes on.
PreflightEmpty ==
    /\ Ready("responses", "preflight")
    /\ \E m \in Models : YieldsNothing(m) /\ pulled' = <<m, <<>>>>
    /\ UNCHANGED <<kind, stage, model, text, todo, sent>>

\* The first text ends the preflight and starts the HTTP response.
PreflightText ==
    /\ Ready("responses", "preflight")
    /\ \E m \in Models :
        /\ YieldsText(m)
        /\ pulled' = <<m, said'>>
        /\ model' = m
        /\ todo' = Append(Opening(m), Delta(said'))
    /\ text' = said'
    /\ stage' = "streaming"
    /\ UNCHANGED <<kind, sent>>

\* The stream ended in the preflight: the routed result is final.
PreflightEnds ==
    /\ Ready("responses", "preflight")
    /\ Returns
    /\ UNCHANGED <<kind, pulled, text, sent>>
    /\ model' = OpeningModel'
    /\ todo' = Opening(model')
    /\ stage' = "streaming"

\* fault: an error of the preflight is rendered as an event
PreflightRaisesLate ==
    /\ Ready("responses", "preflight")
    /\ Raises("failed")
    /\ stage' = "closing"
    /\ todo' = Append(Opening(DraftModel), Frame("failed", DraftModel, <<>>))
    /\ UNCHANGED <<kind, model, pulled, text, sent>>

\* A routing error becomes an HTTP status, any other one a server error.
PreflightRaises ==
    /\ Ready("responses", "preflight")
    /\ \/ Raises("failed") /\ stage' = "rejected"
       \/ Raises("crashed") /\ stage' = "broken"
    /\ UNCHANGED <<kind, model, pulled, text, todo, sent>>

\* yield: the client receives the next frame.
Yield ==
    /\ stage \notin Ended /\ todo # <<>>
    /\ sent' = Append(sent, Head(todo))
    /\ todo' = Tail(todo)
    /\ stage' = IF stage = "closing" /\ Len(todo) = 1 THEN "done" ELSE stage
    /\ UNCHANGED <<kind, model, pulled, said, empties, text, contract>>

\* fault: the accumulated text loses its beginning
DropsFirstPiece ==
    /\ Ready("responses", "streaming")
    /\ \E m \in Models : YieldsText(m) /\ model' = m
    /\ text' = SubSeq(text, 2, Len(text)) \o <<Len(said')>>
    /\ todo' = <<Delta(<<Len(said')>>)>>
    /\ UNCHANGED <<kind, stage, pulled, sent>>

\* fault: a chunk is added to the text twice
AddsTwice ==
    /\ Ready("responses", "streaming")
    /\ \E m \in Models : YieldsText(m) /\ model' = m
    /\ text' = text \o <<Len(said'), Len(said')>>
    /\ todo' = <<Delta(<<Len(said')>>)>>
    /\ UNCHANGED <<kind, stage, pulled, sent>>

PullText ==
    /\ Ready("responses", "streaming")
    /\ \E m \in Models : YieldsText(m) /\ model' = m
    /\ text' = Append(text, Len(said'))
    /\ todo' = <<Delta(<<Len(said')>>)>>
    /\ UNCHANGED <<kind, stage, pulled, sent>>

PullEmpty ==
    /\ Ready("responses", "streaming")
    /\ \E m \in Models : YieldsNothing(m) /\ model' = m
    /\ UNCHANGED <<kind, stage, pulled, text, todo, sent>>

PullEnds ==
    /\ Ready("responses", "streaming")
    /\ Returns
    /\ todo' = Closing(text, author')
    /\ stage' = "closing"
    /\ UNCHANGED <<kind, model, pulled, text, sent>>

\* Text was sent by now, and so the router raises no error but a routing error.
PullRaises ==
    /\ Ready("responses", "streaming")
    /\ Raises("failed")
    /\ stage' = "closing"
    /\ todo' = <<Frame("failed", model, text)>>
    /\ UNCHANGED <<kind, model, pulled, text, sent>>

\* The chat stream renders every chunk, empty ones too.
ChatChunk ==
    /\ Ready("chat", "streaming")
    /\ \E m \in Models :
        /\ YieldsText(m) \/ YieldsNothing(m)
        /\ model' = m
        /\ todo' = <<Frame("chunk", m, SubSeq(said', Len(said) + 1, Len(said')))>>
    /\ text' = said'
    /\ UNCHANGED <<kind, stage, pulled, sent>>

ChatEnds ==
    /\ Ready("chat", "streaming")
    /\ Returns
    /\ todo' = <<Frame("stop", model, <<>>), Plain("[DONE]")>>
    /\ stage' = "closing"
    /\ UNCHANGED <<kind, model, pulled, text, sent>>

\* Only routing errors are caught; another one ends the response where it is.
ChatRaises ==
    /\ Ready("chat", "streaming")
    /\ \/ /\ Raises("failed")
          /\ stage' = "closing"
          /\ todo' = <<Plain("error"), Plain("[DONE]")>>
       \/ /\ Raises("crashed")
          /\ stage' = "broken"
          /\ UNCHANGED todo
    /\ UNCHANGED <<kind, model, pulled, text, sent>>

\* The client goes away.  The router's generator ends by the cancellation
\* while the handler waits for it, or is closed by the finally block of the
\* Responses stream, or when the abandoned generators are finalized.
Leave ==
    /\ stage \in {"streaming", "closing"}
    /\ stage' = "gone"
    /\ IF outcome = "open" THEN Close ELSE UNCHANGED contract
    /\ UNCHANGED <<kind, model, pulled, said, empties, text, todo, sent>>

Next ==
    \/ PreflightEmpty \/ PreflightText \/ PreflightEnds \/ PreflightRaises
    \/ PullText \/ PullEmpty \/ PullEnds \/ PullRaises
    \/ ChatChunk \/ ChatEnds \/ ChatRaises
    \/ Yield \/ Leave

Spec == Init /\ [][Next]_vars
-----------------------------------------------------------------------------
(* Properties *)

TypesOf(frames) == [i \in DOMAIN frames |-> frames[i].type]
Repeat(n, x) == [i \in 1..n |-> x]

\* The frames before the ending: an opening and one for each piece of text or, in a
\* chat stream, one for each chunk of the router.
Opened ==
    IF kind = "responses" THEN TypesOf(Opening(NoModel)) \o Repeat(Len(said), "delta")
    ELSE Repeat(Len(said) + empties, "chunk")

\* A Responses stream fails only after text was sent: without any, the failure is a
\* plain HTTP error.
Endings ==
    IF kind = "chat" THEN {<<"stop", "[DONE]">>, <<"error", "[DONE]">>}
    ELSE {TypesOf(Closing(<<>>, NoModel))} \cup (IF text = <<>> THEN {} ELSE {<<"failed">>})

\* What a client receives is a prefix of its endpoint's protocol, and all of it
\* when the stream is done: an opening, the text, one ending, nothing after it.
\* Only a stream that sent no text may break off.
Lifecycle ==
    LET whole == {Opened \o ending : ending \in Endings}
    IN  /\ \E p \in whole : IsPrefix(TypesOf(sent), p)
        /\ stage = "done" => TypesOf(sent) \in whole
        /\ stage \in {"rejected", "broken"} => text = <<>>
        /\ stage = "rejected" => sent = <<>>

\* The frames that carry a piece of text.
PieceIn(f) == f.type \in {"delta", "chunk"} /\ f.text # <<>>
PiecesOf(frames) == {i \in DOMAIN frames : PieceIn(frames[i])}

\* The n-th piece that a client receives is the n-th that the router has yielded:
\* none is lost, repeated or out of its order.  All of them are received once the
\* stream is whole, and its final frames repeat them.
TextIntact ==
    LET heard == Cardinality(PiecesOf(sent))
    IN  /\ heard <= Len(said)
        /\ \A i \in PiecesOf(sent) :
            sent[i].text = <<said[Cardinality({j \in PiecesOf(sent) : j <= i})]>>
        /\ stage = "done" => heard = Len(said)
        /\ \A i \in DOMAIN sent :
            sent[i].type \in {"text.done", "final", "failed"} =>
                sent[i].text = SubSeq(said, 1, heard)

\* Every model a Responses stream names, from response.created on, is the one
\* that spoke and that answered, though attempts of other models may have
\* yielded empty chunks before they failed.  So it is in a chat stream from the
\* first text on.
OneModelNamed ==
    \A i \in DOMAIN sent :
        /\ sent[i].model # NoModel
        /\ kind = "responses" \/ \E j \in 1..i : sent[j].text # <<>>
        => /\ voice # NoModel => sent[i].model = voice
           /\ outcome = "answered" => sent[i].model = author
===============================================================================
