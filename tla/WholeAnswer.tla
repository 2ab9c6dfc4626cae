---------------------------- MODULE WholeAnswer ----------------------------
(***************************************************************************)
(* Answers that come whole, or as a stream of Google, and what the gateway     *)
(* makes of them: the other protocol's whole answer, or a stream for a client   *)
(* that asked for one (upstream.ts, googleNativeAdapter.ts, responsesAdapter.ts, *)
(* cache.ts), and what the observer of streams writes down (streaming.ts).      *)
(*                                                                         *)
(* A part of an answer is a text, a thought or a call; what it says is its      *)
(* number.  A stream is what forwardStream is given: StreamReply has the rest.  *)
(* A "message" comes from an upstream of Anthropic; "shaped" is a body that looks *)
(* like one and comes from another upstream.                                     *)
(***************************************************************************)
EXTENDS Naturals, Sequences, SequencesExt

CONSTANT Origins      \* the answers upstreams and the cache give

VARIABLES
    asked,      \* [client, streaming, seen]: the protocol, stream: true, and how much of the
                \* text a continued handed has shown already
    origin,   \* the answer: its api and the pieces of data it arrives in
    taken,      \* pieces of data taken so far
    google,     \* state of a stream of Google: hasToolCalls, terminalSent
    handed,      \* what the client, or the forwarder for it, has been handed
    audit       \* StreamAuditObserver

answerVars == <<asked, origin, taken, google, handed, audit>>

-----------------------------------------------------------------------------
(* Data                                                                      *)

PartsOf(parts, k) ==
    LET OfKind(p) == p.kind = k
        q == SelectSeq(parts, OfKind)
    IN  [i \in DOMAIN q |-> q[i].id]

\* One piece of data as a whole answer: parts, stop, usage
Whole(data) ==
    [parts |-> FlattenSeq([i \in DOMAIN data |-> data[i].parts]),
     stop |-> Last(data).stop, usage |-> Last(data).usage]

\* A chat completion.  tagged: thoughts in <think> tags at the head of the content.
Completion(d, finish) ==
    [thoughts |-> PartsOf(d.parts, "thought"), tagged |-> PartsOf(d.parts, "tagged"),
     text |-> PartsOf(d.parts, "text"), calls |-> PartsOf(d.parts, "call"), finish |-> finish,
     usage |-> d.usage]

\* msg.content: tags are text to who makes no stream.
Content(c) == c.tagged \o c.text

\* A chunk of a chat completion, and an event of an Anthropic message
ChatChunk == [thoughts |-> <<>>, text |-> <<>>, calls |-> <<>>, finish |-> "none", usage |-> FALSE]
MessageEvent(type, index, what) == [type |-> type, index |-> index, what |-> what]

-----------------------------------------------------------------------------
(* Google                                                                    *)

\* Mutant: the calls are not looked at.
GoogleFinishPlain(stop, called) == IF stop = "STOP" THEN "stop" ELSE "length"

\* mapGoogleFinishReason
GoogleFinish(stop, called) ==
    IF called THEN "tool_calls" ELSE
    CASE stop = "STOP" -> "stop"
      [] stop = "MAX_TOKENS" -> "length"
      [] stop = "SAFETY" -> "content_filter"
      [] OTHER -> "none"

\* googleGenerateContentToOpenAI
GoogleToChat(d) == Completion(d, GoogleFinish(d.stop, PartsOf(d.parts, "call") # <<>>))

\* googleChunkToOpenAIChunks: a chunk for each part, and the end with the reason or the usage.
GoogleChunks(d, called) ==
    LET PartChunk(p) == CASE p.kind = "thought" -> [ChatChunk EXCEPT !.thoughts = <<p.id>>]
                          [] p.kind = "call" -> [ChatChunk EXCEPT !.calls = <<p.id>>]
                          [] OTHER -> [ChatChunk EXCEPT !.text = <<p.id>>]
        finish == GoogleFinish(d.stop, called)
    IN  [i \in DOMAIN d.parts |-> PartChunk(d.parts[i])]
        \o IF finish # "none" \/ d.usage
           THEN <<[ChatChunk EXCEPT !.finish = finish, !.usage = d.usage]>> ELSE <<>>

-----------------------------------------------------------------------------
(* Between chat completions and Anthropic messages                             *)

\* coerceToOpenAICompletionShape, of an answer that looks like a message
Coerced(d) ==
    Completion(d, IF d.stop = "tool_use" \/ PartsOf(d.parts, "call") # <<>> THEN "tool_calls"
                  ELSE IF d.stop = "max_tokens" THEN "length" ELSE "stop")

Block(kind, ids) == [kind |-> kind, ids |-> ids]

\* The message for a client without stream: an empty text when there is no block.
MessageOf(blocks, finish) ==
    [blocks |-> IF blocks = <<>> THEN <<Block("text", <<>>)>> ELSE blocks,
     stop |-> CASE finish = "stop" -> "end_turn"
                [] finish = "length" -> "max_tokens"
                [] finish = "tool_calls" -> "tool_use"
                [] OTHER -> "stop_sequence"]

\* Of a chat completion, whose thoughts are for others
ChatToMessage(c) ==
    MessageOf((IF Content(c) = <<>> THEN <<>> ELSE <<Block("text", Content(c))>>)
              \o [i \in DOMAIN c.calls |-> Block("call", <<c.calls[i]>>)], c.finish)

\* Of a body in the shape of a message: its blocks as they are.  The reason is looked for among
\* choices, which it has not.
ShapedToMessage(d) ==
    MessageOf([i \in DOMAIN d.parts |-> Block(d.parts[i].kind, <<d.parts[i].id>>)], "none")

\* Calls whose arguments JSON.parse throws on
Unparsed == {9}

\* adaptChatResponseToResponses
ChatToResponse(c) ==
    [items |-> (IF c.thoughts = <<>> THEN <<>> ELSE <<Block("thought", c.thoughts)>>)
               \o (IF Content(c) = <<>> /\ c.calls # <<>> THEN <<>>
                   ELSE <<Block("text", Content(c))>>)
               \o [i \in DOMAIN c.calls |-> Block("call", <<c.calls[i]>>)],
     status |-> IF c.finish = "length" THEN "incomplete" ELSE "completed"]

\* The same, of a body without choices: the text of its content, and nothing else of it.
ShapedToResponse(d) ==
    [items |-> <<Block("text", PartsOf(d.parts, "text"))>>, status |-> "completed"]

-----------------------------------------------------------------------------
(* A whole answer as a stream: createFakeStreamFromData                        *)

Unseen(ids, seen) == SubSeq(ids, seen + 1, Len(ids))

\* For a client of chat completions; seen pieces of the text were sent before.  Thoughts
\* alone are shown as text.
FakeChunks(c, seen) ==
    LET some(field, ids) == IF ids = <<>> THEN <<>> ELSE <<[ChatChunk EXCEPT ![field] = ids]>>
        text == IF Unseen(c.text, seen) = <<>> THEN c.thoughts ELSE Unseen(c.text, seen)
        finish == IF c.finish # "none" THEN c.finish
                  ELSE IF c.calls # <<>> THEN "tool_calls" ELSE "stop"
    IN  some("thoughts", c.thoughts)
        \o (IF c.calls # <<>> THEN some("calls", c.calls)
            ELSE some("thoughts", c.tagged) \o some("text", text))
        \o <<[ChatChunk EXCEPT !.finish = finish]>>
        \o IF c.usage THEN <<[ChatChunk EXCEPT !.usage = TRUE]>> ELSE <<>>

\* What has no message is printed: the text is the JSON of the whole answer.
Json == 0
Printed(d) ==
    [thoughts |-> <<>>, tagged |-> <<>>, text |-> <<Json>>, calls |-> <<>>, finish |-> "none",
     usage |-> d.usage]

\* For a client of messages: every block with its start, its content and its stop.
FakeEvents(d) ==
    LET block(i) == <<MessageEvent("start", i - 1, d.parts[i].kind), MessageEvent("delta", i - 1, d.parts[i].id),
                      MessageEvent("stop", i - 1, d.parts[i].kind)>>
        stop == IF d.stop # "none" THEN d.stop
                ELSE IF PartsOf(d.parts, "call") # <<>> THEN "tool_use" ELSE "end_turn"
    IN  <<MessageEvent("message_start", 0, "none")>>
        \o FlattenSeq([i \in DOMAIN d.parts |-> block(i)])
        \o <<MessageEvent("message_delta", 0, stop), MessageEvent("message_stop", 0, "none")>>

-----------------------------------------------------------------------------
(* The steps                                                                 *)

Nobody == [form |-> "none", data |-> <<>>]
NoAudit == [text |-> <<>>, thoughts |-> <<>>, calls |-> <<>>]

AnswerInit ==
    /\ origin \in Origins
    /\ asked \in [client : {"openai", "anthropic", "responses"}, streaming : BOOLEAN, seen : {0, 1}]
    \* a continued reply has shown a piece of the text
    /\ asked.seen = 1 => /\ asked.streaming /\ origin.api \in {"chat", "message", "shaped"}
                         /\ Len(PartsOf(origin.data[1].parts, "text")) > 1
    \* only Anthropic clients are served by Anthropic upstreams
    /\ origin.api = "message" => asked.client = "anthropic"
    /\ origin.api = "error" => asked.streaming
    /\ origin.api = "google" /\ Len(origin.data) > 1 => asked.streaming
    /\ taken = 0 /\ google = [called |-> FALSE, terminal |-> FALSE]
    /\ handed = Nobody /\ audit = NoAudit


\* onParsedChunk, on copies of what is forwarded: the calls are kept by their index.
Observed(a, chunks) ==
    LET Note(s, c) == [text |-> s.text \o c.text, thoughts |-> s.thoughts \o c.thoughts,
                       calls |-> s.calls \o c.calls]
    IN  FoldLeft(Note, a, chunks)

ObservedEvents(a, events) ==
    LET Note(s, e) ==
          CASE e.type = "delta" /\ events[3 * e.index + 2].what = "text" ->
                   [s EXCEPT !.text = Append(@, e.what)]
            [] e.type = "delta" /\ events[3 * e.index + 2].what = "call" ->
                   [s EXCEPT !.calls = Append(@, e.what)]
            [] OTHER -> s
    IN  FoldLeft(Note, a, events)

WholeData == Whole(origin.data)

\* The answer as a chat completion: as it is, or made one.
AsChat == CASE origin.api = "google" -> GoogleToChat(WholeData)
            [] origin.api = "shaped" -> Coerced(WholeData)
            [] OTHER -> Completion(WholeData, WholeData.stop)

Handed(form, data) == handed' = [form |-> form, data |-> data]

\* The answer to a request without stream: a message for an Anthropic client, unless a call
\* cannot be parsed, which ends the attempt; for others as it is, or a response made of it.
AnswerWhole ==
    /\ ~asked.streaming /\ origin.api \in {"chat", "google", "message", "shaped"}
    /\ handed = Nobody
    /\ taken' = Len(origin.data)
    /\ CASE asked.client = "anthropic" /\ origin.api = "shaped" ->
                Handed("message", ShapedToMessage(WholeData))
         [] asked.client = "anthropic" /\ origin.api # "message" ->
                IF \E i \in DOMAIN AsChat.calls : AsChat.calls[i] \in Unparsed
                THEN Handed("error", <<>>) ELSE Handed("message", ChatToMessage(AsChat))
         [] asked.client = "responses" ->
                Handed("response", IF origin.api = "shaped" THEN ShapedToResponse(WholeData)
                                   ELSE ChatToResponse(AsChat))
         [] asked.client = "openai" /\ origin.api # "shaped" -> Handed("completion", AsChat)
         [] OTHER -> Handed("original", WholeData)
    /\ UNCHANGED <<asked, origin, google, audit>>

\* JSON where a stream was asked for: an error ends the attempt, an answer becomes a stream in
\* the client's protocol, which the executor reads.
AnswerWrapped ==
    /\ asked.streaming /\ origin.api \in {"chat", "message", "shaped", "error"}
    /\ handed = Nobody
    /\ taken' = Len(origin.data)
    /\ CASE origin.api = "error" -> Handed("error", <<>>)
         [] origin.api # "chat" /\ asked.client = "anthropic" ->
                Handed("wrapped events", FakeEvents(WholeData))
         [] OTHER -> Handed("wrapped", FakeChunks(AsChat, 0))
    /\ UNCHANGED <<asked, origin, google, audit>>

\* restoreFakeStreamIfNeeded: the stream is made again, of the data as it came; that is forwarded.
FakeRestored ==
    /\ \/ /\ handed.form = "wrapped events"
          /\ Handed("events", FakeEvents(WholeData))
          /\ audit' = ObservedEvents(audit, FakeEvents(WholeData))
       \/ /\ handed.form = "wrapped"
          /\ LET chunks == FakeChunks(IF origin.api = "shaped" THEN Printed(WholeData) ELSE AsChat,
                                      asked.seen)
             IN  Handed("chunks", chunks) /\ audit' = Observed(audit, chunks)
    /\ UNCHANGED <<asked, origin, taken, google>>

\* A piece of data of a stream of Google.
GoogleData ==
    /\ asked.streaming /\ origin.api = "google" /\ taken < Len(origin.data)
    /\ taken' = taken + 1
    /\ LET d == origin.data[taken']
           called == google.called \/ PartsOf(d.parts, "call") # <<>>
           chunks == GoogleChunks(d, called)
       IN  /\ Handed("open", handed.data \o chunks)
           /\ audit' = Observed(audit, chunks)
           /\ google' = [called |-> called,
                         terminal |-> google.terminal \/ GoogleFinish(d.stop, called) # "none"
                                                      \/ d.usage]
    /\ UNCHANGED <<asked, origin>>

\* The stream of Google ends: buildOpenAITerminalChunk, unless an end has been written.
GoogleEnd ==
    /\ asked.streaming /\ origin.api = "google" /\ taken = Len(origin.data)
    /\ handed.form = "open"
    /\ LET finish == IF google.called THEN "tool_calls" ELSE "stop"
       IN  Handed("chunks", IF google.terminal THEN handed.data
                            ELSE Append(handed.data, [ChatChunk EXCEPT !.finish = finish]))
    /\ google' = [google EXCEPT !.terminal = TRUE]
    /\ UNCHANGED <<asked, origin, taken, audit>>

\* checkAndServeCachedResponse: the text of an earlier answer, with its thoughts in tags.
ServeCached ==
    /\ origin.api = "cache" /\ handed = Nobody
    /\ taken' = Len(origin.data)
    /\ LET c == Completion(WholeData, "stop")
           hit == [c EXCEPT !.thoughts = c.tagged, !.tagged = <<>>, !.usage = TRUE]
           some(field, ids) == IF ids = <<>> THEN <<>> ELSE <<[ChatChunk EXCEPT ![field] = ids]>>
       IN  IF asked.streaming
           THEN Handed("chunks", some("thoughts", hit.thoughts) \o some("text", hit.text)
                                 \o <<[ChatChunk EXCEPT !.finish = "stop", !.usage = TRUE]>>)
           ELSE IF asked.client = "responses" THEN Handed("response", ChatToResponse(hit))
           ELSE Handed("completion", hit)
    /\ UNCHANGED <<asked, origin, google, audit>>

AnswerOver ==
    handed.form \notin {"none", "open", "wrapped", "wrapped events"} /\ UNCHANGED answerVars

AnswerNext ==
    AnswerOver \/ AnswerWhole \/ AnswerWrapped \/ FakeRestored \/ GoogleData \/ GoogleEnd \/ ServeCached

AnswerSpec == AnswerInit /\ [][AnswerNext]_answerVars

-----------------------------------------------------------------------------
(* What the client reads                                                       *)

ReadBlocks(blocks, k) ==
    FlattenSeq([i \in DOMAIN blocks |-> IF blocks[i].kind = k THEN blocks[i].ids ELSE <<>>])

ReadDeltas(events, k) ==
    LET q == SelectSeq(events, LAMBDA e : e.type = "delta" /\ events[3 * e.index + 2].what = k)
    IN  [i \in DOMAIN q |-> q[i].what]

Reading(text, thoughts, calls, end) ==
    [text |-> text, thoughts |-> thoughts, calls |-> calls, end |-> end]

EndMeant(stop) ==
    CASE stop \in {"length", "max_tokens", "MAX_TOKENS", "incomplete"} -> "cut"
      [] stop \in {"tool_calls", "tool_use"} -> "tools"
      [] stop \in {"content_filter", "SAFETY"} -> "refused"
      [] OTHER -> "done"

\* A stream ends once, and nothing but usage follows.
EndsOnce(chunks) ==
    \E i \in DOMAIN chunks :
        /\ chunks[i].finish # "none"
        /\ \A j \in DOMAIN chunks : j < i => chunks[j].finish = "none"
        /\ \A j \in DOMAIN chunks : j > i => chunks[j] = [ChatChunk EXCEPT !.usage = TRUE]

FinishOf(chunks) ==
    (CHOOSE c \in {chunks[i] : i \in DOMAIN chunks} : c.finish # "none").finish

Understood ==
    LET d == handed.data
    IN  CASE handed.form = "completion" ->
                 Reading(Content(d), d.thoughts, d.calls, EndMeant(d.finish))
          [] handed.form = "original" ->
                 Reading(PartsOf(d.parts, "text"), PartsOf(d.parts, "thought"), PartsOf(d.parts, "call"),
                         EndMeant(d.stop))
          [] handed.form = "message" ->
                 Reading(ReadBlocks(d.blocks, "text"), ReadBlocks(d.blocks, "thought"),
                         ReadBlocks(d.blocks, "call"), EndMeant(d.stop))
          [] handed.form = "response" ->
                 Reading(ReadBlocks(d.items, "text"), ReadBlocks(d.items, "thought"),
                         ReadBlocks(d.items, "call"), EndMeant(d.status))
          [] handed.form \in {"wrapped events", "events"} ->
                 Reading(ReadDeltas(d, "text"), ReadDeltas(d, "thought"), ReadDeltas(d, "call"),
                         EndMeant(d[Len(d) - 1].what))
          [] handed.form \in {"wrapped", "chunks"} ->
                 LET all(field) == FlattenSeq([i \in DOMAIN d |-> d[i][field]])
                 IN  Reading(all("text"), all("thoughts"), all("calls"), EndMeant(FinishOf(d)))

\* What the upstream meant: tags mark thoughts in what becomes a stream.  Google has no reason of
\* its own for a call.
Meant ==
    LET d == WholeData
        tags == PartsOf(d.parts, "tagged")
        kept == origin.api = "chat" /\ ~asked.streaming
    IN  Reading((IF kept THEN tags ELSE <<>>) \o PartsOf(d.parts, "text"),
                (IF kept THEN <<>> ELSE tags) \o PartsOf(d.parts, "thought"), PartsOf(d.parts, "call"),
                IF origin.api = "google" /\ PartsOf(d.parts, "call") # <<>> THEN "tools"
                ELSE EndMeant(d.stop))

-----------------------------------------------------------------------------
(* What must hold                                                            *)

\* What a client is told of it.  Only a chat completion says that the model refused; a response
\* shows by its items that it waits for tools; a message has no thoughts of a chat completion.
\* Of a body in the shape of a message only the text is sure to arrive: as a message it does
\* not say why it ended, as a response that is all there is of it, and as a stream of chunks a cut
\* one with calls asks for tools.
Told(m) ==
    CASE handed.form = "message" /\ origin.api = "shaped" -> [m EXCEPT !.end = "done"]
      [] handed.form = "response" /\ origin.api = "shaped" -> Reading(m.text, <<>>, <<>>, "done")
      [] handed.form = "wrapped" /\ origin.api = "shaped" /\ m.calls # <<>> -> [m EXCEPT !.end = "tools"]
      [] handed.form = "message" ->
             [m EXCEPT !.thoughts = <<>>, !.end = IF @ = "refused" THEN "done" ELSE @]
      [] handed.form = "response" -> [m EXCEPT !.end = IF @ \in {"refused", "tools"} THEN "done" ELSE @]
      [] OTHER -> m

\* A body without choices says nothing to a client of chat completions: one handed on as it came,
\* or printed in the chunks that the executor makes of it (the matter of MessageReadable).
Illegible ==
    origin.api = "shaped" /\ asked.client # "anthropic" /\ handed.form \in {"original", "chunks"}

\* A good answer that fails: its calls cannot be made blocks of a message.
Refused == asked.client = "anthropic" /\ ~asked.streaming /\ ToSet(Meant.calls) \cap Unparsed # {}

\* Calls in the last piece of data, so that the end that each later piece repeats is one.
CallsLast == \A i \in 1..(Len(origin.data) - 1) : PartsOf(origin.data[i].parts, "call") = <<>>

\* The text a client reads is the upstream's: chunks leave out what the client was shown.
\* In a stream made of JSON, words are dropped for calls, and thoughts without words are shown.
TextKept(u, m, made, seen) ==
    CASE made /\ m.calls # <<>> -> u.text = <<>>
      [] made /\ m.calls = <<>> /\ Unseen(m.text, seen) = <<>> -> u.text = m.thoughts
      [] OTHER -> SubSeq(m.text, 1, seen) \o u.text = m.text

\* What a client gets, or what the executor reads of it, says what the upstream said: its calls in
\* their order, its text, its thoughts and why it ended, but for what Told and Illegible name;
\* chunks end once, and the audit has what a stream brought.  An error is never an answer, and
\* an answer an error only when its calls cannot be parsed
\* (executeUpstreamFetch, coerceToOpenAICompletionShape, createFakeStreamFromData,
\* googleChunkToOpenAIChunks, googleNativeStreamToOpenAIStream, adaptChatResponseToResponses,
\* StreamAuditObserver, checkAndServeCachedResponse).
AnswerKept ==
    /\ handed.form = "error" => origin.api = "error" \/ Refused
    /\ handed.form \notin {"none", "open", "error"} /\ ~Illegible =>
          LET u == Understood
              m == Told(Meant)
              forwarded == handed.form \in {"chunks", "events"}
          IN  /\ origin.api # "error"
              /\ u.calls = m.calls
              /\ TextKept(u, m, handed.form \in {"wrapped", "chunks"} /\ origin.api \in {"chat", "shaped"},
                          IF handed.form = "chunks" THEN asked.seen ELSE 0)
              /\ u.thoughts = m.thoughts
              /\ u.end = m.end
              /\ handed.form \in {"wrapped", "chunks"} /\ CallsLast => EndsOnce(handed.data)
              /\ forwarded /\ origin.api # "cache" =>
                     audit.text = u.text /\ audit.calls = u.calls

\* "coerces Anthropic-shaped JSON (no choices) into OpenAI completion before fake stream"
\* (openaiFakeStreamProtocol.test.ts): a chat client reads the text of a message, not its JSON.
MessageReadable ==
    handed.form = "chunks" /\ origin.api = "shaped" => Understood.text # <<Json>>

=============================================================================
