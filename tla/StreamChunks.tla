--------------------------- MODULE StreamChunks ---------------------------
(***************************************************************************)
(* The chunks an OpenAI-compatible upstream sends and the record of tool    *)
(* calls that both adapted forwarders keep (activeToolCalls).               *)
(*                                                                         *)
(* A piece of text, of reasoning or of tool arguments has no content: what  *)
(* matters is how many pieces went where.                                   *)
(***************************************************************************)
EXTENDS Naturals, Sequences, SequencesExt

CONSTANTS
    LastIndex,      \* tool_calls[].index is 0..LastIndex
    MaxCalls        \* tool calls of one reply are 1..MaxCalls

ASSUME ChunkAssumption == LastIndex \in Nat /\ MaxCalls \in Nat

Indices == 0..LastIndex
Calls == 1..MaxCalls

\* the keys of activeToolCalls in the order in which for...in visits them
IndexOrder == [k \in 1..(LastIndex + 1) |-> k - 1]

\* one element of delta.tool_calls: which call it is of, and whether it says the
\* call's id and name and brings a piece of its arguments
ToolDelta(index, call, id, name, args) ==
    [index |-> index, call |-> call, id |-> id, name |-> name, args |-> args]

\* one chunk: delta.reasoning_content, delta.content, delta.tool_calls,
\* finish_reason, usage; done is the [DONE] line
Blank == [reasoning |-> FALSE, text |-> FALSE, tools |-> <<>>, finish |-> "none",
          usage |-> FALSE, done |-> FALSE]

\* an entry of activeToolCalls: id and name of the call, whether its block or
\* item has been announced, under which index, and whether it has been ended
NoSlot == [seen |-> FALSE, call |-> 0, named |-> FALSE, emitted |-> FALSE, closed |-> FALSE,
           at |-> 0, args |-> 0]
\* call 0: an id that the gateway made up
NewSlot(d) == [NoSlot EXCEPT !.seen = TRUE, !.call = IF d.id THEN d.call ELSE 0]
NoTools == [i \in Indices |-> NoSlot]

IsOpen(slot) == slot.emitted /\ ~slot.closed

\* !existingTool || isNewToolAtSameIndex
StartsNew(slot, d) ==
    ~slot.seen \/ slot.closed \/ (d.id /\ d.call # slot.call)

-----------------------------------------------------------------------------
(* What a client may be sent: one message of its protocol.  A parser state   *)
(* p goes over the events of the wire; p.ok says that all of them were in    *)
(* their place so far, p.ended that the client has been told the end.        *)

Parser == [ok |-> TRUE, begun |-> FALSE, ended |-> FALSE, closing |-> FALSE, next |-> 0,
           open |-> {}, done |-> <<>>, seq |-> 0, finish |-> FALSE]

Expect(p, condition) == [p EXCEPT !.ok = @ /\ condition /\ ~p.ended]

\* Anthropic: blocks with indices 0, 1, ..., one at a time, inside one message
AnthropicNext(p, e) ==
    CASE e.type = "message_start" -> [Expect(p, ~p.begun) EXCEPT !.begun = TRUE]
      [] e.type = "block_start" ->
            [Expect(p, p.begun /\ p.open = {} /\ ~p.closing /\ e.index = p.next)
                EXCEPT !.open = {e.index}, !.next = @ + 1]
      [] e.type = "delta" -> Expect(p, e.index \in p.open)
      [] e.type = "block_stop" -> [Expect(p, e.index \in p.open) EXCEPT !.open = {}]
      [] e.type = "message_delta" ->
            [Expect(p, p.begun /\ p.open = {} /\ ~p.closing) EXCEPT !.closing = TRUE]
      [] e.type = "message_stop" -> [Expect(p, p.closing) EXCEPT !.ended = TRUE]
      [] e.type = "error" -> [Expect(p, TRUE) EXCEPT !.ended = TRUE]

\* Responses: output items with indices 0, 1, ..., each done before the response
\* is completed, and all of them listed there; numbered events.  An executor that
\* fails a response whose state it does not hold tells it as a response of its own.
ResponsesNext(p, e) ==
    LET numbered == [Expect(p, e.seq = p.seq) EXCEPT !.seq = @ + 1]
    IN  CASE e.type = "created" -> [Expect(numbered, ~p.begun) EXCEPT !.begun = TRUE]
          [] e.type = "added" ->
                [Expect(numbered, p.begun /\ e.index = p.next)
                    EXCEPT !.open = @ \cup {e.index}, !.next = @ + 1]
          [] e.type = "delta" -> Expect(numbered, e.index \in p.open)
          [] e.type = "done" ->
                [Expect(numbered, e.index \in p.open)
                    EXCEPT !.open = @ \ {e.index}, !.done = Append(@, e.index)]
          [] e.type = "completed" ->
                [Expect(numbered, p.begun /\ p.open = {} /\ e.items = p.done /\ p.done # <<>>)
                    EXCEPT !.ended = TRUE]
          [] e.type = "failed" /\ e.kind = "" -> [Expect(numbered, p.begun) EXCEPT !.ended = TRUE]
          [] e.type = "failed" /\ e.kind = "fresh" -> [Expect(p, e.seq = 0) EXCEPT !.ended = TRUE]

\* OpenAI: content, then one finish reason, then usage, then [DONE]
OpenAINext(p, e) ==
    CASE e.type = "error" -> [Expect(p, TRUE) EXCEPT !.ended = TRUE]
      [] e.type = "fallback" -> Expect(p, ~p.finish)
      [] e.type = "chunk" /\ e.chunk.done -> [Expect(p, p.finish) EXCEPT !.ended = TRUE]
      [] e.type = "chunk" /\ ~e.chunk.done ->
            [Expect(p, p.finish => e.chunk.finish = "none" /\ ~e.chunk.text
                                   /\ ~e.chunk.reasoning /\ e.chunk.tools = <<>>)
                EXCEPT !.finish = @ \/ e.chunk.finish # "none"]

Parse(protocol, wire) ==
    CASE protocol = "anthropic" -> FoldLeft(AnthropicNext, Parser, wire)
      [] protocol = "responses" -> FoldLeft(ResponsesNext, Parser, wire)
      [] protocol = "openai" -> FoldLeft(OpenAINext, Parser, wire)

-----------------------------------------------------------------------------

\* some part of an answer, be it the name of a tool
AnswerSeen(protocol, wire) ==
    \E i \in 1..Len(wire) :
        IF protocol = "openai"
        THEN wire[i].type = "chunk" /\ (wire[i].chunk.text \/ wire[i].chunk.tools # <<>>)
        ELSE wire[i].type # "failed" /\ wire[i].kind \in {"text", "tool"}

\* the pieces that the events of a wire carry, as Pieces counts them in one event
Total(Pieces(_), wire) == FoldLeft(LAMBDA n, e : n + Pieces(e), 0, wire)

\* pieces of text
TextSent(protocol, wire) ==
    IF protocol = "openai"
    THEN Total(LAMBDA e : IF e.type = "chunk" /\ e.chunk.text THEN 1 ELSE 0, wire)
    ELSE Total(LAMBDA e : IF e.type = "delta" /\ e.kind = "text" THEN e.pieces ELSE 0, wire)

\* pieces of arguments of a call
ArgsSent(protocol, call, wire) ==
    IF protocol = "openai"
    THEN Total(LAMBDA e : IF e.type # "chunk" THEN 0
                          ELSE Len(SelectSeq(e.chunk.tools, LAMBDA d : d.call = call /\ d.args)), wire)
    ELSE Total(LAMBDA e : IF e.type = "delta" /\ e.call = call THEN e.pieces ELSE 0, wire)

\* chunks with usage that an OpenAI client has got
UsageSent(wire) == Total(LAMBDA e : IF e.type = "chunk" /\ e.chunk.usage THEN 1 ELSE 0, wire)

=============================================================================
