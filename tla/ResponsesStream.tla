-------------------------- MODULE ResponsesStream --------------------------
(***************************************************************************)
(* forwardSSEStreamResponsesAdapted: an OpenAI stream sent on as one         *)
(* Responses API stream, and its close by forwarder or executor              *)
(* (finalizeResponsesStreamClose).  As in AnthropicStream every operator     *)
(* maps the state s of the forwarder to its next state; s.env is the         *)
(* ResponsesStreamState, which outlives attempts and rounds.                 *)
(*                                                                         *)
(* One event of s.wire stands for the group of events that the code writes  *)
(* together: added with its part, the three kinds of done with the item.     *)
(***************************************************************************)
EXTENDS StreamChunks

CONSTANT CustomCalls    \* calls of a tool that the client declared as custom

ASSUME CustomAssumption == CustomCalls \subseteq Nat

\* created, added, delta, done, completed, failed; items: response.output
REvent(type, at, kind, call, pieces) ==
    [type |-> type, index |-> at, kind |-> kind, call |-> call, pieces |-> pieces,
     seq |-> 0, items |-> <<>>]

\* an output item of text or of reasoning that is being written
NoItem == [open |-> FALSE, at |-> 0, pieces |-> 0]

\* createInitialResponsesStreamState
REnvelope == [created |-> FALSE, seq |-> 0, next |-> 0, reasoning |-> NoItem,
              message |-> NoItem, tools |-> NoTools, items |-> <<>>, completed |-> FALSE]

\* formatResponsesSseEvent and writeRaw: an event that is skipped has a number too
RWrite(s, e) ==
    LET numbered == [s EXCEPT !.env.seq = @ + 1]
    IN  IF s.skip THEN numbered
        ELSE [numbered EXCEPT !.wire = Append(@, [e EXCEPT !.seq = s.env.seq])]

\* the forwarder's locals at the start of an attempt
RBegin(s) ==
    [s EXCEPT !.skip = FALSE, !.cut = FALSE, !.meaningful = FALSE, !.visible = FALSE,
              !.withheld = FALSE]

\* Mutant: a tool call or text does not count as visible.
RShownAsReasoning(s) == [s EXCEPT !.meaningful = TRUE]

RShown(s) == [s EXCEPT !.meaningful = TRUE, !.visible = TRUE]

-----------------------------------------------------------------------------

\* ensureCreatedOnState
RCreated(s) ==
    IF s.env.created THEN s
    ELSE [RWrite(s, REvent("created", 0, "", 0, 0)) EXCEPT !.env.created = TRUE]

\* one item is done and joins the output
RItemDone(s, at, kind, call, pieces) ==
    [RWrite(s, REvent("done", at, kind, call, pieces)) EXCEPT !.env.items = Append(@, at)]

\* closeOpenReasoningOnState
RCloseReasoning(s) ==
    LET r == s.env.reasoning
    IN  IF ~r.open THEN s
        ELSE [RItemDone(s, r.at, "reasoning", 0, r.pieces) EXCEPT !.env.reasoning.open = FALSE]

\* closeOpenMessageOnState
RCloseMessage(s) ==
    LET m == s.env.message
    IN  IF ~m.open THEN s
        ELSE [RItemDone(s, m.at, "text", 0, m.pieces) EXCEPT !.env.message.open = FALSE]

\* closeToolCallOnState: the input of a custom tool is sent when it is complete
RCloseTool(s, i) ==
    LET tool == s.env.tools[i]
        told == IF tool.call \in CustomCalls /\ tool.args > 0
                THEN RWrite(s, REvent("delta", tool.at, "tool", tool.call, tool.args))
                ELSE s
    IN  IF ~IsOpen(tool) THEN s
        ELSE [RItemDone(told, tool.at, "tool", tool.call, tool.args)
                  EXCEPT !.env.tools[i].closed = TRUE]

RCloseTools(s, which) ==
    FoldLeft(LAMBDA acc, i : IF i \in which THEN RCloseTool(acc, i) ELSE acc, s, IndexOrder)

\* emitTextOnState; kind: text of the upstream or the gateway's fallback
REmitText(s, kind) ==
    LET ready == RCloseTools(RCloseReasoning(RCreated(s)), Indices)
        at == ready.env.next
        opened == IF ready.env.message.open THEN ready
                  ELSE [RWrite(ready, REvent("added", at, "text", 0, 0))
                            EXCEPT !.env.next = @ + 1,
                                   !.env.message = [NoItem EXCEPT !.open = TRUE, !.at = at]]
        more == [opened EXCEPT !.env.message.pieces = @ + 1]
    IN  RWrite(more, REvent("delta", more.env.message.at, kind, 0, 1))

\* a delta of reasoning: whatever else is open stays open
REmitReasoning(s) ==
    LET ready == RCreated(s)
        at == ready.env.next
        opened == IF ready.env.reasoning.open THEN ready
                  ELSE [RWrite(ready, REvent("added", at, "reasoning", 0, 0))
                            EXCEPT !.env.next = @ + 1,
                                   !.env.reasoning = [NoItem EXCEPT !.open = TRUE, !.at = at]]
        more == [opened EXCEPT !.env.reasoning.pieces = @ + 1, !.meaningful = TRUE]
    IN  RWrite(more, REvent("delta", more.env.reasoning.at, "reasoning", 0, 1))

-----------------------------------------------------------------------------

\* a new call takes the place of whatever was at its index
RReplace(s, d) ==
    IF ~StartsNew(s.env.tools[d.index], d) THEN s
    ELSE [RCloseTools(RCloseTool(s, d.index), 0..(d.index - 1))
              EXCEPT !.env.tools[d.index] = NewSlot(d)]

\* response.output_item.added of a tool, as soon as its name is known
RAnnounce(s, d) ==
    LET slot == [s.env.tools[d.index] EXCEPT !.named = @ \/ d.name]
        shown == [slot EXCEPT !.emitted = TRUE, !.at = s.env.next]
        known == [s EXCEPT !.env.tools[d.index] = slot]
    IN  IF slot.emitted \/ ~slot.named THEN known
        ELSE RShown([RWrite(known, REvent("added", s.env.next, "tool", slot.call, 0))
                         EXCEPT !.env.tools[d.index] = shown, !.env.next = @ + 1])

\* arguments are kept from the first, sent once the call is announced
RArguments(s, d) ==
    LET more == [s EXCEPT !.env.tools[d.index].args = @ + 1]
        slot == more.env.tools[d.index]
    IN  IF ~d.args THEN s
        ELSE IF slot.emitted /\ slot.call \notin CustomCalls
        THEN RShown(RWrite(more, REvent("delta", slot.at, "tool", slot.call, 1)))
        ELSE more

\* emitToolCalls: every element, of a new call or not, ends reasoning and text
REmitTools(s, tools) ==
    FoldLeft(LAMBDA acc, d :
                 RArguments(RAnnounce(RReplace(RCloseMessage(RCloseReasoning(RCreated(acc))), d), d), d),
             s, tools)

\* one chunk: reasoning, then text and tool calls
RChunk(s, c) ==
    LET cut == [s EXCEPT !.cut = @ \/ c.finish = "length"]
        thought == IF c.reasoning THEN REmitReasoning(cut) ELSE cut
        Text(t) == IF c.text THEN RShown(REmitText(t, "text")) ELSE t
        toolsFirst == ~thought.env.message.open /\ \E i \in Indices : IsOpen(thought.env.tools[i])
        told == IF toolsFirst THEN Text(REmitTools(thought, c.tools))
                ELSE REmitTools(Text(thought), c.tools)
    IN  [told EXCEPT !.skip = @ \/ c.finish = "length"]

-----------------------------------------------------------------------------

\* finalizeResponsesStreamClose: an output without items gets an empty message
RFinalize(s, fallback) ==
    LET ready == RCreated(s)
        told == IF fallback /\ ready.env.message.pieces = 0 THEN REmitText(ready, "fallback") ELSE ready
        shut == RCloseMessage(RCloseTools(RCloseReasoning(told), Indices))
        at == shut.env.next
        full == IF shut.env.items # <<>> THEN shut
                ELSE RItemDone([RWrite(shut, REvent("added", at, "text", 0, 0))
                                    EXCEPT !.env.next = @ + 1], at, "text", 0, 0)
    IN  IF s.env.completed THEN s
        ELSE [RWrite(full, [REvent("completed", 0, "", 0, 0) EXCEPT !.items = full.env.items])
                  EXCEPT !.env.completed = TRUE]

\* the end of the stream
RDone(s) ==
    LET noTools == \A i \in Indices : ~s.env.tools[i].seen
    IN  IF ~s.cut /\ noTools /\ ~s.visible THEN [s EXCEPT !.withheld = TRUE]
        ELSE IF ~s.cut /\ (~s.stitching \/ s.last \/ s.visible)
        THEN RFinalize([s EXCEPT !.skip = FALSE], FALSE)
        ELSE s

\* formatResponsesStreamErrorEvents of the response that has been begun
RTellError(s) ==
    [RWrite(s, [REvent("failed", 0, "", 0, 0) EXCEPT !.items = s.env.items]) EXCEPT !.sent = TRUE]

\* a terminal error inside the stream is told as the rest is, a failure of the
\* stream itself even after a cutoff
RError(s) == IF s.meaningful THEN RTellError(s) ELSE s
RFailure(s) == IF s.meaningful THEN RTellError([s EXCEPT !.skip = FALSE]) ELSE s

\* finalizeGatewayStreamEvents of a Responses request
RFinish(s, fallback) == RFinalize([s EXCEPT !.skip = FALSE], s.withheld /\ fallback)
=============================================================================
