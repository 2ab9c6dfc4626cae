-------------------------- MODULE AnthropicStream --------------------------
(***************************************************************************)
(* forwardSSEStreamAdapted: an OpenAI stream sent on as one Anthropic       *)
(* message, and the close that the executor writes when the forwarder did   *)
(* not (finalizeGatewayStreamEvents).  Every operator maps the state s of    *)
(* the forwarder to its next state; s.wire is what the client has been sent.*)
(***************************************************************************)
EXTENDS StreamChunks

\* message_start, block_start, delta, block_stop, message_delta, message_stop, error
AEvent(type, index, kind, call) ==
    [type |-> type, index |-> index, kind |-> kind, call |-> call, pieces |-> 1]

\* hasMeaningfulOutputEvent, hasVisibleAnswerEvent: an adapted stream has no thinking
AShows(e) == e.type = "delta" \/ (e.type = "block_start" /\ e.kind = "tool")

\* reply.raw.write
ARaw(s, e) == [s EXCEPT !.wire = Append(@, e)]

\* downstream.write
AWrite(s, e) ==
    IF s.skip THEN s
    ELSE [ARaw(s, e) EXCEPT !.meaningful = @ \/ AShows(e), !.visible = @ \/ AShows(e)]

\* anthropicState: what outlives a round
AEnvelope == [block |-> 0, inText |-> FALSE, tools |-> NoTools]

\* the forwarder's locals at the start of an attempt
ABegin(s) ==
    LET fresh == [s EXCEPT !.skip = FALSE, !.cut = FALSE, !.meaningful = FALSE,
                           !.visible = FALSE, !.withheld = FALSE, !.env = s.saved]
    IN  IF s.started \/ s.stitching THEN fresh
        ELSE [AWrite(fresh, AEvent("message_start", 0, "", 0)) EXCEPT !.started = TRUE]

-----------------------------------------------------------------------------

StopBlock(s, index) == AWrite(s, AEvent("block_stop", index, "", 0))

\* Mutant: the text block keeps its index, which the next block takes again.
LeaveTextSameIndex(s) ==
    IF ~s.env.inText THEN s
    ELSE [StopBlock(s, s.env.block) EXCEPT !.env.inText = FALSE]

\* leave the text block; the next block has the next index
LeaveText(s) ==
    IF ~s.env.inText THEN s
    ELSE [StopBlock(s, s.env.block) EXCEPT !.env.inText = FALSE, !.env.block = @ + 1]

StopTool(s, i) ==
    IF ~IsOpen(s.env.tools[i]) THEN s
    ELSE [StopBlock(s, s.env.tools[i].at) EXCEPT !.env.tools[i].closed = TRUE]

StopTools(s, which) ==
    FoldLeft(LAMBDA acc, i : IF i \in which THEN StopTool(acc, i) ELSE acc, s, IndexOrder)

\* emitDeltaText
AEmitText(s) ==
    LET opened == IF s.env.inText THEN s
                  ELSE [AWrite(StopTools(s, Indices), AEvent("block_start", s.env.block, "text", 0))
                            EXCEPT !.env.inText = TRUE]
    IN  [AWrite(opened, AEvent("delta", s.env.block, "text", 0)) EXCEPT !.meaningful = TRUE]

\* a new call takes the place of whatever was at its index, and ends what came before it
AReplace(s, d) ==
    IF ~StartsNew(s.env.tools[d.index], d) THEN s
    ELSE [StopTools(StopTool(LeaveText(s), d.index), 0..(d.index - 1))
              EXCEPT !.env.tools[d.index] = NewSlot(d)]

\* content_block_start of a tool, as soon as its name is known
AAnnounce(s, d) ==
    LET named == [s EXCEPT !.env.tools[d.index].named = @ \/ d.name]
        slot == named.env.tools[d.index]
        left == LeaveText(named)
    IN  IF slot.emitted \/ ~slot.named THEN named
        ELSE [AWrite(left, AEvent("block_start", left.env.block, "tool", slot.call))
                  EXCEPT !.env.tools[d.index] = [slot EXCEPT !.emitted = TRUE,
                                                             !.at = left.env.block],
                         !.env.block = @ + 1]

\* arguments of a call that has not been announced go nowhere
AArguments(s, d) ==
    LET slot == s.env.tools[d.index]
    IN  IF ~(d.args /\ slot.emitted) THEN s
        ELSE [AWrite(s, AEvent("delta", slot.at, "tool", slot.call)) EXCEPT !.meaningful = TRUE]

\* emitToolCallsDelta
AEmitTools(s, tools) ==
    FoldLeft(LAMBDA acc, d : AArguments(AAnnounce(AReplace(acc, d), d), d), s, tools)

\* Mutant: what comes with the cutoff is skipped too.
AChunkSkipFirst(s, c) ==
    LET cut == [s EXCEPT !.cut = @ \/ c.finish = "length", !.skip = @ \/ c.finish = "length"]
    IN  AEmitTools(IF c.text THEN AEmitText(cut) ELSE cut, c.tools)

\* one chunk: text and tool calls in the order that keeps an open tool block whole
AChunk(s, c) ==
    LET cut == [s EXCEPT !.cut = @ \/ c.finish = "length"]
        Text(t) == IF c.text THEN AEmitText(t) ELSE t
        toolsFirst == ~s.env.inText /\ \E i \in Indices : IsOpen(s.env.tools[i])
        told == IF toolsFirst THEN Text(AEmitTools(cut, c.tools))
                ELSE AEmitTools(Text(cut), c.tools)
    IN  [told EXCEPT !.skip = @ \/ c.finish = "length"]

-----------------------------------------------------------------------------

\* message_delta and message_stop
AStop(s, reason) ==
    ARaw(ARaw(s, AEvent("message_delta", 0, reason, 0)), AEvent("message_stop", 0, "", 0))

AReason(s) == IF \E i \in Indices : s.env.tools[i].seen THEN "tool_use" ELSE "end_turn"

\* the end of the stream: hold an empty close, write the close, or leave it to
\* the executor after a length cutoff; the envelope is returned to the executor
ADone(s) ==
    LET noTools == \A i \in Indices : ~s.env.tools[i].seen
        stopText == IF s.env.inText THEN StopBlock(s, s.env.block) ELSE s
        ended == IF ~s.cut /\ noTools /\ ~s.visible THEN [s EXCEPT !.withheld = TRUE]
                 ELSE IF ~s.cut /\ (~s.stitching \/ s.last \/ s.visible)
                 THEN AStop(StopTools(stopText, Indices), AReason(s))
                 ELSE s
    IN  [ended EXCEPT !.saved = ended.env]

\* a terminal error inside the stream, and a failure of the stream itself: the
\* client is told only if it has seen something
AError(s) ==
    IF s.meaningful THEN [AWrite(s, AEvent("error", 0, "", 0)) EXCEPT !.sent = TRUE] ELSE s

\* writeAnthropicEmptyClose
AEmptyClose(s, reason, fallback) ==
    LET opened == IF s.started THEN s
                  ELSE [ARaw(s, AEvent("message_start", 0, "", 0)) EXCEPT !.started = TRUE]
        b == s.saved.block
        told == IF ~fallback THEN opened
                ELSE ARaw(ARaw(ARaw(opened, AEvent("block_start", b, "text", 0)),
                               AEvent("delta", b, "fallback", 0)),
                          AEvent("block_stop", b, "", 0))
    IN  AStop(told, reason)

\* finalizeGatewayStreamEvents for an adapted Anthropic stream
AFinish(s, fallback) ==
    LET open == [s EXCEPT !.skip = FALSE]   \* reply.raw.write, not the forwarder's
        tools == StopTools(open, Indices)
        text == LeaveText(tools)
        closed == [text EXCEPT !.saved = text.env]
    IN  IF s.cut THEN AEmptyClose(closed, "max_tokens", fallback)
        ELSE IF s.withheld THEN AEmptyClose(s, "end_turn", fallback)
        ELSE s
=============================================================================
