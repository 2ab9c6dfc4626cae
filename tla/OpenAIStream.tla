---------------------------- MODULE OpenAIStream ----------------------------
(***************************************************************************)
(* forwardSSEStreamTransparent for an OpenAI client: every event of the      *)
(* upstream is sent on, except what would end the reply too early: an empty  *)
(* stop or [DONE], a length cutoff, usage that comes before the cutoff is    *)
(* known.  The executor adds what was held back.                            *)
(***************************************************************************)
EXTENDS StreamChunks

OEvent(c) == [type |-> "chunk", chunk |-> c]
OErrorEvent == [type |-> "error"]

\* data of a chunk that the executor writes itself
OClose(finish) == OEvent([Blank EXCEPT !.finish = finish])
OFallback == [type |-> "fallback"]
OUsage == OEvent([Blank EXCEPT !.usage = TRUE])
ODoneLine == OEvent([Blank EXCEPT !.done = TRUE])

\* terminalReplayState, which outlives attempts and rounds, and insideToolCall;
\* held: the usage events that wait (pendingUsageEvents), a local of an attempt
OEnvelope == [held |-> <<>>, usage |-> FALSE, suppressed |-> <<>>, done |-> FALSE, inTool |-> FALSE]

OSemantic(c) == c.reasoning \/ c.text \/ c.tools # <<>>

\* isTransparentNoStitch: s.plain says that the provider's adapter is the transparent one
OTransparent(s) == s.plain /\ ~s.stitching

\* downstream.write
OWrite(s, e) ==
    [s EXCEPT !.wire = Append(@, e),
              !.meaningful = @ \/ (e.type = "chunk" /\ OSemantic(e.chunk))]

OWriteAll(s, events) == FoldLeft(OWrite, s, events)

\* the forwarder's locals at the start of an attempt
OBegin(s) ==
    [s EXCEPT !.cut = FALSE, !.meaningful = FALSE, !.visible = FALSE, !.withheld = FALSE,
              !.env.held = <<>>]

-----------------------------------------------------------------------------

\* in a stitched round text after a tool call is turned into its arguments
OStitched(s, c) ==
    IF s.stitching /\ s.env.inTool /\ c.text
    THEN [c EXCEPT !.text = FALSE, !.reasoning = FALSE, !.tools = <<ToolDelta(0, 0, FALSE, FALSE, TRUE)>>]
    ELSE c

\* the cutoff is not the client's: its text goes on without finish reason and usage
OSent(c) ==
    IF c.finish = "length" /\ OSemantic(c) THEN [c EXCEPT !.finish = "none", !.usage = FALSE]
    ELSE c

\* shouldWithholdEmptyTerminal
OHolds(s, c) == ~s.visible /\ (c.done \/ c.finish = "stop")

\* an event of usage alone waits until it is known that no cutoff follows
OWaits(c) == c.usage /\ ~OSemantic(c) /\ c.finish = "none"

OFlush(s) ==
    [OWriteAll(s, s.env.held) EXCEPT !.env.usage = @ \/ s.env.held # <<>>, !.env.held = <<>>]

\* a [DONE] that the client may see only at the end of the whole reply is left out
OForward(s, c) ==
    LET flushed == OFlush(s)
    IN  IF ~c.done
        THEN [OWrite(IF s.cut THEN s ELSE flushed, OEvent(OSent(c))) EXCEPT !.env.usage = @ \/ c.usage]
        ELSE IF OTransparent(s) THEN [OWrite(flushed, OEvent(c)) EXCEPT !.env.done = TRUE]
        ELSE flushed

\* what is noted of an event while its lines are read
ONoted(s, given) ==
    [s EXCEPT !.env.inTool = @ \/ given.tools # <<>>,
              !.visible = @ \/ given.text \/ given.tools # <<>>,
              !.cut = @ \/ given.finish = "length",
              !.env.held = IF given.finish = "length" THEN <<>> ELSE @]

\* one event of the upstream
OChunk(s, given) ==
    LET noted == ONoted(s, given)
        c == OStitched(noted, given)
    IN  IF ~noted.cut /\ OHolds(noted, c)
        THEN [noted EXCEPT !.withheld = TRUE,
                           !.env.held = IF c.usage THEN Append(@, OEvent(c)) ELSE @]
        ELSE IF noted.cut /\ (c.done \/ ~OSemantic(c)) THEN noted
        ELSE IF OWaits(c) THEN [noted EXCEPT !.env.held = Append(@, OEvent(c))]
        ELSE OForward(noted, c)

\* the end of the stream: what still waits is sent, or kept for the executor
ODone(s) ==
    IF s.cut \/ s.env.held = <<>> THEN s
    ELSE IF s.withheld /\ ~s.visible
    THEN [s EXCEPT !.env.suppressed = s.env.held, !.env.held = <<>>]
    ELSE OFlush(s)

\* a terminal error or a failure of the stream is told once the client has seen something
OError(s) == IF s.meaningful THEN [OWrite(s, OErrorEvent) EXCEPT !.sent = TRUE] ELSE s

-----------------------------------------------------------------------------

\* finalizeGatewayStreamEvents for an OpenAI client; rounds: rounds that were committed
OFinish(s, fallback, rounds) ==
    LET closed == IF s.cut THEN OWrite(s, OClose("length"))
                  ELSE IF s.withheld
                  THEN OWrite(IF fallback THEN OWrite(s, OFallback) ELSE s, OClose("stop"))
                  ELSE s
        counted == IF rounds > 1 THEN OWrite(closed, OUsage)
                   ELSE IF s.env.suppressed # <<>> THEN OWriteAll(closed, s.env.suppressed)
                   ELSE IF ~s.env.usage THEN OWrite(closed, OUsage)
                   ELSE closed
    IN  IF OTransparent(s) /\ ~s.cut /\ ~s.withheld THEN s
        ELSE IF s.env.done THEN counted
        ELSE OWrite(counted, ODoneLine)
=============================================================================
