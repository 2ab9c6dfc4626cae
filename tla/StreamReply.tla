---------------------------- MODULE StreamReply ----------------------------
(***************************************************************************)
(* One streamed reply of the gateway: the rounds and attempts of a request   *)
(* whose upstream speaks OpenAI, sent on to a client that speaks OpenAI,     *)
(* Anthropic or Responses, up to the end that the executor writes.           *)
(*                                                                         *)
(* An attempt that fails before the client has seen anything is repeated; a  *)
(* round without visible answer is followed by another (EmptyOutput) or      *)
(* gets a fallback text.                                                    *)
(***************************************************************************)
EXTENDS AnthropicStream, ResponsesStream, OpenAIStream

CONSTANTS
    Protocols,      \* the protocols a client may speak
    MaxChunks,      \* bound: chunks of all attempts together
    MaxRetries,     \* bound: attempts that fail and are repeated
    MaxCycles,      \* MAX_CONTINUITY_CYCLES, which is 5 in the code
    Interleaving,   \* the upstream goes on with a call after something else
    FailAfterCutoff \* the upstream fails after it has said "length"

ASSUME ReplyAssumption ==
    /\ Protocols \subseteq {"openai", "anthropic", "responses"}
    /\ MaxChunks \in Nat /\ MaxRetries \in Nat /\ MaxCycles \in Nat
    /\ Interleaving \in BOOLEAN /\ FailAfterCutoff \in BOOLEAN

VARIABLES
    protocol,   \* of the client
    s,          \* the forwarder's state and the wire to the client
    up,         \* the upstream of the current attempt
    given,      \* what the upstreams have given so far
    phase,      \* "running", "between" two rounds, "complete", "failed"
    cycle,      \* continuityCycles
    retries     \* attempts that failed and were repeated

vars == <<protocol, s, up, given, phase, cycle, retries>>

-----------------------------------------------------------------------------

\* the upstream: the call it is at and its index, what it sent last, whether it
\* has given its finish reason, its usage and [DONE]
FreshUpstream == [index |-> 0, last |-> "", finish |-> "none", usage |-> FALSE, done |-> FALSE]

Nothing == [text |-> 0, calls |-> 0, args |-> [c \in Calls |-> 0], chunks |-> 0]

Envelope(p) ==
    CASE p = "anthropic" -> AEnvelope [] p = "responses" -> REnvelope [] p = "openai" -> OEnvelope

Blanked(p, plain) ==
    [wire |-> <<>>, skip |-> FALSE, cut |-> FALSE, meaningful |-> FALSE, visible |-> FALSE,
     withheld |-> FALSE, sent |-> FALSE, started |-> FALSE, stitching |-> FALSE, last |-> FALSE,
     plain |-> plain, env |-> Envelope(p), saved |-> Envelope(p)]

\* startStreamPrelude has begun the Anthropic message while the upstream was slow
Prelude(t) == [ARaw(t, AEvent("message_start", 0, "", 0)) EXCEPT !.started = TRUE]

\* the forwarder of the client's protocol, from the start of an attempt
Start(t) == CASE protocol = "anthropic" -> ABegin(t)
              [] protocol = "responses" -> RBegin(t)
              [] protocol = "openai" -> OBegin(t)
Chunk(t, c) == CASE protocol = "anthropic" -> AChunk(t, c)
                 [] protocol = "responses" -> RChunk(t, c)
                 [] protocol = "openai" -> OChunk(t, c)
EndOfStream(t) == CASE protocol = "anthropic" -> ADone(t)
                    [] protocol = "responses" -> RDone(t)
                    [] protocol = "openai" -> ODone(t)
TerminalError(t) == CASE protocol = "anthropic" -> AError(t)
                      [] protocol = "responses" -> RError(t)
                      [] protocol = "openai" -> OError(t)
StreamFailure(t) == IF protocol = "responses" THEN RFailure(t) ELSE TerminalError(t)
Finalize(t, fallback) ==
    CASE protocol = "anthropic" -> AFinish(t, fallback)
      [] protocol = "responses" -> RFinish(t, fallback)
      [] protocol = "openai" -> OFinish(t, fallback, cycle + 1)

\* writeStreamErrorResponse of the executor, which has no state of the stream
TellFailure(t) ==
    CASE protocol = "anthropic" -> ARaw(t, AEvent("error", 0, "", 0))
      [] protocol = "responses" ->
            [t EXCEPT !.wire = Append(@, REvent("failed", 0, "fresh", 0, 0))]
      [] protocol = "openai" -> OWrite(t, OErrorEvent)

-----------------------------------------------------------------------------

\* the gateway's state before the first attempt
Init ==
    /\ protocol \in Protocols
    /\ \E plain, slow \in BOOLEAN :
          LET t == Blanked(protocol, plain)
          IN  /\ plain => protocol = "openai"
              /\ slow => protocol = "anthropic"
              /\ s = Start(IF slow THEN Prelude(t) ELSE t)
    /\ up = FreshUpstream /\ given = Nothing
    /\ phase = "running" /\ cycle = 0 /\ retries = 0

\* a first piece of the next call: at the index of the one before or at the next one
NewCall(args) ==
    IF given.calls >= MaxCalls THEN {}
    ELSE {<<ToolDelta(i, given.calls + 1, TRUE, TRUE, args)>> :
             i \in {up.index, IF up.last = "" THEN up.index ELSE up.index + 1} \cap Indices}

\* another piece for a call of this attempt; an upstream that interleaves may do so at any time
MoreArguments ==
    IF given.calls = 0 \/ up.last = "" \/ (up.last # "tool" /\ ~Interleaving) THEN {}
    ELSE {<<ToolDelta(up.index, given.calls, id, FALSE, TRUE)>> : id \in BOOLEAN}

ToolPieces == {<<>>} \cup NewCall(TRUE) \cup NewCall(FALSE) \cup MoreArguments

\* the chunks an upstream may send: content until it gives its finish reason
Contents ==
    {[Blank EXCEPT !.reasoning = r, !.text = t, !.tools = tc, !.finish = f] :
        r \in BOOLEAN, t \in BOOLEAN, tc \in ToolPieces,
        f \in {"none", "stop", "length"}}

\* a chunk of an upstream that has not finished (stop stands for tool_calls too); reasoning comes by itself
Offered(c) ==
    /\ up.finish = "none" /\ ~up.done
    /\ c.reasoning => ~c.text /\ c.tools = <<>> /\ c.finish = "none"
    /\ OSemantic(c) \/ c.finish # "none"
    \* in a stitched round the OpenAI forwarder takes text after a call for arguments
    /\ protocol = "openai" /\ s.stitching /\ c.text => up.last # "tool" /\ c.tools = <<>>

\* one chunk of content arrives
Receive ==
    /\ phase = "running" /\ given.chunks < MaxChunks
    /\ \E c \in Contents :
          /\ Offered(c)
          /\ s' = Chunk(s, c)
          /\ up' = [up EXCEPT
                !.finish = c.finish,
                !.index = IF c.tools = <<>> THEN @ ELSE c.tools[1].index,
                !.last = IF c.tools # <<>> /\ ~(c.text /\ @ = "tool") THEN "tool"
                         ELSE IF c.text /\ @ # "" THEN "text" ELSE @]
          /\ given' = [given EXCEPT
                !.chunks = @ + 1,
                !.text = IF c.text THEN @ + 1 ELSE @,
                !.calls = IF c.tools # <<>> /\ c.tools[1].name THEN @ + 1 ELSE @,
                !.args = [k \in Calls |->
                    @[k] + IF c.tools # <<>> /\ c.tools[1].call = k /\ c.tools[1].args THEN 1 ELSE 0]]
    /\ UNCHANGED <<protocol, phase, cycle, retries>>

\* after the finish reason an OpenAI upstream sends its usage and [DONE]; the
\* adapted forwarders use neither
ReceiveUsage ==
    /\ phase = "running" /\ protocol = "openai"
    /\ up.finish # "none" /\ ~up.usage /\ ~up.done
    /\ s' = Chunk(s, [Blank EXCEPT !.usage = TRUE])
    /\ up' = [up EXCEPT !.usage = TRUE]
    /\ UNCHANGED <<protocol, given, phase, cycle, retries>>

ReceiveDone ==
    /\ phase = "running" /\ protocol = "openai"
    /\ up.finish # "none" /\ ~up.done
    /\ s' = Chunk(s, [Blank EXCEPT !.done = TRUE])
    /\ up' = [up EXCEPT !.done = TRUE]
    /\ UNCHANGED <<protocol, given, phase, cycle, retries>>

\* the upstream's stream is over
StreamEnds ==
    /\ phase = "running"
    /\ up.finish # "none" /\ (protocol = "openai" => up.done)
    /\ s' = EndOfStream(s)
    /\ phase' = "between"
    /\ UNCHANGED <<protocol, up, given, cycle, retries>>

-----------------------------------------------------------------------------

\* a terminal error or a failed attempt: repeated if the client has seen nothing
\* (and a retry is left), told by the executor otherwise, unless the forwarder did
Mishap(told) ==
    /\ phase = "running" /\ ~up.done
    /\ s.cut => FailAfterCutoff
    /\ \/ /\ ~told.sent /\ ~told.meaningful /\ retries < MaxRetries
          /\ s' = Start(told)
          /\ up' = FreshUpstream
          /\ retries' = retries + 1
          /\ UNCHANGED phase
       \/ /\ s' = IF told.sent \/ told.meaningful THEN told ELSE TellFailure(told)
          /\ phase' = "failed"
          /\ UNCHANGED <<up, retries>>
    /\ UNCHANGED <<protocol, given, cycle>>

ErrorInStream == Mishap(TerminalError(s))
TransportFails == Mishap(StreamFailure(s))

\* a round without visible answer, or a layer without one, is followed by another
NextRound ==
    /\ phase = "between" /\ ~s.visible /\ cycle < MaxCycles
    /\ cycle' = cycle + 1
    /\ s' = Start([s EXCEPT !.stitching = TRUE, !.last = cycle + 1 >= MaxCycles])
    /\ up' = FreshUpstream
    /\ phase' = "running"
    /\ UNCHANGED <<protocol, given, retries>>

\* the reply is closed: with a fallback text if the rounds have been used up, as it
\* is if there is an answer or the strategy does not count the round as empty
Complete ==
    /\ phase = "between"
    /\ \E fallback \in BOOLEAN :
          /\ fallback => ~s.visible /\ cycle > 0
          /\ s' = Finalize(s, fallback)
    /\ phase' = "complete"
    /\ UNCHANGED <<protocol, up, given, cycle, retries>>

Ended == phase \in {"complete", "failed"} /\ UNCHANGED vars

Next ==
    \/ Receive \/ ReceiveUsage \/ ReceiveDone \/ StreamEnds
    \/ ErrorInStream \/ TransportFails \/ NextRound \/ Complete
    \/ Ended

Spec == Init /\ [][Next]_vars

-----------------------------------------------------------------------------

Over == phase \in {"complete", "failed"}

TypeOK ==
    /\ protocol \in Protocols
    /\ phase \in {"running", "between", "complete", "failed"}
    /\ cycle \in 0..MaxCycles /\ retries \in 0..MaxRetries
    /\ given.text \in 0..MaxChunks /\ given.calls \in 0..MaxCalls
    /\ \A f \in {"skip", "cut", "meaningful", "visible", "withheld", "sent", "started"} : s[f] \in BOOLEAN

\* The client is sent one message of its protocol, however many attempts and
\* rounds it is made of: block and item indices are used once and in order,
\* nothing is sent for a block that is not open, the message is begun and ended
\* once, event numbers have no gap, a second finish reason is never sent; and
\* when the executor ends the reply the client has been told so: a message_stop,
\* response.completed, [DONE] or error is the last event
\* (forwardSSEStreamAdapted, forwardSSEStreamResponsesAdapted,
\* forwardSSEStreamTransparent, finalizeGatewayStreamEvents,
\* finalizeGatewayTerminalFailure).
OneMessage ==
    LET message == Parse(protocol, s.wire) IN message.ok /\ (Over => message.ended)

\* "Visible answer content and tool calls MUST reach the client unchanged": in a
\* complete reply every piece of text and of arguments has been sent, once (and usage
\* at most once, unless rounds have been stitched).
NothingLost ==
    phase = "complete" =>
        /\ protocol = "openai" /\ cycle = 0 => UsageSent(s.wire) <= 1
        /\ TextSent(protocol, s.wire) = given.text
        /\ \A c \in Calls : ArgsSent(protocol, c, s.wire) = given.args[c]

\* The reply is one message, and whole when it is complete.
MessageWhole == OneMessage /\ NothingLost

\* An attempt that is repeated and a round that is followed by another have not
\* shown the client any part of an answer (canRetry, EmptyOutputStrategy).
RetriesUnseen ==
    [][up' = FreshUpstream /\ up # FreshUpstream => ~AnswerSeen(protocol, s.wire)]_vars

=============================================================================
