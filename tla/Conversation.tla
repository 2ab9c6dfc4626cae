---------------------------- MODULE Conversation ----------------------------
(***************************************************************************)
(* A client's conversation through the gateway: it says something or returns  *)
(* the results of tools, and the gateway sends what it makes of the whole       *)
(* conversation to one upstream after another until one answers                *)
(* (gatewayHandlers.ts, gatewayExecutor.ts 9 to 11).  Which                      *)
(* upstream, and why and how often an attempt fails, is the subject of others.    *)
(*                                                                         *)
(* The first part is what the gateway makes of the messages on their way up:   *)
(* the Responses items become chat messages (responsesAdapter.ts), Anthropic   *)
(* messages become chat messages or the portable form of Anthropic             *)
(* (protocolAdapter.ts, anthropicOutboundProfile.ts), chat messages become     *)
(* the contents of Google (googleNativeAdapter.ts), a conversation that is too   *)
(* long is cut (inputTokenLimit.ts) or summarized (contextCompression.ts), and   *)
(* the prompt policy is put in (payload.ts).                                   *)
(*                                                                         *)
(* A part is text, image, thinking, a call of a tool or its result; what it     *)
(* says is its number.                                                        *)
(***************************************************************************)
EXTENDS Integers, Sequences, SequencesExt, FiniteSetsExt

\* What the gateway adds has a number below zero.
Instructions == 0
Policy == -1
SummaryText == -2
Acknowledged == -3
Thoughts == -4
GoOn == -5
NoCall == -9

\* A server tool has a name that begins with tool_search; a result may hold an image.
Part(kind, id) == [kind |-> kind, id |-> id, server |-> FALSE, image |-> FALSE]

\* A message of a chat has calls (of an assistant) or answers one (of a tool); one of Anthropic
\* has both among its parts.
Message(role, content) == [role |-> role, content |-> content, calls |-> <<>>, of |-> NoCall]
ToolMessage(id) == [Message("tool", <<>>) EXCEPT !.of = id]
Plain(role, id) == Message(role, <<Part("text", id)>>)

-----------------------------------------------------------------------------
(* Responses to chat.                                                        *)

\* appendToolCallToMessages: to the assistant's message, if it is the last.
AppendCall(messages, id) ==
    IF messages # <<>> /\ Last(messages).role = "assistant"
    THEN [messages EXCEPT ![Len(messages)].calls = Append(@, id)]
    ELSE Append(messages, [Message("assistant", <<>>) EXCEPT !.calls = <<id>>])

\* adaptResponsesRequestToChat: the thoughts go with the message that follows, which leaves no
\* message of their own.
AppendItem(messages, item) ==
    CASE item.role = "reasoning" -> messages
      [] item.role = "function_call" -> AppendCall(messages, item.of)
      [] item.role = "function_call_output" -> Append(messages, ToolMessage(item.of))
      [] OTHER -> Append(messages, item)

ResponsesToChat(items) == FoldLeft(AppendItem, <<>>, items)

-----------------------------------------------------------------------------
(* Anthropic to chat (adaptRequestProtocol).                                  *)

\* The parts of a chat message; thoughts are for the client only.
Visible(content) == SelectSeq(content, LAMBDA p : p.kind # "thinking")

\* One message: what is collected, and which calls of server tools were left out so far.
Collected(messages, left) ==
    [messages |-> messages, left |-> left, parts |-> <<>>, deferred |-> <<>>, calls |-> <<>>,
     answers |-> FALSE, kept |-> FALSE]

Flushed(messages, role, parts) ==
    IF parts = <<>> THEN messages ELSE Append(messages, Message(role, parts))

\* Mutant: a result of a call that was left out is sent.
AddBlockOrphan(role, c, block) ==
    CASE block.kind = "thinking" -> c
      [] block.kind = "use" /\ block.server -> [c EXCEPT !.left = @ \cup {block.id}]
      [] block.kind = "use" /\ ~block.server -> [c EXCEPT !.calls = Append(@, block.id), !.kept = TRUE]
      [] block.kind = "result" ->
            [c EXCEPT !.messages = Append(Flushed(@, role, c.parts), ToolMessage(block.id)),
                      !.parts = <<>>,
                      !.deferred = @ \o (IF block.image THEN <<Part("image", block.id)>> ELSE <<>>),
                      !.answers = TRUE, !.kept = TRUE]
      [] OTHER -> [c EXCEPT !.parts = Append(@, block), !.kept = TRUE]

\* A server tool has no counterpart: its calls and their results are left out.  A result becomes
\* a message of its own, and its image goes into the user's message behind it.
AddBlock(role, c, block) ==
    CASE block.kind = "thinking" -> c
      [] block.kind = "use" /\ block.server -> [c EXCEPT !.left = @ \cup {block.id}]
      [] block.kind = "use" /\ ~block.server -> [c EXCEPT !.calls = Append(@, block.id), !.kept = TRUE]
      [] block.kind = "result" /\ block.id \in c.left -> c
      [] block.kind = "result" /\ block.id \notin c.left ->
            [c EXCEPT !.messages = Append(Flushed(@, role, c.parts), ToolMessage(block.id)),
                      !.parts = <<>>,
                      !.deferred = @ \o (IF block.image THEN <<Part("image", block.id)>> ELSE <<>>),
                      !.answers = TRUE, !.kept = TRUE]
      [] OTHER -> [c EXCEPT !.parts = Append(@, block), !.kept = TRUE]

\* Mutant: what the user says beside the results is left out.
CloseMessageResultsOnly(role, c) ==
    IF ~c.kept \/ c.answers THEN c.messages
    ELSE Append(c.messages, [Message(role, c.deferred \o c.parts) EXCEPT !.calls = c.calls])

\* A message of which nothing is left is left out; one with results leaves only its other parts.
CloseMessage(role, c) ==
    LET parts == c.deferred \o c.parts
    IN  IF ~c.kept \/ (c.answers /\ parts = <<>>) THEN c.messages
        ELSE Append(c.messages,
                    [Message(role, parts) EXCEPT !.calls = IF c.answers THEN <<>> ELSE c.calls])

SystemLike(m) == m.role \in {"system", "developer"}

AddMessage(c, m) ==
    IF SystemLike(m) \/ m.role = "instructions" THEN c
    ELSE LET done == FoldLeft(LAMBDA d, b : AddBlock(m.role, d, b),
                              Collected(c.messages, c.left), m.content)
         IN  Collected(CloseMessage(m.role, done), done.left)

\* body.system, and system messages wherever they are, become one message at the head.
SystemText(messages) ==
    LET own == SelectSeq(messages, LAMBDA m : m.role = "instructions")
        others == SelectSeq(messages, SystemLike)
        parts == FlattenSeq([i \in DOMAIN (own \o others) |-> (own \o others)[i].content])
    IN  IF parts = <<>> THEN <<>> ELSE <<Message("system", parts)>>

AnthropicToChat(messages) ==
    SystemText(messages) \o FoldLeft(AddMessage, Collected(<<>>, {}), messages).messages

\* sanitizeOpenAIMessageForUpstream: chat to chat.
Sanitized(messages) ==
    [i \in DOMAIN messages |-> [messages[i] EXCEPT !.content = Visible(@)]]

\* normalizeCompatibleAnthropicBody: instructions become the first of the user's messages,
\* thoughts become text.
Compatible(messages) ==
    [i \in DOMAIN messages |->
        [messages[i] EXCEPT
            !.role = IF @ \in {"instructions", "system"} THEN "user" ELSE @,
            !.content = [j \in DOMAIN @ |->
                IF @[j].kind = "thinking" THEN [@[j] EXCEPT !.kind = "text"] ELSE @[j]]]]

-----------------------------------------------------------------------------
(* Chat to Google (openAIMessagesToGoogle).                                   *)

\* addContentPart: parts of one role in a row are one content.
AddPart(contents, role, part) ==
    IF contents # <<>> /\ Last(contents).role = role
    THEN [contents EXCEPT ![Len(contents)].content = Append(@, part)]
    ELSE Append(contents, Message(role, <<part>>))

AddParts(contents, role, parts) ==
    FoldLeft(LAMBDA c, p : AddPart(c, role, p), contents, parts)

Uses(calls) == [i \in DOMAIN calls |-> Part("use", calls[i])]

\* A result goes by the name of its call, which must have come before it.
AddToGoogle(g, m) ==
    CASE SystemLike(m) -> g
      [] m.role = "assistant" ->
            [contents |-> AddParts(g.contents, "model", Visible(m.content) \o Uses(m.calls)),
             named |-> g.named \cup ToSet(m.calls)]
      [] m.role = "tool" ->
            [g EXCEPT !.contents =
                AddPart(@, "user", Part(IF m.of \in g.named THEN "result" ELSE "unnamed", m.of))]
      [] OTHER -> [g EXCEPT !.contents = AddParts(@, "user", Visible(m.content))]

\* The system instruction is a field of its own; here it is a message at the head.
ChatToGoogle(messages) ==
    SystemText(messages)
        \o FoldLeft(AddToGoogle, [contents |-> <<>>, named |-> {}], messages).contents

-----------------------------------------------------------------------------
(* Turns, and what is done to a conversation that is too long.               *)

HasResult(m) == \E i \in DOMAIN m.content : m.content[i].kind = "result"

\* isNaturalUserMessage
NaturalUserMessage(m) == m.role = "user" /\ ~HasResult(m)

\* The messages that stay whatever is cut, and the others.
Fixed(messages) == SelectSeq(messages, LAMBDA m : SystemLike(m) \/ m.role = "instructions")
Spoken(messages) == SelectSeq(messages, LAMBDA m : ~SystemLike(m) /\ m.role # "instructions")

\* splitConversationTurns and splitTurns: a turn begins with a message of the user's own.
JoinTurn(turns, m) ==
    IF turns # <<>> /\ ~NaturalUserMessage(m)
    THEN [turns EXCEPT ![Len(turns)] = Append(@, m)]
    ELSE Append(turns, <<m>>)

TurnsOf(messages) == FoldLeft(JoinTurn, <<>>, Spoken(messages))

Newest(messages, k) ==
    LET turns == TurnsOf(messages)
    IN  FlattenSeq(SubSeq(turns, Len(turns) - k + 1, Len(turns)))

\* applyInputTokenLimit: the newest turns that fit, or the newest one with the largest of its
\* texts shortened, which keeps its number here.
CutBodies(messages) ==
    {Fixed(messages) \o Newest(messages, k) : k \in 1..Len(TurnsOf(messages)) - 1}

\* planContextCompression, applyContextSummary: the last two turns stay as they are.
KeptTurns == 2
CanSummarize(messages) == Len(TurnsOf(messages)) > KeptTurns

Summarized(messages) ==
    Fixed(messages) \o <<Plain("user", SummaryText), Plain("assistant", Acknowledged)>>
                    \o Newest(messages, KeptTurns)

\* ReasoningExhaustionStrategy: the thoughts that were all of the answer, and a demand to go on.
GoOnAfterThoughts(messages) ==
    messages \o <<Plain("assistant", Thoughts), Plain("user", GoOn)>>

-----------------------------------------------------------------------------
(* The prompt policy (applyPromptPolicy).                                     *)

\* On an Anthropic upstream it goes into body.system, or nowhere.
OnAnthropic(position, messages) ==
    LET field == SelectSeq(messages, LAMBDA m : m.role = "instructions")
        others == SelectSeq(messages, LAMBDA m : m.role # "instructions")
        own == IF position = "append_system" /\ field # <<>> THEN field[1].content ELSE <<>>
    IN  IF position = "messages_unshift" THEN messages
        ELSE <<Message("instructions", Append(own, Part("text", Policy)))>> \o others

\* On any other it goes into the messages, where body.system of an Anthropic client is not.
OnChat(position, messages) ==
    LET first == SelectInSeq(messages, LAMBDA m : m.role = "system")
        others == SelectSeq(messages, LAMBDA m : m.role # "system")
    IN  CASE position = "append_system" /\ first # 0 ->
                [messages EXCEPT ![first].content = Append(@, Part("text", Policy))]
          [] position = "replace_system" -> <<Plain("system", Policy)>> \o others
          [] OTHER -> <<Plain("system", Policy)>> \o messages

-----------------------------------------------------------------------------
(* The conversation.                                                         *)

CONSTANTS
    Settings,      \* what an instance looks at, see setting
    Answers,       \* the shapes of answers: thoughts, text, calls, the first to a server tool
    MaxPictures    \* bound: images of the conversation

ASSUME ConversationAssumption ==
    /\ \A s \in Settings :
          /\ s.dialect \in {"openai", "responses", "anthropic"}
          /\ s.position \in {"none", "system", "append_system", "replace_system",
                             "messages_unshift"}
          /\ {s.once, s.offered} \subseteq BOOLEAN
          /\ {s.turns, s.exchanges} \subseteq Nat
    /\ Answers \subseteq [thoughts : BOOLEAN, text : BOOLEAN, calls : Nat, server : BOOLEAN]
    /\ MaxPictures \in Nat

VARIABLES
    setting,    \* the client's protocol, the policy of its route (position, whether once per
                \* conversation), whether the client offers a server tool; bounds of turns and
                \* of answers with calls
    history,    \* the messages the client sends, in its protocol
    turns,      \* what the client and the model have said, by turns
    pending,    \* the calls the client has to answer
    exchanges,  \* answers with calls
    stage,      \* "client", "attempt", "fetch"
    body,       \* the gateway's messages
    original,   \* originalBody, to which retries go back
    shared,     \* body and originalBody are one object
    shortened,  \* the request was cut, was summarized (contextCompressed)
    added,      \* thoughts and a demand to go on were added to body
    noted,      \* promptInjectionRecords has the conversation
    carried,    \* attempts that carried the policy
    sent        \* what the last attempt has sent, and to whom

talkVars == <<history, turns, pending, exchanges>>
conversationVars == <<setting, talkVars, stage, body, original, shared, shortened, added,
                      noted, carried, sent>>

-----------------------------------------------------------------------------
(* What is said, to compare it with what is sent: everything but thoughts.    *)

Item(kind, p) == [kind |-> kind, id |-> p.id, server |-> p.server]

ItemsOf(content) ==
    FlattenSeq([i \in DOMAIN content |->
        IF content[i].image THEN <<Item("result", content[i]), Item("image", content[i])>>
        ELSE <<Item(content[i].kind, content[i])>>])

Said == UNION {ToSet(turns[i]) : i \in DOMAIN turns}
Pictures == Cardinality({x \in Said : x.kind = "image"})
Fresh == 1 + Max({0} \cup {x.id : x \in Said})

Notes(content) == turns' = [turns EXCEPT ![Len(turns)] = @ \o ItemsOf(Visible(content))]

\* The client's messages of an answer and of results.
AnswerIn(d, thoughts, text, calls) ==
    CASE d = "openai" ->
            <<[Message("assistant", text) EXCEPT !.calls = [i \in DOMAIN calls |-> calls[i].id]]>>
      [] d = "anthropic" -> <<Message("assistant", thoughts \o text \o calls)>>
      [] d = "responses" ->
            [i \in DOMAIN thoughts |-> Message("reasoning", <<>>)]
              \o (IF text = <<>> THEN <<>> ELSE <<Message("assistant", text)>>)
              \o [i \in DOMAIN calls |-> [Message("function_call", <<>>) EXCEPT !.of = calls[i].id]]

ResultsIn(d, results, text) ==
    CASE d = "openai" -> [i \in DOMAIN results |-> ToolMessage(results[i].id)]
      [] d = "anthropic" -> <<Message("user", results \o text)>>
      [] d = "responses" ->
            [i \in DOMAIN results |->
                [Message("function_call_output", <<>>) EXCEPT !.of = results[i].id]]

-----------------------------------------------------------------------------
(* The request.                                                              *)

\* First-party surfaces of Anthropic, and others that speak its protocol (OpenRouter among them).
AnthropicUpstreams == {"anthropic", "compatible"}

\* A client of Anthropic may be served by any upstream, the others by those that speak OpenAI
\* or Google.
Upstreams == {"openai", "google"} \cup (IF setting.dialect = "anthropic" THEN AnthropicUpstreams ELSE {})

Admitted(messages) ==
    IF setting.dialect = "responses" THEN ResponsesToChat(messages) ELSE messages

ToChat(messages) ==
    IF setting.dialect = "anthropic" THEN AnthropicToChat(messages) ELSE Sanitized(messages)

\* adaptRequestProtocol, buildGoogleNativeRequest
Converted(u, messages) ==
    CASE u = "openai" -> ToChat(messages)
      [] u = "google" -> ChatToGoogle(ToChat(messages))
      [] u = "compatible" -> Compatible(messages)
      [] u = "anthropic" -> messages

NothingSent == [upstream |-> "none", messages |-> <<>>]

\* proxyHandler: the request as it comes in, of which the executor keeps a copy.
Begin(messages) ==
    /\ stage' = "attempt"
    /\ body' = Admitted(messages)
    /\ original' = Admitted(messages)
    /\ shared' = FALSE /\ added' = FALSE
    /\ shortened' = [cut |-> FALSE, summary |-> FALSE]
    /\ sent' = NothingSent

ConversationInit ==
    /\ setting \in Settings
    /\ history = <<Plain(IF setting.dialect = "anthropic" THEN "instructions" ELSE "system", Instructions)>>
    /\ turns = <<>> /\ pending = <<>> /\ exchanges = 0
    /\ stage = "client"
    /\ body = <<>> /\ original = <<>> /\ shared = FALSE /\ added = FALSE
    /\ shortened = [cut |-> FALSE, summary |-> FALSE]
    /\ noted = FALSE /\ carried = 0
    /\ sent = NothingSent

-----------------------------------------------------------------------------
(* The client.                                                               *)

Ask ==
    /\ stage = "client" /\ pending = <<>> /\ Len(turns) < setting.turns
    /\ \E image \in BOOLEAN :
          /\ image => Pictures < MaxPictures
          /\ LET content == <<Part("text", Fresh)>>
                            \o (IF image THEN <<Part("image", Fresh)>> ELSE <<>>)
             IN  /\ history' = Append(history, Message("user", content))
                 /\ turns' = Append(turns, ItemsOf(content))
    /\ Begin(history')
    /\ UNCHANGED <<setting, pending, exchanges, noted, carried>>

ReturnResults ==
    /\ stage = "client" /\ pending # <<>>
    /\ \E image, more \in (IF setting.dialect = "anthropic" THEN BOOLEAN ELSE {FALSE}) :
          /\ image => Pictures < MaxPictures
          /\ LET last == Len(pending)
                 results == [i \in DOMAIN pending |->
                               [pending[i] EXCEPT !.kind = "result",
                                    !.image = image /\ i = last /\ ~pending[i].server]]
                 text == IF more THEN <<Part("text", Fresh)>> ELSE <<>>
             IN  /\ history' = history \o ResultsIn(setting.dialect, results, text)
                 /\ Notes(results \o text)
    /\ pending' = <<>>
    /\ Begin(history')
    /\ UNCHANGED <<setting, exchanges, noted, carried>>

-----------------------------------------------------------------------------
(* An attempt.                                                               *)

\* Mutant: the conversations that have had the policy are not asked for.
InjectsAlways == setting.position # "none"

\* resolvePromptPolicyPlan
Injects == setting.position # "none" /\ (setting.once => ~noted)

WithPolicy(u, messages) ==
    IF ~Injects THEN messages
    ELSE IF u \in AnthropicUpstreams THEN OnAnthropic(setting.position, messages)
    ELSE OnChat(setting.position, messages)

IdsOf(messages) == {p.id : p \in UNION {ToSet(messages[i].content) : i \in DOMAIN messages}}

\* The conversation is noted before the request is sent.
Send(u, messages) ==
    /\ noted' = (noted \/ (Injects /\ setting.once))
    /\ body' = messages
    /\ sent' = [upstream |-> u, messages |-> Converted(u, WithPolicy(u, messages))]
    /\ carried' = IF Policy \in IdsOf(sent'.messages) THEN carried + 1 ELSE carried
    /\ stage' = "fetch"

\* What is within the limits, of the user and of the model, is sent as it is; what is cut is cut
\* in place, in originalBody too if body is that; a summary makes another object.
Attempt ==
    /\ stage = "attempt"
    /\ \E u \in Upstreams, cut \in {body} \cup CutBodies(body) :
          /\ original' = IF shared THEN cut ELSE original
          /\ \/ Send(u, cut) /\ UNCHANGED shared
                /\ shortened' = [shortened EXCEPT !.cut = @ \/ cut # body]
             \/ /\ ~shortened.summary /\ CanSummarize(cut)
                /\ \E m \in {Summarized(cut)} \cup CutBodies(Summarized(cut)) :
                      /\ Send(u, m)
                      /\ shortened' = [cut |-> cut # body \/ m # Summarized(cut) \/ shortened.cut,
                                       summary |-> TRUE]
                /\ shared' = FALSE
    /\ UNCHANGED <<setting, talkVars, added>>

Answered ==
    /\ stage = "fetch"
    /\ \E a \in Answers :
          LET thoughts == IF a.thoughts THEN <<Part("thinking", Thoughts)>> ELSE <<>>
              text == IF a.text THEN <<Part("text", Fresh)>> ELSE <<>>
              calls == [i \in 1..a.calls |->
                            [Part("use", Fresh + i) EXCEPT !.server = a.server /\ i = 1]]
          IN  /\ a.server => setting.offered
              /\ a.calls > 0 => exchanges < setting.exchanges
              /\ exchanges' = IF a.calls > 0 THEN exchanges + 1 ELSE exchanges
              /\ history' = history \o AnswerIn(setting.dialect, thoughts, text, calls)
              /\ Notes(text \o calls)
              /\ pending' = calls
    /\ stage' = "client"
    /\ body' = <<>> /\ original' = <<>> /\ shared' = FALSE /\ added' = FALSE
    /\ shortened' = [cut |-> FALSE, summary |-> FALSE]
    /\ sent' = NothingSent
    /\ UNCHANGED <<setting, noted, carried>>

AttemptFails ==
    /\ stage = "fetch"
    /\ stage' = "attempt"
    /\ sent' = NothingSent
    /\ UNCHANGED <<setting, talkVars, body, original, shared, shortened, added, noted, carried>>

\* EmptyOutputStrategy hands out originalBody itself.
BlankAnswer ==
    /\ stage = "fetch"
    /\ body' = original /\ shared' = TRUE /\ added' = FALSE
    /\ stage' = "attempt"
    /\ sent' = NothingSent
    /\ UNCHANGED <<setting, talkVars, original, shortened, noted, carried>>

\* applyEmptyOutputLayerHop: a copy of what the client has sent.
BlankOnceMore ==
    /\ stage = "fetch"
    /\ body' = Admitted(history) /\ shared' = FALSE /\ added' = FALSE
    /\ stage' = "attempt"
    /\ sent' = NothingSent
    /\ UNCHANGED <<setting, talkVars, original, shortened, noted, carried>>

\* ReasoningExhaustionStrategy
OnlyThoughts ==
    /\ stage = "fetch"
    /\ body' = GoOnAfterThoughts(original) /\ shared' = FALSE /\ added' = TRUE
    /\ stage' = "attempt"
    /\ sent' = NothingSent
    /\ UNCHANGED <<setting, talkVars, original, shortened, noted, carried>>

\* Nothing more is asked.
ConversationOver ==
    /\ stage = "client" /\ pending = <<>> /\ Len(turns) = setting.turns
    /\ UNCHANGED conversationVars

ConversationNext ==
    \/ Ask \/ ReturnResults \/ Attempt
    \/ Answered \/ AttemptFails \/ BlankAnswer \/ BlankOnceMore \/ OnlyThoughts
    \/ ConversationOver

ConversationSpec == ConversationInit /\ [][ConversationNext]_conversationVars

-----------------------------------------------------------------------------
ConversationTypeOK ==
    /\ setting \in Settings
    /\ {shared, added, noted} \subseteq BOOLEAN
    /\ stage \in {"client", "attempt", "fetch"}
    /\ Len(turns) <= setting.turns /\ exchanges <= setting.exchanges
    /\ carried \in Nat

CallsIn(m) ==
    m.calls \o [i \in DOMAIN SelectSeq(m.content, LAMBDA p : p.kind = "use") |->
                    SelectSeq(m.content, LAMBDA p : p.kind = "use")[i].id]

ResultsOf(m) ==
    (IF m.of = NoCall THEN <<>> ELSE <<m.of>>)
        \o [i \in DOMAIN SelectSeq(m.content, LAMBDA p : p.kind = "result") |->
                SelectSeq(m.content, LAMBDA p : p.kind = "result")[i].id]

\* The messages with what they call and answer; the answers of a chat in a row are one.
Steps(messages) ==
    FoldLeft(LAMBDA s, m :
                IF m.role = "tool" /\ s # <<>> /\ Last(s).tool
                THEN [s EXCEPT ![Len(s)].results = @ \o ResultsOf(m)]
                ELSE Append(s, [tool |-> m.role = "tool", calls |-> CallsIn(m),
                                results |-> ResultsOf(m)]),
             <<>>, messages)

Matches(results, calls) == Len(results) = Len(calls) /\ ToSet(results) = ToSet(calls)

\* Whatever is converted, cut, summarized or added, an upstream is sent each call of a tool with
\* its result right behind it, no result without its call, each result under the name of its
\* call, and no message without content: anything else is refused with status 400 by every
\* upstream, for the rest of the conversation (adaptRequestProtocol, adaptResponsesRequestToChat,
\* openAIMessagesToGoogle, splitConversationTurns; README.md "recent tool-call/tool-result chains
\* are preserved").
ToolsPaired ==
    LET steps == Steps(sent.messages)
    IN  /\ \A i \in DOMAIN steps :
              /\ Matches(steps[i].results, IF i = 1 THEN <<>> ELSE steps[i - 1].calls)
              /\ i = Len(steps) => steps[i].calls = <<>>
        /\ \A i \in DOMAIN sent.messages :
              LET m == sent.messages[i]
              IN  /\ m.content # <<>> \/ m.calls # <<>> \/ m.of # NoCall
                  /\ \A j \in DOMAIN m.content : m.content[j].kind # "unnamed"

\* What is sent of what was said, in its order.
ItemsSent ==
    LET all == FlattenSeq([i \in DOMAIN sent.messages |->
                    LET m == sent.messages[i]
                    IN  (IF m.of = NoCall THEN <<>> ELSE <<Item("result", Part("result", m.of))>>)
                          \o ItemsOf(m.content) \o ItemsOf(Uses(m.calls))])
    IN  SelectSeq(all, LAMBDA x : x.id > 0)

\* The turns from the k-th on; those who do not speak Anthropic are not told of server tools.
Expected(k) ==
    LET all == FlattenSeq(SubSeq(turns, k, Len(turns)))
    IN  IF sent.upstream \in AnthropicUpstreams THEN all
        ELSE SelectSeq(all, LAMBDA x : ~x.server)

TurnOf(x) == CHOOSE t \in DOMAIN turns : x \in ToSet(turns[t])

\* The upstream is sent the newest turns of the conversation, complete, in their order and once
\* each, and the client's instructions with them: all turns if nothing was cut or summarized, at
\* least the newest one unless the gateway's own demand to go on is the newest and the rest was
\* cut away behind it; instructions may only be replaced by a policy, and a policy for once per
\* conversation is sent in at most one attempt of all its requests (proxyHandler to
\* buildGoogleNativeRequest and applyPromptPolicy, over retries that go back to originalBody).
ConversationSent ==
    /\ sent.upstream # "none" =>
        /\ \E k \in 1..Len(turns) + 1 :
              /\ Matches(ItemsSent, Expected(k))
              /\ k > 1 => shortened.cut \/ shortened.summary
              /\ k > Len(turns) => shortened.cut /\ added
        /\ \A i, j \in DOMAIN ItemsSent : i < j => TurnOf(ItemsSent[i]) <= TurnOf(ItemsSent[j])
        /\ added => GoOn \in IdsOf(sent.messages)
        /\ setting.position \notin {"system", "replace_system"} =>
              Instructions \in IdsOf(sent.messages)
    /\ setting.once => carried <= 1

\* Both hold of one request at once: complete turns, with their calls and results paired.
ConversationKept == ToolsPaired /\ ConversationSent

=============================================================================
