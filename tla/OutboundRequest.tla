-------------------------- MODULE OutboundRequest --------------------------
(***************************************************************************)
(* What the gateway sends to a model, and how it mends what the model refuses:   *)
(* at every attempt the body is built again from the client's (payload.ts,       *)
(* protocolAdapter.ts), fitted to the provider's address                         *)
(* (providerAdapters/, compatibility/, googleNativeAdapter.ts), and changed by       *)
(* the mends planned from earlier refusals of the same model                     *)
(* (providerConstraintRecovery.ts); a model that cannot be satisfied is left for   *)
(* the next layer (executeGatewayRequest).                                       *)
(*                                                                         *)
(* A body is what the upstreams tell apart; Conversation has its messages, one by  *)
(* one, and GatewayAttempts the keys, the other errors and the streams.          *)
(***************************************************************************)
EXTENDS Integers, Sequences, FiniteSets

CONSTANTS
    Models,         \* names of models at providers
    Upstream,       \* per model, its provider's addresses, and what it does not take
    Asks,           \* the requests of clients
    Layers,         \* the routes: sequences of models, the first layer first
    MaxTries,       \* maxAttempts
    MaxCapacity     \* capacityRetryAttempts

Unset == "unset"

\* "other" is any address no adapter or profile of the gateway knows.
Hosts == {Unset, "other", "google", "gcli", "openrouter", "claude", "chatgpt"}

Refusals == {"strict in thinking", "strict, thinking or not", "strict", "thinking", "passback",
             "refs", "schema", "limit", "usage", "tool", "knobs", "capacity"}

Upstreams ==
    [openai : Hosts, anthropic : Hosts, hadAnthropic : BOOLEAN, native : BOOLEAN,
     tail : {"", "/chat/completions", "/v1/messages", "/messages"},
     proxied : BOOLEAN, ceiling : BOOLEAN, refuses : SUBSET Refusals]

Types == {"null", "string", "boolean", "integer", "number", "array", "object"}

Schemas ==
    [types : SUBSET Types, branches : SUBSET Types, enum : SUBSET Types, const : SUBSET Types,
     format : {Unset, "date-time", "email"}, items : {Unset, "bare", "typed"}]

Requests ==
    [protocol : {"openai", "anthropic"}, choice : {"auto", "strict"}, think : {"model", "off"},
     chain : BOOLEAN, refs : BOOLEAN, server : {"none", "typed"}, schema : Schemas,
     limit : {"small", "large"}, stream : BOOLEAN]

ASSUME OutboundAssumption ==
    /\ MaxTries \in Nat \ {0} /\ MaxCapacity \in Nat
    /\ Upstream \in [Models -> Upstreams]
    /\ Layers \subseteq Seq(Models) \ {<<>>}
    /\ Asks \subseteq Requests
    \* a client of OpenAI's dialect has no word for tools of Anthropic's servers
    /\ \A q \in Asks : q.protocol = "openai" => q.server = "none"

VARIABLES
    ask,            \* what the client asked
    funnel,         \* the route
    layer,          \* currentAttempt.targetIndex, from 1
    tries,          \* attemptCount
    mends,          \* per model: constraintMutators, in order, with their codes
    busy,           \* per model: how often it was asked again for want of capacity
    sent,           \* the last request sent
    refusal,        \* what the upstream made of it
    sends,          \* history: per model, how many requests it was sent
    moment          \* "loop", "sent", "refused", "answered" or "failed"

outboundVars == <<ask, funnel, layer, tries, mends, busy, sent, refusal, sends, moment>>

model == funnel[layer]
upstream == Upstream[model]

-----------------------------------------------------------------------------
(* Where the request goes. *)

Alternate(protocol) == IF protocol = "openai" THEN "anthropic" ELSE "openai"

\* A route of Anthropic clients goes by the Anthropic address if the provider has one when the
\* route is saved; the address may be taken away later.
RouteProtocol(a, u) ==
    IF a.protocol = "anthropic" /\ (u.anthropic # Unset \/ u.hadAnthropic)
    THEN "anthropic" ELSE "openai"

Servable(a, u) == a.protocol = "openai" => u.openai # Unset

\* The owner of an address: OpenRouter by its host and path, Google by its host.
AdapterOf(host) ==
    IF host \in {"openrouter", "google"} THEN host ELSE "transparent"

\* The address of the route's protocol, or else the other one if an adapter owns it, or else
\* the vendor's own.
Dispatch(a, u) ==
    LET primary == RouteProtocol(a, u)
        other == Alternate(primary)
    IN  CASE u[primary] # Unset ->
                [host |-> u[primary], slot |-> primary]
          [] u[primary] = Unset /\ AdapterOf(u[other]) # "transparent" ->
                [host |-> u[other], slot |-> other]
          [] OTHER ->
                [host |-> IF primary = "anthropic" THEN "claude" ELSE "chatgpt", slot |-> primary]

\* OpenRouter's Anthropic address, asked by an Anthropic client.
NativeAnthropic(a, u) ==
    LET d == Dispatch(a, u)
    IN  AdapterOf(d.host) = "openrouter" /\ a.protocol = "anthropic" /\ d.slot = "anthropic"

EffectiveProtocol(a, u) ==
    LET d == Dispatch(a, u)
    IN  IF AdapterOf(d.host) = "openrouter" /\ a.protocol = "anthropic"
        THEN d.slot ELSE RouteProtocol(a, u)

AnthropicUpstream(a, u) ==
    IF NativeAnthropic(a, u) THEN a.protocol = "anthropic"
    ELSE EffectiveProtocol(a, u) = "anthropic"

GoogleNative(a, u) == u.native /\ Dispatch(a, u).host = "google"

\* OpenRouter's adapter takes the path of chats off its address, and asks Anthropic's dialect
\* at another one.
BaseTail(a, u) ==
    IF Dispatch(a, u).host = "openrouter" /\ u.tail = "/chat/completions" THEN "" ELSE u.tail

DetermineUpstreamPath(a, u) ==
    CASE NativeAnthropic(a, u) -> "/messages"
      [] ~NativeAnthropic(a, u) /\ EffectiveProtocol(a, u) = "anthropic" -> "/v1/messages"
      [] OTHER -> "/chat/completions"

\* The base address may be bare, or end with the path already.
Path(a, u) ==
    LET tail == BaseTail(a, u)
        path == DetermineUpstreamPath(a, u)
    IN  CASE GoogleNative(a, u) -> ":generateContent"
          [] ~GoogleNative(a, u) /\ tail \in {"", path} -> path
          [] OTHER -> tail \o path

\* OpenRouter takes one form of credential for both dialects.
BearerForOpenRouter(a, u) ==
    /\ AdapterOf(Dispatch(a, u).host) = "openrouter"
    /\ a.protocol = "anthropic" \/ Dispatch(a, u).slot = "openai"

Credential(a, u) ==
    CASE GoogleNative(a, u) -> "x-goog-api-key"
      [] /\ ~GoogleNative(a, u) /\ EffectiveProtocol(a, u) = "anthropic"
         /\ ~BearerForOpenRouter(a, u) -> "x-api-key"
      [] OTHER -> "authorization"

\* Both the SDK's calls and the gateway's own go through the provider's proxy.
Through(u) == IF u.proxied THEN "proxy" ELSE "direct"

-----------------------------------------------------------------------------
(* A tool's schema: its types, those of its branches (anyOf), the kinds of the values of enum *)
(* and const, its format and its items.                                                    *)

Pick(types) == IF types \ {"null"} = {} THEN {}
               ELSE {CHOOSE t \in types \ {"null"} : TRUE}

LiftSchemaCombinators(s) ==
    [s EXCEPT !.types = IF s.types = {} THEN Pick(s.branches) ELSE s.types, !.branches = {}]

LiftConstToEnum(s) ==
    [s EXCEPT !.enum = IF s.enum = {} THEN s.const ELSE s.enum, !.const = {}]

NormalizeSchemaType(s) == [s EXCEPT !.types = Pick(s.types)]

\* Only an enumeration of strings stays one; another one may tell the type.
SanitizeGeminiEnum(s) ==
    LET kinds == s.enum \ {"null"}
    IN  IF kinds = {"string"} THEN [s EXCEPT !.enum = kinds]
        ELSE [s EXCEPT !.enum = {},
                       !.types = IF s.types = {} /\ (\E k \in kinds : kinds = {k}) THEN kinds ELSE s.types]

SanitizeGeminiStringFormat(s) ==
    [s EXCEPT !.format = IF s.types \in {{}, {"string"}} /\ s.format = "date-time"
                         THEN s.format ELSE Unset]

SanitizeGeminiArray(s) ==
    LET types == IF s.types = {} /\ s.items # Unset THEN {"array"} ELSE s.types
    IN  [s EXCEPT !.types = types,
                  !.items = IF types = {"array"} THEN "typed" ELSE s.items]

SanitizeGeminiSchema(s) ==
    SanitizeGeminiArray(SanitizeGeminiStringFormat(SanitizeGeminiEnum(
        NormalizeSchemaType(LiftConstToEnum(LiftSchemaCombinators(s))))))

\* A schema as Gemini declares functions.
GeminiTakes(s) ==
    /\ Cardinality(s.types) <= 1 /\ "null" \notin s.types
    /\ s.branches = {} /\ s.const = {}
    /\ s.enum \subseteq {"string"}
    /\ s.format = Unset \/ (s.format = "date-time" /\ s.types \subseteq {"string"})
    /\ s.types = {"array"} => s.items = "typed"

-----------------------------------------------------------------------------
(* The body, from the client's to the one that is sent. *)

\* choice: whether a call of a tool is demanded ("strict"), the model's matter ("auto"), or
\* the text "auto".  think: "off", or left to the model.  chain: assistant messages carry
\* reasoning.  refs: a tool's result has $ref keys.  server: tools of Anthropic's servers.
\* knobs: the switches of reasoning were written.
ClientBody(a) ==
    [shape |-> IF a.protocol = "anthropic" THEN "messages" ELSE "chat",
     choice |-> a.choice, think |-> a.think, chain |-> a.chain, refs |-> a.refs,
     server |-> a.server, schema |-> a.schema, limit |-> a.limit,
     usage |-> FALSE, knobs |-> FALSE]

\* A copy, with the model's ceiling for the answer.
TransformRequestBody(b, u, a) ==
    [b EXCEPT !.limit = IF u.ceiling /\ b.limit = "large" THEN "small" ELSE b.limit,
              !.usage = a.stream /\ ~AnthropicUpstream(a, u)]

NormalizeCompatibleAnthropicBody(b) ==
    [b EXCEPT !.chain = FALSE, !.server = IF @ = "typed" THEN "untyped" ELSE @]

\* Anthropic's dialect is kept for Anthropic's own address, cut down for others, and
\* converted for the rest.
AdaptRequestProtocol(b, u, a) ==
    CASE b.shape = "messages" /\ ~AnthropicUpstream(a, u) ->
            [b EXCEPT !.shape = "chat", !.think = "model", !.chain = FALSE, !.server = "none"]
      [] b.shape = "messages" /\ AnthropicUpstream(a, u) /\ Dispatch(a, u).host # "claude" ->
            NormalizeCompatibleAnthropicBody(b)
      [] OTHER -> b

\* OpenRouter takes no tools of Anthropic's servers: they are left out, which nothing may
\* refer to.  (The dialect was cut down before: their types are gone, and none is found.)
OpenRouterTools(b, u, a) ==
    IF NativeAnthropic(a, u) /\ b.server = "typed" THEN [b EXCEPT !.server = "none"] ELSE b

CompatibilityProfile(u, a) ==
    CASE RouteProtocol(a, u) # "openai" -> "none"
      [] RouteProtocol(a, u) = "openai" /\ Dispatch(a, u).host = "google" -> "first_party_google_openai"
      [] RouteProtocol(a, u) = "openai" /\ Dispatch(a, u).host = "gcli" -> "gemini_schema_proxy"
      [] OTHER -> "none"

ApplyProviderCompatibility(b, u, a) ==
    LET profile == CompatibilityProfile(u, a)
        gemini == profile # "none"
        google == profile = "first_party_google_openai"
    IN  [b EXCEPT !.usage = @ /\ ~google,
                  !.limit = IF google /\ @ = "large" THEN "small" ELSE @,
                  !.schema = IF gemini THEN SanitizeGeminiSchema(@) ELSE @,
                  !.refs = @ /\ ~gemini]

-----------------------------------------------------------------------------
(* Mends. *)

DisableThinking(b) == [b EXCEPT !.think = "off", !.knobs = TRUE]

StripReasoningPassbackFields(b) == [b EXCEPT !.chain = @ /\ b.shape # "chat"]

RelaxStrictToolChoice(b) ==
    [b EXCEPT !.choice = CASE @ # "strict" -> @
                           [] @ = "strict" /\ b.shape = "chat" -> "auto"
                           [] OTHER -> "text"]

EscapeToolResultRefs(b) == [b EXCEPT !.refs = @ /\ b.shape # "chat"]

Mend(b, mend) ==
    CASE mend.code = "relax_strict_tool_choice" -> RelaxStrictToolChoice(b)
      [] mend.code = "escape_tool_result_refs" -> EscapeToolResultRefs(b)
      [] mend.strip -> StripReasoningPassbackFields(DisableThinking(b))
      [] OTHER -> DisableThinking(b)

\* One after the other, in the order in which they were planned
ApplyConstraintMutators(b, planned) ==
    LET mended[n \in 0..Len(planned)] ==
            IF n = 0 THEN b ELSE Mend(mended[n - 1], planned[n])
    IN  mended[Len(planned)]

GoogleToolConfig(choice) == IF choice = "strict" THEN choice ELSE "auto"

\* Google's own body: what it has no word for is left out.
BuildGoogleNativeRequest(b) ==
    [b EXCEPT !.shape = "contents", !.think = "model", !.chain = FALSE, !.usage = FALSE,
              !.knobs = FALSE, !.schema = SanitizeGeminiSchema(@),
              !.choice = GoogleToolConfig(@)]

Outbound(a, u, planned) ==
    LET adapted == OpenRouterTools(AdaptRequestProtocol(TransformRequestBody(ClientBody(a), u, a),
                                                        u, a), u, a)
        final == ApplyConstraintMutators(ApplyProviderCompatibility(adapted, u, a), planned)
    IN  [body |-> IF GoogleNative(a, u) THEN BuildGoogleNativeRequest(final) ELSE final,
         host |-> Dispatch(a, u).host, path |-> Path(a, u),
         credential |-> Credential(a, u), through |-> Through(u)]

-----------------------------------------------------------------------------
(* The models, and what they say. *)

\* The address, the path and the credential each of them answers at.
Reaches(s, u) ==
    /\ u.proxied => s.through = "proxy"
    /\ s.host \in {u.openai, u.anthropic}
    /\ CASE s.body.shape = "contents" -> s.host = "google" /\ s.credential = "x-goog-api-key"
         [] s.body.shape = "chat" -> s.path = "/chat/completions" /\ s.credential = "authorization"
         [] s.body.shape = "messages" /\ s.host = "openrouter" ->
                s.path = "/messages" /\ s.credential = "authorization"
         [] OTHER -> s.path = "/v1/messages" /\ s.credential = "x-api-key"

\* What of a request a model does not take.
Complaints(s, u) ==
    LET b == s.body
    IN  {c \in {"address", "strict in thinking", "strict", "thinking", "passback", "refs",
                "schema", "limit", "usage", "tool", "choice", "knobs"} :
            CASE c = "address" -> ~Reaches(s, u)
              [] c = "strict in thinking" ->
                    b.choice = "strict" /\ \/ "strict in thinking" \in u.refuses /\ b.think # "off"
                                           \/ "strict, thinking or not" \in u.refuses
              [] c = "strict" -> b.choice = "strict" /\ "strict" \in u.refuses
              [] c = "thinking" -> b.think # "off" /\ "thinking" \in u.refuses
              [] c = "passback" -> (b.think # "off" \/ b.chain) /\ "passback" \in u.refuses
              [] c = "refs" -> b.refs /\ "refs" \in u.refuses
              [] c = "schema" -> ~GeminiTakes(b.schema) /\ "schema" \in u.refuses
              [] c = "limit" -> b.limit = "large" /\ "limit" \in u.refuses
              [] c = "usage" -> b.usage /\ "usage" \in u.refuses
              [] c = "tool" -> b.server # "none" /\ "tool" \in u.refuses
              [] c = "choice" -> b.choice = "text"
              [] OTHER -> b.knobs /\ "knobs" \in u.refuses}

Status(c) == CASE c = "address" -> 404 [] c = "capacity" -> 503 [] OTHER -> 400

\* classifyUpstreamError of OpenRouter's adapter, and of the others
RetryClass(c, host) ==
    CASE c = "capacity" /\ AdapterOf(host) = "openrouter" -> "provider_capacity"
      [] c = "tool" /\ AdapterOf(host) = "openrouter" -> "protocol_payload_incompatible"
      [] OTHER -> "unknown"

-----------------------------------------------------------------------------
(* What is read out of a message, and the mend that is planned from it. *)

MentionsThinking(c) == c \in {"strict in thinking", "thinking", "passback", "knobs"}
ForbidsStrictToolChoice(c) == c \in {"strict in thinking", "strict"}
RequiresReasoningContentPassback(c) == c = "passback"
RejectsThinkingMode(c) == MentionsThinking(c)
RejectsToolResultRef(c) == c = "refs"

\* The body as it was sent: Google's own has no tool_choice, no messages and no switches.
IsStrictToolChoice(b) == b.shape # "contents" /\ b.choice = "strict"
HasToolResultRefKeys(b) == b.shape = "chat" /\ b.refs
ThinkingOffShapesApplied(b) == b.knobs

Plans(c, b) ==
    << [code |-> "disable_thinking_for_strict_tool_choice", strip |-> FALSE,
        fits |-> MentionsThinking(c) /\ ForbidsStrictToolChoice(c) /\ IsStrictToolChoice(b)],
       [code |-> "relax_strict_tool_choice", strip |-> FALSE,
        fits |-> ForbidsStrictToolChoice(c) /\ IsStrictToolChoice(b)],
       [code |-> "disable_thinking", strip |-> RequiresReasoningContentPassback(c),
        fits |-> /\ RequiresReasoningContentPassback(c) \/ RejectsThinkingMode(c)
                 /\ \/ ~ThinkingOffShapesApplied(b)
                    \/ RequiresReasoningContentPassback(c) /\ b.shape # "contents"],
       [code |-> "escape_tool_result_refs", strip |-> FALSE,
        fits |-> RejectsToolResultRef(c) /\ HasToolResultRefKeys(b)] >>

\* The first that fits and has not been planned before, as a sequence of one, or none.
FirstOpen(plans, planned) ==
    LET applied == {planned[i].code : i \in DOMAIN planned}
        open == {i \in DOMAIN plans : plans[i].fits /\ plans[i].code \notin applied}
        first == CHOOSE i \in open : \A j \in open : i <= j
    IN  IF open = {} THEN <<>> ELSE <<[code |-> plans[first].code, strip |-> plans[first].strip]>>

\* Mutant: the mends are tried in another order, the demand for a tool given up first.
PlanRelaxingFirst(c, b, planned) ==
    LET p == Plans(c, b)
    IN  IF Status(c) = 400 THEN FirstOpen(<<p[2], p[1], p[3], p[4]>>, planned) ELSE <<>>

PlanConstraintRecovery(c, b, planned) ==
    IF Status(c) = 400 THEN FirstOpen(Plans(c, b), planned) ELSE <<>>

-----------------------------------------------------------------------------
OutboundInit ==
    /\ ask \in Asks /\ funnel \in Layers
    /\ \A i \in 1..Len(funnel) : Servable(ask, Upstream[funnel[i]])
    /\ layer = 1 /\ tries = 0
    /\ mends = [m \in {funnel[i] : i \in 1..Len(funnel)} |-> <<>>]
    /\ busy = [m \in DOMAIN mends |-> 0]
    /\ sends = [m \in DOMAIN mends |-> 0]
    /\ sent = Unset /\ refusal = Unset /\ moment = "loop"

SendRequest ==
    /\ moment = "loop" /\ tries < MaxTries
    /\ tries' = tries + 1
    /\ sent' = Outbound(ask, upstream, mends[model])
    /\ sends' = [sends EXCEPT ![model] = @ + 1]
    /\ moment' = "sent"
    /\ UNCHANGED <<ask, funnel, layer, mends, busy, refusal>>

Take ==
    /\ moment = "sent" /\ Complaints(sent, upstream) = {}
    /\ moment' = "answered"
    /\ UNCHANGED <<ask, funnel, layer, tries, mends, busy, sent, refusal, sends>>

\* One complaint at a time, whichever the upstream finds first.
Refuse ==
    /\ moment = "sent"
    /\ refusal' \in Complaints(sent, upstream)
                    \cup (IF "capacity" \in upstream.refuses THEN {"capacity"} ELSE {})
    /\ moment' = "refused"
    /\ UNCHANGED <<ask, funnel, layer, tries, mends, busy, sent, sends>>

CapacityRetries ==
    RetryClass(refusal, sent.host) = "provider_capacity" /\ busy[model] < MaxCapacity

RetryCapacity ==
    /\ moment = "refused" /\ CapacityRetries
    /\ busy' = [busy EXCEPT ![model] = @ + 1]
    /\ tries' = tries - 1
    /\ moment' = "loop"
    /\ UNCHANGED <<ask, funnel, layer, mends, sent, refusal, sends>>

Plan == PlanConstraintRecovery(refusal, sent.body, mends[model])

\* The mend is noted for this model and the attempt given back.
Recover ==
    /\ moment = "refused" /\ ~CapacityRetries /\ Plan # <<>>
    /\ mends' = [mends EXCEPT ![model] = @ \o Plan]
    /\ tries' = tries - 1
    /\ moment' = "loop"
    /\ UNCHANGED <<ask, funnel, layer, busy, sent, refusal, sends>>

\* A move to another layer needs an attempt.
ReserveAttemptBudget(n) == IF n >= MaxTries THEN MaxTries - 1 ELSE n

\* An error moves to the next layer, with an attempt kept for it, or is the answer.
FallBack ==
    /\ moment = "refused" /\ ~CapacityRetries /\ Plan = <<>>
    /\ IF layer < Len(funnel)
       THEN /\ layer' = layer + 1
            /\ tries' = ReserveAttemptBudget(tries)
            /\ moment' = "loop"
       ELSE moment' = "failed" /\ UNCHANGED <<layer, tries>>
    /\ UNCHANGED <<ask, funnel, mends, busy, sent, refusal, sends>>

OutboundNext ==
    SendRequest \/ Take \/ Refuse \/ RetryCapacity \/ Recover \/ FallBack

OutboundSpec == OutboundInit /\ [][OutboundNext]_outboundVars

-----------------------------------------------------------------------------
(* A model the gateway can satisfy: it is asked at its address, and what it refuses is among  *)
(* what the mends are for.                                                                *)

\* Known for an array by its items only, after its format was looked at
UntypedDates(s) ==
    /\ s.format = "date-time" /\ s.items # Unset
    /\ s.types \subseteq {"null"} /\ (s.types = {} => s.branches \subseteq {"null"})

Mendable(a, u) ==
    LET host == Dispatch(a, u).host
        chat == a.protocol = "openai" \/ ~AnthropicUpstream(a, u)
        Refuses(c) == c \in u.refuses
        reasons == u.refuses \cap {"strict in thinking", "strict, thinking or not", "thinking",
                                   "passback"}
    IN  /\ host \in {u.openai, u.anthropic}
        /\ host \in {"google", "gcli"} => chat
        \* the address is bare, or ends with the path that is asked
        /\ BaseTail(a, u) \in {"", DetermineUpstreamPath(a, u)}
        \* of others than OpenRouter nobody waits for capacity
        /\ Refuses("capacity") => host = "openrouter"
        \* what only known addresses of Google's models, or a ceiling, keep out
        /\ Refuses("schema") =>
              /\ GeminiTakes(a.schema) \/ host \in {"google", "gcli"}
              /\ ~UntypedDates(a.schema)
        /\ Refuses("limit") /\ a.limit = "large" => host = "google" \/ u.ceiling
        /\ Refuses("usage") /\ a.stream => host = "google" \/ ~chat
        \* tools of Anthropic's servers are left out of chats; only chats have the fields that are mended
        /\ Refuses("tool") /\ a.server # "none" => chat
        /\ Refuses("refs") /\ a.refs => chat
        /\ a.choice = "strict" /\ (Refuses("strict") \/ Refuses("strict, thinking or not")) => chat
        /\ GoogleNative(a, u) => reasons = {} /\ ~Refuses("strict")
        \* a model that does not know the switches cannot be switched off
        /\ Refuses("knobs") => reasons = {}
        \* Anthropic's own address is sent the thoughts it gave
        /\ Refuses("passback") /\ a.chain => chat \/ host # "claude"
        \* one code for both, and the reasoning is left out only the first time
        /\ ~(a.protocol = "openai" /\ a.chain /\ Refuses("thinking") /\ Refuses("passback"))

LeftOnlyIfHopeless ==
    \A i \in 1..Len(funnel) :
        (i < layer \/ (i = layer /\ moment = "failed")) =>
            \/ ~Mendable(ask, Upstream[funnel[i]])
            \/ "capacity" \in Upstream[funnel[i]].refuses /\ busy[funnel[i]] = MaxCapacity

AskedBoundedly ==
    /\ moment = "loop" => tries < MaxTries
    /\ \A m \in DOMAIN sends :
          sends[m] <= 4 + MaxCapacity + Cardinality({i \in 1..Len(funnel) : funnel[i] = m})

AnsweredAsAsked ==
    LET asked == Outbound(ask, upstream, <<>>).body
        changed == {f \in DOMAIN asked : sent.body[f] # asked[f]}
        RefusesOneOf(cs) == upstream.refuses \cap cs # {}
    IN  moment = "answered" =>
            /\ changed \subseteq {"choice", "think", "knobs", "chain", "refs"}
            /\ "choice" \in changed => RefusesOneOf({"strict", "strict, thinking or not"})
            /\ changed \cap {"think", "knobs"} # {} =>
                  RefusesOneOf({"strict in thinking", "strict, thinking or not", "thinking", "passback"})
            /\ "chain" \in changed => RefusesOneOf({"passback"})
            /\ "refs" \in changed => RefusesOneOf({"refs"})

\* A model is left only when it cannot be satisfied, however its refusals follow one another
\* and whatever was mended for the models before it; it is asked a bounded number of times,
\* the attempts of the request never running out over it; and the request it answers is the
\* client's but for what it refused: a call of a tool stays demanded if thinking could be
\* given up instead, and no mend of one model is in the request to another
\* (gatewayExecutor.ts:2208, providerConstraintRecovery.ts:182).
MendedAsNeeded == LeftOnlyIfHopeless /\ AskedBoundedly /\ AnsweredAsAsked

=============================================================================
