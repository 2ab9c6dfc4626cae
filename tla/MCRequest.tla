----------------------------- MODULE MCRequest -----------------------------
(***************************************************************************)
(* What becomes of one request, a direction at a time: how it enters ("entry") and  *)
(* which provider and model it is asked of ("choice"), the class it is given, which *)
(* is read from its text, its conversation on its way up, and the stream of the      *)
(* reply on its way down, or an answer that comes whole or from Google.  theme says   *)
(* which part of the tables an instance varies.                                *)
(***************************************************************************)
EXTENDS StreamReply, Conversation, WholeAnswer, TaskClass, GatewayEntry, ModelChoice

CONSTANTS r1, k1, u1, g1, g2, a4, a6, one, net, bad, p1, p2, m1, m2, m3, c1, s1, s2

VARIABLES direction, theme


AllProtocols == {"openai", "anthropic", "responses"}
FirstIsCustom == {1}

MCAnswer(thoughts, text, calls, server) ==
    [thoughts |-> thoughts, text |-> text, calls |-> calls, server |-> server]

MCAnswers == {MCAnswer(TRUE, TRUE, 0, FALSE), MCAnswer(TRUE, FALSE, 1, FALSE),
              MCAnswer(FALSE, TRUE, 2, TRUE), MCAnswer(FALSE, FALSE, 2, FALSE)}

MCSetting(d, p, once, offered, n, e) ==
    [dialect |-> d, position |-> p, once |-> once, offered |-> offered, turns |-> n, exchanges |-> e]

MCSettings ==
    {MCSetting(d, "none", FALSE, d = "anthropic", 3, 1) : d \in AllProtocols}
      \cup {MCSetting(d, p, TRUE, FALSE, 2, 0) : d \in {"openai", "anthropic"},
              p \in {"append_system", "messages_unshift", "replace_system", "system"}}

MCPart(k, i) == [kind |-> k, id |-> i]
MCThought == MCPart("thought", 1)
MCWords == <<MCPart("text", 2), MCPart("text", 3)>>
MCTagged == <<MCPart("tagged", 1)>> \o MCWords
MCCalling == {<<MCPart("text", 2), MCPart("call", 3), MCPart("call", 4)>>, <<MCThought, MCPart("call", 3)>>}
MCCut == <<MCPart("text", 2), MCPart("call", 9)>>     \* the arguments of the call are cut short
MCSpeaking == {<<>>, MCWords, <<MCThought>> \o MCWords, <<MCThought>>}

MCDatum(parts, stop) == [parts |-> parts, stop |-> stop, usage |-> stop # "none"]
MCOrigin(api, speaking, stops, calling, stop) ==
    {[api |-> api, data |-> <<MCDatum(p, e)>>] : p \in speaking, e \in stops}
    \cup {[api |-> api, data |-> <<MCDatum(p, stop)>>] : p \in calling}

\* one datum, or up to two before it
MCBefore == {<<MCDatum(<<MCPart(k, 5)>>, "none")>> : k \in {"thought", "text", "call"}}
MCStreamed(o) ==
    {[o EXCEPT !.data = h \o @] : h \in {<<>>} \cup MCBefore \cup {x \o y : x, y \in MCBefore}}

MCOneOrigin == [api |-> "cache", data |-> <<MCDatum(MCWords, "stop")>>]

MCOrigins ==
    MCOrigin("chat", MCSpeaking \cup {MCTagged}, {"stop", "length", "content_filter"}, MCCalling, "tool_calls")
    \cup MCOrigin("chat", {MCCut}, {"length", "tool_calls"}, {}, "stop")
    \cup UNION {MCOrigin(api, MCSpeaking, {"end_turn", "max_tokens"}, MCCalling, stop) :
                   api \in {"message", "shaped"}, stop \in {"tool_use", "max_tokens"}}
    \cup UNION {MCStreamed(o) : o \in MCOrigin("google", MCSpeaking, {"STOP", "MAX_TOKENS", "SAFETY"}, MCCalling, "STOP")}
    \cup MCOrigin("cache", {MCWords, MCTagged}, {"stop"}, {}, "stop")
    \cup MCOrigin("error", {<<>>}, {"none"}, {}, "none")

MCLines(all, logs, strong, weak) == [all |-> all, logs |-> logs, strong |-> strong, weak |-> weak]
MCWord(debug, code, writing) == [debug |-> debug, code |-> code, writing |-> writing]
MCUtterance(task, length, exact, word) ==
    [task |-> task, length |-> length, exact |-> exact, cjk |-> FALSE, word |-> word, plain |-> TRUE]
MCMention(kind, signs) == [kind |-> kind, signs |-> signs]
MCClause(signs, mentions) == [signs |-> signs, mentions |-> mentions, fence |-> 0]

MCText(signs, clauses, bugs) ==
    [signs |-> signs, clauses |-> clauses, bugs |-> bugs, lines |-> MCLines(1, 0, 0, 0), fences |-> <<>>,
     alias |-> "none", hits |-> {}, words |-> MCWord(0, 0, 0)]
MCFailure(clause, signs) == MCClause(clause, {MCMention("runtime", signs)})
MCQuoted(language, logs, strong) ==
    [MCText({}, <<[MCFailure({}, {}) EXCEPT !.fence = 1]>>, {{"fails"}})
        EXCEPT !.fences = <<[language |-> language, lines |-> MCLines(3, logs, strong, 0)]>>]

\* A sentence each, with one that has it
MCFails == MCText({}, <<MCFailure({}, {})>>, {{"fails"}})                    \* the build fails
MCIf == MCText({"codes"},                                                   \* if it fails, show a banner
               <<MCFailure({"starts with if"}, {"if before"}), MCClause({"acts"}, {})>>, {{"fails"}, {}})
MCHandle == MCText({"codes"},                                               \* add a handler for timeouts
                   <<MCFailure({"acts"}, {"acts before", "object near"})>>, {{}})
MCNoMore == MCText({}, <<MCFailure({}, {"negated"})>>, {{"fails", "unfailing"}}) \* it never crashes
MCWhy == MCText({}, <<MCFailure({"asks why"}, {"error", "this one"})>>, {{}})     \* why this error
MCErrors == MCText({"writes"}, <<MCFailure({}, {"error", "concept"})>>, {{"writing"}}) \* error rates
MCLogs == MCText({"reads logs", "studies logs", "analyzes logs"},           \* find failures in the logs
                 <<MCFailure({"names logs"}, {"log theme"})>>, {{}})
MCNotes == MCText({"writes", "strong writing", "writing word"},             \* write notes on the crash
                  <<MCFailure({"acts"}, {"framed"})>>, {{"writing"}})
MCBar == MCText({}, <<MCClause({}, {MCMention("layout", {"scrollbar"})})>>, {{}})  \* scrollbar on the right
MCThrown == [MCText({}, <<MCClause({"header"}, {MCMention("exception", {}),       \* NullPointerException: null
                                                MCMention("runtime", {"inside"})})>>, {{}})
                EXCEPT !.hits = {MCUtterance("debug", 20, FALSE, TRUE)}]
MCFix == MCText({}, <<MCClause({"diagnoses"}, {})>>, {{"ticket", "acts"}})        \* fix BUG-12
MCTicket == MCText({}, <<MCClause({}, {})>>, {{"ticket"}})                        \* BUG-12
MCBrand == MCText({}, <<MCClause({}, {})>>, {{"brand"}})                          \* Bug Tracker
MCArticle == MCText({"writes", "strong writing", "writing word", "article"},      \* an article on bugs
                    <<MCClause({"acts"}, {})>>, {{"bug", "writing"}})
MCPicture == MCText({"picture"}, <<MCClause({}, {})>>, {{}})                      \* this screenshot
MCReminder == MCText({"tool result", "error word"}, <<MCFailure({}, {})>>, {{"fails"}})
MCPasted == [MCText({}, <<MCFailure({}, {})>>, {{"fails"}}) EXCEPT !.lines = MCLines(3, 3, 0, 0)]
MCMigrates == MCText({"migrates"}, <<MCClause({}, {})>>, {{}})
MCLong == MCText({"oversized"}, <<MCClause({}, {})>>, {{}})
MCUseless == [MCText({}, <<MCClause({}, {})>>, {{}}) EXCEPT !.words = MCWord(10, 3, 0)]
MCTimed == [MCFails EXCEPT !.hits = {MCUtterance("debug", 28, FALSE, FALSE),
                                     MCUtterance("writing", 13, FALSE, FALSE)}]

MCSentences == {MCFails, MCIf, MCHandle, MCNoMore, MCWhy, MCErrors, MCLogs, MCNotes, MCBar, MCThrown,
                MCFix, MCTicket, MCBrand, MCArticle, MCPicture, MCReminder, MCPasted, MCMigrates, MCLong,
                MCUseless, MCTimed, MCQuoted(TRUE, 0, 1), MCQuoted(FALSE, 3, 0), MCQuoted(FALSE, 0, 0)}
MCShort == {[MCText({}, <<MCClause({}, {})>>, {{}}) EXCEPT !.alias = a] : a \in {"vision", "debug", "long_context"}}

\* two sentences, the second without a fenced block
MCJoined(x, y) ==
    [signs |-> x.signs \cup y.signs, clauses |-> x.clauses \o y.clauses, bugs |-> x.bugs \cup y.bugs,
     lines |-> MCLines(x.lines.all + y.lines.all, x.lines.logs + y.lines.logs, 0, 0),
     fences |-> x.fences, alias |-> "none", hits |-> x.hits \cup y.hits,
     words |-> MCWord(x.words["debug"] + y.words["debug"], x.words["code"] + y.words["code"],
                      x.words["writing"] + y.words["writing"])]
MCJoinable == {y \in MCSentences : y.fences = <<>>}

MCRequest(kind, text, i, n) == [kind |-> kind, text |-> text, images |-> i, size |-> n]
MCOneRequest == MCRequest("user_intent", MCFails, FALSE, 2)
MCRequests ==
    {MCRequest(k, t, i, 2) : k \in {"user_intent", "tool_continuation"}, t \in MCSentences \cup MCShort, i \in BOOLEAN}
    \cup {MCRequest("user_intent", MCJoined(x, y), FALSE, 2) : x \in MCSentences, y \in MCJoinable}
    \cup {MCRequest("client_sidecar", [MCFails EXCEPT !.signs = {"sidecar"}], FALSE, 2)}

-----------------------------------------------------------------------------
(* Entry: a client with a key and the system's key, one user, two groups, an IPv4 and  *)
(* an IPv6 address, six texts of the rule, one with a token that does not parse.     *)

MCEntering == {r1}
MCKeys == {k1}
MCUsers == {u1}
MCGroups == {g1, g2}
MCOwnerOf == [k \in {k1} |-> u1]
MCV4 == {a4}
MCV6 == {a6}
MCTokens == {one, net, bad}
MCWellFormed == {one, net}
MCCovers == [t \in MCTokens |-> IF t = one THEN {a4} ELSE IF t = net THEN {a6} ELSE {}]
MCRules == {{}, {"any4"}, {one}, {one, "any6"}, {net}, {one, bad}}

EntryThemes == {"rule", "grants", "limits", "no key"}

\* Administrators may change any table in each theme.
EntryStart ==
    /\ direction # "entry" =>
          keys = [k \in Keys |-> [status |-> "active", expired |-> FALSE]] /\ granted = {}
    /\ EntryInit
    /\ rows[u1].role # "none" /\ ~keys[k1].expired
    /\ keys[k1].status = (IF theme = "no key" THEN "absent" ELSE "active")
    /\ theme # "rule" => rule = {}
    /\ theme # "grants" /\ direction = "entry" => granted = {u1}
    /\ IF theme \in {"grants", "limits"} THEN theme = "grants" => Cardinality(belongs) = 1
       ELSE belongs = {}
    /\ theme # "limits" => limits = [g \in Groups |-> 0] /\ rows[u1].limit = NoLimit
    /\ direction # "entry" => rows[u1].role = "user"

\* What a second request can meet of the first is the block lists compiled for it.
EntryMeets == EntryNext /\ (theme \notin {"rule", "no key"} => arrived' <= 1)

-----------------------------------------------------------------------------
(* Choice: six routes: in strategy mode; classic with a first layer without weight and  *)
(* weights short of 100; a legacy opc_agent row; a row without layers; one with a     *)
(* profile and two schedules, the first over midnight, the second to the start of the  *)
(* next day; one whose schedule forbids what the route allows.  Two calls of the user  *)
(* meet, or one call, one change by an administrator and a request.                *)

MCProviders == {p1, p2}
MCModels == {m1, m2, m3}
MCCallers == {c1}
MCSavers == {s1, s2}

Rule(task, p, m, on) == [task |-> task, provider |-> p, model |-> m, on |-> on]
Layer(p, m, w, strategy, rules) ==
    [provider |-> p, model |-> m, weight |-> w, strategy |-> strategy, rules |-> rules]
Row(mode, layers) ==
    [mode |-> mode, provider |-> layers[1].provider, model |-> layers[1].model,
     layers |-> layers, strategy |-> FALSE, rules |-> <<>>, allow |-> TRUE, profiles |-> <<>>,
     schedules |-> <<>>]

Matrix == <<Rule("other", p2, m2, TRUE), Rule("general", p1, m3, TRUE)>>
Strategic == Row("strategy", <<Layer(p1, m1, -1, TRUE, Matrix), Layer(p2, m2, -1, TRUE, <<>>)>>)
Weighted == Row("classic", <<Layer(p1, m1, 0, FALSE, <<>>), Layer(p2, m2, 50, FALSE, <<>>),
                             Layer(p1, m3, 20, FALSE, <<>>)>>)
Legacy == Row("opc_agent", <<Layer(p1, m1, -1, TRUE, <<Rule("general", p2, m2, TRUE)>>)>>)
Layerless == [Strategic EXCEPT !.layers = <<>>, !.strategy = TRUE, !.rules = Matrix]

Night == [days |-> {6}, start |-> 1320, end |-> 360, next |-> TRUE, daily |-> FALSE,
          provider |-> p2, model |-> m2, layers |-> <<>>, allow |-> TRUE]
Workday == [Night EXCEPT !.days = {0, 1}, !.start = 300, !.daily = TRUE, !.model = m3,
                         !.provider = p1, !.layers = <<Layer(p1, m3, -1, TRUE, Matrix)>>]
Profiled == [Strategic EXCEPT
    !.profiles = <<[name |-> m3, mode |-> "classic",
                    layers |-> <<Layer(p2, m1, 30, FALSE, <<>>), Layer(p1, m2, 70, FALSE, <<>>)>>]>>,
    !.schedules = <<Night, Workday>>]
Forbidden == [Strategic EXCEPT !.schedules = <<[Workday EXCEPT !.allow = FALSE]>>]

MCCases == {Strategic, Weighted, Legacy, Layerless, Profiled, Forbidden}

Want(client, model, rules) == [client |-> client, model |-> model, rules |-> rules]
MCWants == {Want(TRUE, m2, <<>>), Want(FALSE, m2, <<>>), Want(FALSE, NoModel, <<>>),
            Want(FALSE, m1, <<Rule("other", p2, m3, TRUE)>>)}
MCOffers == {{<<p1, m1>>, <<p1, m2>>}, {<<p2, m2>>}}

\* Sunday 01:00 and 06:40, Tuesday 02:00
MCTimes == {60, 400, 3000}
MCRolls == {0, 70}

ChoiceThemes == {"calls", "request"}

ChoiceStart ==
    /\ direction # "choice" => route = Strategic /\ listed = {<<p2, m2>>}
    /\ ChoiceInit
    /\ route.schedules = <<>> => now = 60

ChoiceMeets ==
    /\ ChoiceNext
    /\ theme = "calls" => asks' = 0 /\ edits' = 0
    /\ theme = "request" => saves' <= 1 /\ savers'[s2] = savers[s2]
    /\ now' # now => route.schedules # <<>>

-----------------------------------------------------------------------------
ReplyVars == <<vars, conversationVars, answerVars, taskVars>>

RequestInit ==
    /\ direction \in {"entry", "choice", "up", "down", "whole", "class"}
    /\ theme \in CASE direction = "entry" -> EntryThemes
                   [] direction = "choice" -> ChoiceThemes
                   [] OTHER -> {"none"}
    /\ direction = "class" \/ (direction # "class" /\ incoming = MCOneRequest)
    /\ \/ direction = "whole"
       \/ /\ direction # "whole" /\ origin = MCOneOrigin
          /\ asked = [client |-> "openai", streaming |-> FALSE, seen |-> 0]
    /\ direction = "down" \/ (direction # "down" /\ protocol = "openai")
    /\ \/ direction = "up"
       \/ direction # "up" /\ setting = MCSetting("openai", "none", FALSE, FALSE, 3, 1)
    /\ Init /\ ConversationInit /\ AnswerInit /\ TaskInit /\ EntryStart /\ ChoiceStart
    /\ direction # "down" => ~s.plain

RequestNext ==
    /\ UNCHANGED <<direction, theme>>
    /\ \/ direction = "entry" /\ EntryMeets /\ UNCHANGED <<ReplyVars, choiceVars>>
       \/ direction = "choice" /\ ChoiceMeets /\ UNCHANGED <<ReplyVars, entryVars>>
       \/ direction \in {"entry", "choice"}       \* where the bounds end them
          /\ UNCHANGED <<ReplyVars, entryVars, choiceVars>>
       \/ /\ UNCHANGED <<entryVars, choiceVars>>
          /\ \/ direction = "up" /\ ConversationNext /\ UNCHANGED <<vars, answerVars, taskVars>>
             \/ direction = "down" /\ Next /\ UNCHANGED <<conversationVars, answerVars, taskVars>>
             \/ direction = "whole" /\ AnswerNext /\ UNCHANGED <<vars, conversationVars, taskVars>>
             \/ direction = "class" /\ TaskNext /\ UNCHANGED <<vars, conversationVars, answerVars>>

RequestSpec ==
    RequestInit /\ [][RequestNext]_<<direction, theme, ReplyVars, entryVars, choiceVars>>

=============================================================================
