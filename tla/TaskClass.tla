----------------------------- MODULE TaskClass -----------------------------
(***************************************************************************)
(* The class of a request in strategy routing (services/strategyRouting.ts):  *)
(* what it is read from, and how long it stands while the request is cut, moved*)
(* for its size, refused and answered with nothing.                           *)
(*                                                                         *)
(* The patterns of the four analyses are data here.  A text is what they find *)
(* in it: signs of the whole text, its clauses with the mentions of a failure *)
(* in each, its clauses about bugs, its lines and fenced blocks by what they  *)
(* look like, and the utterances it contains.  What an analysis makes of its   *)
(* findings, and which analysis is asked first, is the subject.                *)
(***************************************************************************)
EXTENDS Integers, FiniteSetsExt

CONSTANTS
    Incoming,    \* [kind, text, images, size], see below
    LongFloor    \* LONG_CONTEXT_STRATEGY_MIN_INPUT_TOKENS

VARIABLES
    incoming,     \* as it came: kind "user_intent", "tool_continuation" or "client_sidecar"
    images,      \* of the body, which is cut and restored
    tokens,
    class,       \* strategyTaskType of the current attempt, "none" for undefined
    choice,      \* "first" or "again": the choice by class is open (strategyRoutingChecked), "made"
    judged       \* history: the last class a request was judged by, with the body it was judged on

taskVars == <<incoming, images, tokens, class, choice, judged>>

ASSUME IncomingAssumption == LongFloor \in Nat /\ \A r \in Incoming :
    /\ r.size \in Nat /\ r.images \in BOOLEAN
    /\ r.text.words \in [{"debug", "code", "writing"} -> Nat]

----------------------------------------------------------------------------
(* Failures (strategyRouteFailureAnalysis.ts).  A mention is a failure word of *)
(* a kind, runtime, layout or exception, with the signs around it.             *)

Silent == [signs |-> {}, mentions |-> {}, fence |-> 0]

\* hasAnyDiagnosticCue
Cue(c) == c.signs \cap {"diagnoses", "asks why"} # {}

\* collectDiagnosticErrorCandidates: the bare word "error" counts where it is to be looked into.
ErrorMeant(m, c) ==
    /\ "concept" \notin m.signs
    /\ \/ {"diagnoses", "names logs"} \subseteq c.signs
       \/ "aimed at" \in m.signs /\ (Cue(c) \/ "inspects" \in c.signs)
       \/ "this one" \in m.signs /\ "asks why" \in c.signs

\* collectClauseCandidates: a runtime word inside a layout or exception word is not counted.
Mentioned(c) ==
    {m \in c.mentions : /\ "error" \in m.signs => ErrorMeant(m, c)
                        /\ m.kind = "runtime" => "inside" \notin m.signs}

\* isConditionalSpec: what is to happen if it fails
Conditional(m, c, next) ==
    /\ ~Cue(c) /\ ~Cue(next)
    /\ \/ /\ "if before" \in m.signs
          /\ "acts" \in c.signs \cup next.signs \/ "starts with if" \in c.signs
       \/ "action, after" \in m.signs
       \/ "when follows" \in m.signs /\ ("acts after" \in m.signs \/ "acts" \in next.signs)

\* hasLocalSpecFrame: source, or words that make the failure the object of a task
Framed(m, c) ==
    \/ "code" \in c.signs \/ "framed" \in m.signs
    \/ /\ "cue near" \notin m.signs
       /\ \/ m.signs \cap {"mapped", "shown", "handled next"} # {}
          \/ "acts before" \in m.signs /\ (m.kind = "layout" \/ "object near" \in m.signs)

\* isCandidateNegated, hasCompletedSpecBoundaryBefore, hasLiveCueAfterLastSpecAction
Negated(m) == "negated" \in m.signs
Completed(m) == "done before" \in m.signs
StillLive(m) == "cue after action" \in m.signs

\* classifyException, classifyLayout, classifyRuntime: the failure is there, and not a topic.
Live(m, c, next) ==
    /\ ~Negated(m) /\ ~Conditional(m, c, next)
    /\ \/ Completed(m)
       \/ /\ m.kind = "exception" => "idiom" \notin c.signs
          /\ \/ StillLive(m)
             \/ m.kind = "exception" /\ "header" \in c.signs
             \/ IF "scrollbar" \in m.signs THEN "vanished" \in c.signs
                ELSE ~Framed(m, c) /\ (m.kind = "exception" => "handles" \notin c.signs)

----------------------------------------------------------------------------
(* Source and logs (strategyRouteContentAnalysis.ts), by counts of lines.      *)

\* looksLikeStructuredLogPaste
LogLike(l) ==
    /\ l.all # 0
    /\ \/ l.logs >= 3 /\ 2 * l.logs >= l.all
       \/ l.logs >= 2 /\ l.all <= 4 /\ 100 * l.logs >= 66 * l.all

\* sourceSyntaxStats: a strong line counts for three.
SourceLike(l) == l.strong >= 1 \/ 3 * l.strong + l.weak >= 6

IsSource(f) == f.language \/ (~LogLike(f.lines) /\ SourceLike(f.lines))

\* hasSourcePaste: with fenced blocks only they are looked at, and one that is a log never counts.
SourcePaste(t) ==
    IF t.fences # <<>>
    THEN \E i \in DOMAIN t.fences : ~LogLike(t.fences[i].lines) /\ IsSource(t.fences[i])
    ELSE SourceLike(t.lines) \/ "json" \in t.signs

StructuredPaste(t) == LogLike(t.lines) \/ ("reads logs" \in t.signs /\ t.lines.logs > 0)

\* maskFencedSourceForFailureAnalysis
Prose(t) == {i \in DOMAIN t.clauses :
                t.clauses[i].fence # 0 => ~IsSource(t.fences[t.clauses[i].fence])}

\* The clause after i
Following(t, i) ==
    LET later == {j \in Prose(t) : j > i}
    IN  IF later = {} THEN Silent ELSE t.clauses[Min(later)]

\* isLogAnalysisFailureTheme: what is to be looked for in a log has not happened here.
LogTheme(t, m, c) ==
    "reads logs" \in t.signs /\ "diagnoses" \notin c.signs /\ "log theme" \in m.signs

\* Mutant: a design clause suppresses every mention.
DesignFirst(t) ==
    /\ \E i \in Prose(t) : \E m \in Mentioned(t.clauses[i]) :
        /\ Live(m, t.clauses[i], Following(t, i))
        /\ ~LogTheme(t, m, t.clauses[i])
    /\ \A i \in Prose(t) : \A m \in Mentioned(t.clauses[i]) :
           Live(m, t.clauses[i], Following(t, i))

\* A design clause suppresses its own mention only (routingLiveFailures).
Failing(t) ==
    \E i \in Prose(t) : \E m \in Mentioned(t.clauses[i]) :
        /\ Live(m, t.clauses[i], Following(t, i))
        /\ ~LogTheme(t, m, t.clauses[i])

\* designSpec: failures are mentioned, and none is there.
DesignSpec(t) ==
    /\ ~Failing(t)
    /\ \E i \in Prose(t) : \E m \in Mentioned(t.clauses[i]) :
           ~Live(m, t.clauses[i], Following(t, i))

----------------------------------------------------------------------------
(* Bugs (strategyRouteBugAnalysis.ts).  A clause is the set of its signs.      *)

About(b) == b \cap {"brand", "ticket", "bug"} # {}

\* The words about a product or ticket are to be mended, not the product.
Maintained(b) == "maintained" \in b /\ ("ticket" \in b \/ "bug" \notin b)

Dropped(b) == b \cap {"declined", "resolved"} # {}

\* hasLiveFailure, hasActionableBug, hasBugAssertion with hasSeverityBug, hasUnsuppressedTicket
Broken(b) == "fails" \in b /\ b \cap {"behaviour", "unfailing"} = {} /\ About(b)
Worked(b) ==
    /\ b \cap {"acts", "pending"} # {} /\ ~Dropped(b)
    /\ About(b) /\ ~Maintained(b) /\ ~({"writing", "scoped"} \subseteq b)
Asserted(b) == "bug" \in b /\ "writing" \notin b /\ b \cap {"asserted", "severe"} # {}
Ticketed(b) == "ticket" \in b /\ "writing" \notin b /\ ~Maintained(b) /\ ~Dropped(b)

BugFound(t) == \E b \in t.bugs : Broken(b) \/ Worked(b) \/ Asserted(b)
IsDebug(t) == BugFound(t) \/ \E b \in t.bugs : Ticketed(b)
BareTicket(t) == IsDebug(t) /\ ~BugFound(t)

\* reason "writing_about_bug", isProductOnly
AboutBug(t) == ~IsDebug(t) /\ \E b \in t.bugs : "writing" \in b /\ About(b)
ProductOnly(t) ==
    /\ ~IsDebug(t) /\ \E b \in t.bugs : "brand" \in b
    /\ \A b \in t.bugs : b \cap {"ticket", "bug"} = {}

----------------------------------------------------------------------------
(* Utterances (strategyRouteUtterances.ts).                                  *)

UtteranceOrder == [debug |-> 1, code |-> 2, writing |-> 3, vision |-> 4, long_context |-> 5, general |-> 6]

\* hasStrongCodeDevIntent, hasStrongWritingIntent
Strong(t) == t.signs \cap {"strong code", "strong writing"} # {}

\* What a text contains counts by its length and its words; what it is, always.
Counts(t, u) ==
    \/ u.exact
    \/ /\ u.task # "general"
       /\ IF u.cjk THEN u.length > 6
          ELSE u.length >= 4 /\ (u.word => u.length >= 12 \/ (u.plain /\ u.length >= 8))
       /\ u.task = "long_context" =>
              u.length >= 8 /\ ~Strong(t)
       /\ u.task = "debug" => ~("feature" \in t.signs /\ u.length <= 10)

Score(u) == u.length + IF u.exact THEN 1000 ELSE 100

Better(u, v) ==
    \/ Score(u) > Score(v)
    \/ Score(u) = Score(v) /\ UtteranceOrder[u.task] <= UtteranceOrder[v.task]

\* matchStrategyUtterance: a short alias, or the best utterance
Hit(t) ==
    LET counted == {u \in t.hits : Counts(t, u)}
    IN  IF t.alias # "none" THEN t.alias
        ELSE IF counted = {} THEN "none"
        ELSE (CHOOSE u \in counted : \A v \in counted : Better(u, v)).task

\* hasLongContextLogAnalyzeSignal
LogSignal(t) ==
    /\ t.signs \cap {"studies logs", "migrates"} # {}
    /\ t.signs \cap {"adds logs", "only prints logs"} = {}
    /\ Strong(t) =>
           "analyzes logs" \in t.signs /\ t.signs \cap {"builds", "article"} = {}

\* isAgenticProtocolPayload
Agentic(t) == t.signs \cap {"tool result", "page or skill"} # {}

----------------------------------------------------------------------------
(* classifyStrategyTask, with the options that are set.                      *)

\* Before the text is read for what it asks
Opening(t, hasImages, options) ==
    LET sees == "skipVision" \notin options
    IN  IF sees /\ hasImages THEN "vision"
        ELSE IF "sidecar" \in t.signs THEN "general"
        ELSE IF sees /\ "picture" \in t.signs THEN "vision"
        ELSE IF Agentic(t) /\ "skipAgentic" \in options THEN "general"
        ELSE IF {"tool result", "error word"} \subseteq t.signs /\ "allowProtocolError" \in options
        THEN "debug"
        ELSE IF Agentic(t) THEN "code"
        ELSE IF sees /\ Hit(t) = "vision" THEN "vision"
        ELSE "none"

\* deferBareTicketToContent
Deferred(t) == BareTicket(t) /\ t.signs \cap {"writes", "reads logs"} # {}

DebugUtterance(t) ==
    /\ Hit(t) = "debug"
    /\ ~DesignSpec(t) /\ ~ProductOnly(t) /\ ~AboutBug(t) /\ ~Deferred(t)
    /\ "writes" \notin t.signs
    /\ "reads logs" \in t.signs => "diagnoses" \in t.signs

Debug(t) == Failing(t) \/ (IsDebug(t) /\ ~Deferred(t)) \/ DebugUtterance(t)

\* Logging is a subject to write about, or code to write (collectContentRouteEvidence).
ScopedLogging(t) == {"writes", "instruments", "scoped logging"} \subseteq t.signs
ExplicitCode(t) ==
    /\ ~ScopedLogging(t)
    /\ \/ "codes" \in t.signs /\ "completed" \notin t.signs
       \/ "instruments" \in t.signs /\ ("reads logs" \in t.signs => "configures" \in t.signs)

\* resolveContentRoute
ContentClass(t) ==
    IF ExplicitCode(t) \/ "file" \in t.signs THEN "code"
    ELSE IF "writes" \in t.signs THEN "writing"
    ELSE IF SourcePaste(t) THEN "code"
    ELSE IF "reads logs" \in t.signs \/ StructuredPaste(t) THEN "long_context"
    ELSE IF Hit(t) \in {"code", "writing", "long_context"} THEN Hit(t)
    ELSE IF "oversized" \in t.signs THEN "long_context"
    ELSE "none"

\* The scores of the words, where nothing else is found; words that name a failure do not count
\* then, since no failure is there.
ByWords(w) ==
    IF w["debug"] >= 5 /\ w["debug"] >= w["code"] /\ w["debug"] >= w["writing"] THEN "debug"
    ELSE IF w["code"] >= 5 /\ w["code"] >= w["writing"] THEN "code"
    ELSE IF w["writing"] >= 5 THEN "writing"
    ELSE "general"

Rest(t, options) ==
    LET noLong == "excludeLongContext" \in options
    IN  IF ContentClass(t) # "none" /\ ~(noLong /\ ContentClass(t) = "long_context")
        THEN ContentClass(t)
        ELSE IF DesignSpec(t) /\ t.signs \cap {"completed", "repaired"} # {} THEN "general"
        ELSE IF ~noLong /\ LogSignal(t) THEN "long_context"
        ELSE IF "code sign" \in t.signs THEN "code"
        ELSE IF "writing word" \in t.signs THEN "writing"
        ELSE ByWords(t.words)

ClassOf(t, hasImages, options) ==
    IF Opening(t, hasImages, options) # "none" THEN Opening(t, hasImages, options)
    ELSE IF Debug(t) THEN "debug"
    ELSE Rest(t, options)

\* applyLongContextStrategyTokenGate
FloorGated(t, c, n) ==
    IF c # "long_context" \/ n > LongFloor THEN c
    ELSE LET other == ClassOf(t, FALSE, {"excludeLongContext"})
         IN  IF other = "long_context" THEN "general" ELSE other

\* classifyIntentTaskType, which computeRoutingRequirements notes with a request
Intent ==
    ClassOf(incoming.text, FALSE,
            {"skipVision"} \cup IF incoming.kind = "tool_continuation"
                                THEN {"skipAgentic", "allowProtocolError"} ELSE {})

----------------------------------------------------------------------------
(* The request on its way.                                                   *)

Unjudged == [class |-> "none", images |-> FALSE, size |-> 0]

TaskInit ==
    /\ incoming \in Incoming
    /\ images = incoming.images /\ tokens = incoming.size
    /\ class = "none" /\ choice = "first" /\ judged = Unjudged

\* The rule of the class may be missing, invalid or the current model.
Judges(c, unused) ==
    /\ judged' = [class |-> c, images |-> images, size |-> tokens]
    /\ class' \in {c, unused}

FreshClass == FloorGated(incoming.text, ClassOf(incoming.text, FALSE, {}), tokens)

\* resolveStrategyRoutingDecision: images first; after a hop for a blank answer the class of before,
\* if a rule for it is there; a tool continuation is not read.
Decide ==
    /\ choice # "made" /\ incoming.kind # "client_sidecar"
    /\ \/ images /\ Judges("vision", class)
       \/ /\ ~images /\ choice = "again" /\ class \notin {"none", "vision", "long_context"}
          /\ Judges(class, class)
       \/ ~images /\ (choice = "again" \/ incoming.kind = "user_intent") /\ Judges(FreshClass, class)
       \/ ~images /\ choice = "first" /\ incoming.kind = "tool_continuation" /\ Judges("general", class)
    /\ choice' = "made"
    /\ UNCHANGED <<incoming, images, tokens>>

\* A sidecar, a client that names a small model, a layer without strategy routing.
Skip ==
    /\ choice # "made"
    /\ choice' = "made"
    /\ UNCHANGED <<incoming, images, tokens, class, judged>>

\* Older turns are cut or summarized, with their images; the turn that is read stays.
Shorten ==
    /\ tokens' \in 1..tokens - 1 /\ images' \in {FALSE, images}
    /\ UNCHANGED <<incoming, class, choice, judged>>

\* A window is exceeded, or the size gate, before the fetch or by the answer to it: no floor.
SizeHop ==
    /\ choice = "made" /\ class # "long_context"
    /\ class' \in {"long_context"} \cup IF images THEN {"vision"} ELSE {}
    /\ UNCHANGED <<incoming, images, tokens, choice, judged>>

\* The class a layer is chosen by after an error (resolveFallbackStrategyRoutingDecision)
LayerClass ==
    IF images THEN "vision"
    ELSE FloorGated(incoming.text,
                    IF class = "none" THEN ClassOf(incoming.text, FALSE, {}) ELSE class, tokens)

\* Another layer: for images one with a rule for them, otherwise its own model where the rule of
\* the class cannot be taken.
FallBack ==
    /\ choice = "made"
    /\ Judges(LayerClass, IF images THEN "vision" ELSE "none")
    /\ UNCHANGED <<incoming, images, tokens, choice>>

\* resolveLongContextChainTarget at the end of the chain; the guard for images
ToVision ==
    /\ choice = "made" /\ images
    /\ \/ class = "long_context" /\ class' = "vision"
       \/ class \notin {"vision", "long_context"} /\ class' = "none"
    /\ UNCHANGED <<incoming, images, tokens, choice, judged>>

\* applyEmptyOutputLayerHop: the uncut body, and the choice is open again.
EmptyHop ==
    /\ choice = "made"
    /\ images' = incoming.images /\ tokens' = incoming.size
    /\ class' = IF incoming.images THEN "vision" ELSE class
    /\ choice' = "again"
    /\ UNCHANGED <<incoming, judged>>

TaskNext == Decide \/ Skip \/ Shorten \/ SizeHop \/ FallBack \/ ToVision \/ EmptyHop

TaskSpec == TaskInit /\ [][TaskNext]_taskVars

----------------------------------------------------------------------------
(* Properties.                                                               *)

Sees(hasImages, t) ==
    hasImages \/ Opening(t, FALSE, {}) = "vision"

\* A request is judged to be about images while its body has some, and otherwise only if it brought
\* some or speaks of one.
VisionKept ==
    /\ judged.images => judged.class = "vision"
    /\ judged.class = "vision" => Sees(incoming.images, incoming.text)

\* What is judged long is long, whatever it was moved by before ("the 1M-token strategy floor",
\* strategyRouting.ts).
LongIsLong == judged.class = "long_context" => judged.size > LongFloor /\ ~judged.images

\* A failure that is stated plainly
PlainFailure(t) ==
    /\ Opening(t, FALSE, {}) = "none"
    /\ \E i \in Prose(t) : \E m \in t.clauses[i].mentions :
           m.kind = "runtime" /\ m.signs = {} /\ "code" \notin t.clauses[i].signs

\* A failure that is stated plainly is worked on as one, whatever the other clauses of the request
\* plan, write or quote and however often it is moved ("a design phrase does not suppress an
\* independent runtime failure elsewhere in the same request", strategyRouteFailureAnalysis.ts).
FailureSeen ==
    incoming.kind = "user_intent" /\ PlainFailure(incoming.text)
    => judged.class \in {"none", "vision", "debug", "long_context"}

\* Something that a class "debug" can rest on
Trouble(t) ==
    \/ \E i \in Prose(t) : \E m \in t.clauses[i].mentions : ~Negated(m)
    \/ \E b \in t.bugs : About(b) /\ b \cap {"fails", "acts", "pending", "asserted", "severe", "ticket"} # {}
    \/ Hit(t) = "debug"
    \/ t.words["debug"] >= 5

AlarmFounded == judged.class = "debug" => Trouble(incoming.text)

\* The class that is noted as the intent is the class the request is routed by, on every layer, but
\* for images and length ("Intent path mirrors strategy classification", strategyRouting.ts).
IntentKept ==
    incoming.kind = "user_intent" /\ Intent # "long_context"
    => judged.class \in {"none", "vision", "long_context", Intent}

\* The class of a request, each time it is used
ClassStands == VisionKept /\ LongIsLong /\ FailureSeen /\ AlarmFounded /\ IntentKept

=============================================================================
