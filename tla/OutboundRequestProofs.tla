----------------------- MODULE OutboundRequestProofs -----------------------
(***************************************************************************)
(* What is sent to models that refuse parts of it, for any models, addresses,      *)
(* requests, routes and numbers of attempts: a model that can be satisfied is       *)
(* mended for until it answers, in a bounded number of requests, and is asked for     *)
(* what the client asked but for what it refused.                                  *)
(*                                                                         *)
(* First what the operators do: any number of mends (MendedFields), the choice of      *)
(* the next one (PlanIs), the schemas (SchemaTaken), the body as it is sent           *)
(* (SentFields).  Then the two facts that carry the invariant: what is planned is for   *)
(* something the model refuses (PlanFits), and whatever a model complains of that can    *)
(* be satisfied has a mend left (ComplaintMended).                                 *)
(***************************************************************************)
EXTENDS OutboundRequest, AsyncQueueOpsProofs

-----------------------------------------------------------------------------
(* Mends.                                                                  *)

MendCodes == {"disable_thinking_for_strict_tool_choice", "relax_strict_tool_choice",
              "disable_thinking", "escape_tool_result_refs"}

OffCodes == {"disable_thinking_for_strict_tool_choice", "disable_thinking"}

\* The mends that can be planned: only to disable thinking may strip reasoning as well
Mends == {m \in [code : MendCodes, strip : BOOLEAN] : m.strip => m.code = "disable_thinking"}

Bodies ==
    [shape : {"messages", "chat", "contents"}, choice : {"auto", "strict", "text"},
     think : {"model", "off"}, chain : BOOLEAN, refs : BOOLEAN,
     server : {"none", "typed", "untyped"}, schema : Schemas, limit : {"small", "large"},
     usage : BOOLEAN, knobs : BOOLEAN]

Codes(planned, n) == {planned[i].code : i \in 1..n}
Strips(planned, n) == \E i \in 1..n : planned[i].strip

Relaxed(b) == IF b.choice # "strict" THEN b.choice ELSE IF b.shape = "chat" THEN "auto" ELSE "text"

\* What the first n mends have made of a body b
MendedBy(v, b, planned, n) ==
    /\ v \in Bodies
    /\ v.shape = b.shape /\ v.server = b.server /\ v.schema = b.schema /\ v.limit = b.limit
    /\ v.usage = b.usage
    /\ v.choice = IF "relax_strict_tool_choice" \in Codes(planned, n) THEN Relaxed(b) ELSE b.choice
    /\ v.think = IF OffCodes \cap Codes(planned, n) # {} THEN "off" ELSE b.think
    /\ v.knobs <=> b.knobs \/ OffCodes \cap Codes(planned, n) # {}
    /\ v.chain <=> b.chain /\ ~(Strips(planned, n) /\ b.shape = "chat")
    /\ v.refs <=> b.refs /\ ~("escape_tool_result_refs" \in Codes(planned, n) /\ b.shape = "chat")

\* The recursion of the mends exists.
LEMMA MendingSteps ==
  ASSUME NEW b, NEW planned, Len(planned) \in Nat
  PROVE  \E f : /\ f[0] = b
                /\ \A i \in 1..Len(planned) : f[i] = Mend(f[i - 1], planned[i])
                /\ ApplyConstraintMutators(b, planned) = f[Len(planned)]
<1> DEFINE n == Len(planned)
           F(f, m) == [i \in 0..m |-> IF i = 0 THEN b ELSE Mend(f[i - 1], planned[i])]
           Without == {m \in Nat : ~\E f : f = F(f, m)}
           mended == CHOOSE f : f = F(f, n)
<1>1. Without = {}
  <2> SUFFICES ASSUME Without # {} PROVE FALSE
    OBVIOUS
  <2>1. PICK m \in Without : \A j \in Without : m <= j
    BY LeastNumber
  <2>2. CASE m = 0
    <3> DEFINE f == [i \in 0..0 |-> b]
    <3>1. f = F(f, 0)
      OBVIOUS
    <3> QED
      BY <2>1, <2>2, <3>1
  <2>3. CASE m # 0
    <3>1. m - 1 \in Nat /\ ~(m <= m - 1)
      BY <2>1, <2>3
    <3>2. m - 1 \notin Without
      BY <2>1, <3>1
    <3>3. PICK f : f = F(f, m - 1)
      BY <3>1, <3>2
    <3> DEFINE h == [i \in 0..m |-> IF i = m THEN Mend(f[m - 1], planned[m]) ELSE f[i]]
    <3>4. h = F(h, m)
      <4>1. ASSUME NEW i \in 0..m PROVE h[i] = F(h, m)[i]
        <5>1. CASE i = 0
          BY <2>1, <2>3, <3>1, <3>3, <5>1
        <5>2. CASE i = m
          BY <2>1, <2>3, <3>1, <5>2
        <5>3. CASE i # 0 /\ i # m
          <6>1. i \in 0..(m - 1) /\ i - 1 \in 0..(m - 1) /\ i - 1 # m
            BY <2>1, <5>3
          <6>2. h[i] = f[i] /\ h[i - 1] = f[i - 1]
            BY <2>1, <5>3, <6>1
          <6>3. f[i] = Mend(f[i - 1], planned[i])
            BY <3>3, <5>3, <6>1
          <6> QED
            BY <5>3, <6>2, <6>3
        <5> QED
          BY <5>1, <5>2, <5>3
      <4> QED
        BY <4>1
    <3> QED
      BY <2>1, <3>4
  <2> QED
    BY <2>2, <2>3
<1>2. \E f : f = F(f, n)
  BY <1>1
<1>3. mended = F(mended, n)
  BY <1>2
<1>4. ApplyConstraintMutators(b, planned) = mended[n]
  BY DEF ApplyConstraintMutators
<1>5. 0 \in 0..n /\ \A i \in 1..n : i \in 0..n /\ i # 0
  OBVIOUS
<1> HIDE DEF n, mended
<1>6. F(mended, n)[0] = b
  BY <1>5
<1>7. \A i \in 1..n : F(mended, n)[i] = Mend(mended[i - 1], planned[i])
  BY <1>5
<1> QED
  BY <1>3, <1>4, <1>6, <1>7 DEF n

\* One more mend.
LEMMA OneMend ==
  ASSUME NEW b \in Bodies, NEW m \in Mends
  PROVE  LET v == Mend(b, m)
         IN  /\ v \in Bodies
             /\ v.shape = b.shape /\ v.server = b.server /\ v.schema = b.schema
             /\ v.limit = b.limit /\ v.usage = b.usage
             /\ v.choice = IF m.code = "relax_strict_tool_choice" THEN Relaxed(b) ELSE b.choice
             /\ v.think = IF m.code \in OffCodes THEN "off" ELSE b.think
             /\ v.knobs <=> b.knobs \/ m.code \in OffCodes
             /\ v.chain <=> b.chain /\ ~(m.strip /\ b.shape = "chat")
             /\ v.refs <=> b.refs /\ ~(m.code = "escape_tool_result_refs" /\ b.shape = "chat")
<1>1. CASE m.code = "relax_strict_tool_choice"
  BY <1>1 DEF Mend, RelaxStrictToolChoice, Bodies, Mends, OffCodes, Relaxed
<1>2. CASE m.code = "escape_tool_result_refs"
  BY <1>2 DEF Mend, EscapeToolResultRefs, Bodies, Mends, OffCodes
<1>3. CASE m.code \in OffCodes /\ m.strip
  BY <1>3 DEF Mend, StripReasoningPassbackFields, DisableThinking, Bodies, Mends, OffCodes
<1>4. CASE m.code \in OffCodes /\ ~m.strip
  BY <1>4 DEF Mend, DisableThinking, Bodies, Mends, OffCodes
<1> QED
  BY <1>1, <1>2, <1>3, <1>4 DEF Mends, MendCodes, OffCodes

\* What planned mends make of a body, whatever their order.
LEMMA MendedFields ==
  ASSUME NEW b \in Bodies, NEW planned \in Seq(Mends)
  PROVE  MendedBy(ApplyConstraintMutators(b, planned), b, planned, Len(planned))
<1> DEFINE n == Len(planned)
<1>1. n \in Nat /\ \A i \in 1..n : planned[i] \in Mends
  OBVIOUS
<1>2. PICK f : /\ f[0] = b /\ \A i \in 1..n : f[i] = Mend(f[i - 1], planned[i])
               /\ ApplyConstraintMutators(b, planned) = f[n]
  BY <1>1, MendingSteps
<1> DEFINE Fails == {i \in 0..n : ~MendedBy(f[i], b, planned, i)}
<1>3. Fails = {}
  <2> SUFFICES ASSUME Fails # {} PROVE FALSE
    OBVIOUS
  <2> Fails \subseteq Nat
    BY <1>1
  <2> HIDE DEF Fails
  <2>1. PICK m \in Fails : \A j \in Fails : m <= j
    BY LeastNumber
  <2> USE DEF Fails
  <2>2. CASE m = 0
    <3>1. Codes(planned, 0) = {} /\ ~Strips(planned, 0)
      BY DEF Codes, Strips
    <3>2. MendedBy(b, b, planned, 0)
      BY <3>1 DEF MendedBy, Bodies
    <3> QED
      BY <1>2, <2>1, <2>2, <3>2
  <2>3. CASE m # 0
    <3>1. m \in 1..n /\ m - 1 \in 0..n /\ ~(m <= m - 1)
      BY <1>1, <2>1, <2>3
    <3>2. MendedBy(f[m - 1], b, planned, m - 1)
      BY <2>1, <3>1
    <3>3. /\ f[m] = Mend(f[m - 1], planned[m]) /\ planned[m] \in Mends
      BY <1>1, <1>2, <3>1
    <3>4. Codes(planned, m) = Codes(planned, m - 1) \cup {planned[m].code}
      <4>1. 1..m = (1..(m - 1)) \cup {m}
        BY <3>1
      <4> QED  BY <4>1 DEF Codes
    <3>5. Strips(planned, m) <=> Strips(planned, m - 1) \/ planned[m].strip
      <4>1. 1..m = (1..(m - 1)) \cup {m}
        BY <3>1
      <4> QED  BY <4>1 DEF Strips
    <3> DEFINE w == f[m - 1]
               v == f[m]
               c == planned[m]
               K == Codes(planned, m - 1)
               S == Strips(planned, m - 1)
    <3>6. w \in Bodies /\ c \in Mends /\ v = Mend(w, c)
      BY <3>2, <3>3 DEF MendedBy
    <3> HIDE DEF w, v, c
    <3>7. /\ v \in Bodies
          /\ v.shape = w.shape /\ v.server = w.server /\ v.schema = w.schema
          /\ v.limit = w.limit /\ v.usage = w.usage
          /\ v.choice = IF c.code = "relax_strict_tool_choice" THEN Relaxed(w) ELSE w.choice
          /\ v.think = IF c.code \in OffCodes THEN "off" ELSE w.think
          /\ v.knobs <=> w.knobs \/ c.code \in OffCodes
          /\ v.chain <=> w.chain /\ ~(c.strip /\ w.shape = "chat")
          /\ v.refs <=> w.refs /\ ~(c.code = "escape_tool_result_refs" /\ w.shape = "chat")
      BY <3>6, OneMend
    <3>8. /\ w.shape = b.shape /\ w.server = b.server /\ w.schema = b.schema /\ w.limit = b.limit
          /\ w.usage = b.usage
          /\ w.choice = IF "relax_strict_tool_choice" \in K THEN Relaxed(b) ELSE b.choice
          /\ w.think = IF OffCodes \cap K # {} THEN "off" ELSE b.think
          /\ w.knobs <=> b.knobs \/ OffCodes \cap K # {}
          /\ w.chain <=> b.chain /\ ~(S /\ b.shape = "chat")
          /\ w.refs <=> b.refs /\ ~("escape_tool_result_refs" \in K /\ b.shape = "chat")
      BY <3>2 DEF MendedBy, w
    <3>9. OffCodes \cap Codes(planned, m) # {} <=> OffCodes \cap K # {} \/ c.code \in OffCodes
      BY <3>4 DEF c
    <3>10. v.choice = IF "relax_strict_tool_choice" \in Codes(planned, m) THEN Relaxed(b) ELSE b.choice
      <4>1. "relax_strict_tool_choice" \in Codes(planned, m) <=>
              "relax_strict_tool_choice" \in K \/ c.code = "relax_strict_tool_choice"
        BY <3>4 DEF c
      <4> HIDE DEF K
      <4> QED
        BY <3>7, <3>8, <4>1 DEF Relaxed
    <3>11. v.think = IF OffCodes \cap Codes(planned, m) # {} THEN "off" ELSE b.think
      BY <3>7, <3>8, <3>9
    <3>12. v.knobs <=> b.knobs \/ OffCodes \cap Codes(planned, m) # {}
      BY <3>7, <3>8, <3>9
    <3>13. v.chain <=> b.chain /\ ~(Strips(planned, m) /\ b.shape = "chat")
      BY <3>5, <3>7, <3>8 DEF c
    <3>14. v.refs <=> b.refs /\ ~("escape_tool_result_refs" \in Codes(planned, m) /\ b.shape = "chat")
      BY <3>4, <3>7, <3>8 DEF c
    <3>15. MendedBy(v, b, planned, m)
      BY <3>7, <3>8, <3>10, <3>11, <3>12, <3>13, <3>14 DEF MendedBy
    <3> QED
      BY <2>1, <3>15 DEF v
  <2> QED
    BY <2>2, <2>3
<1>4. n \in 0..n
  BY <1>1
<1> QED
  BY <1>2, <1>3, <1>4

-----------------------------------------------------------------------------
(* The choice of a mend.                                                     *)

\* The first open plan, or none.
LEMMA FirstOpenIs ==
  ASSUME NEW plans, DOMAIN plans = 1..4, NEW planned
  PROVE  LET applied == {planned[i].code : i \in DOMAIN planned}
             Open(i) == plans[i].fits /\ plans[i].code \notin applied
         IN  \/ FirstOpen(plans, planned) = <<>> /\ \A i \in 1..4 : ~Open(i)
             \/ \E i \in 1..4 :
                  /\ Open(i) /\ \A j \in 1..4 : j < i => ~Open(j)
                  /\ FirstOpen(plans, planned) =
                        <<[code |-> plans[i].code, strip |-> plans[i].strip]>>
<1> DEFINE applied == {planned[i].code : i \in DOMAIN planned}
           open == {i \in DOMAIN plans : plans[i].fits /\ plans[i].code \notin applied}
           first == CHOOSE i \in open : \A j \in open : i <= j
<1>1. open \subseteq 1..4 /\ open \subseteq Nat
  OBVIOUS
<1>2. CASE open = {}
  BY <1>2 DEF FirstOpen
<1>3. CASE open # {}
  <2>1. \E i \in open : \A j \in open : i <= j
    BY <1>1, <1>3, LeastNumber
  <2>2. first \in open /\ \A j \in open : first <= j
    BY <2>1
  <2>3. FirstOpen(plans, planned) = <<[code |-> plans[first].code, strip |-> plans[first].strip]>>
    BY <1>3 DEF FirstOpen
  <2> HIDE DEF first
  <2>4. \A j \in 1..4 : j < first => j \notin open
    BY <1>1, <2>2
  <2> QED
    BY <1>1, <2>2, <2>3, <2>4
<1> QED
  BY <1>2, <1>3

-----------------------------------------------------------------------------
(* Schemas.                                                                *)

\* One type is picked, if there is one besides null.
LEMMA PickIs ==
  ASSUME NEW T
  PROVE  \/ Pick(T) = {} /\ T \subseteq {"null"}
         \/ \E t \in T : t # "null" /\ Pick(T) = {t}
<1>1. CASE T \ {"null"} = {}
  BY <1>1 DEF Pick
<1>2. CASE T \ {"null"} # {}
  <2> DEFINE t == CHOOSE t \in T \ {"null"} : TRUE
  <2>1. t \in T \ {"null"}
    BY <1>2
  <2>2. Pick(T) = {t}
    BY <1>2 DEF Pick
  <2> QED  BY <2>1, <2>2
<1> QED
  BY <1>1, <1>2

\* One type or none, and not null
Typed(T) == T = {} \/ \E t \in Types : t # "null" /\ T = {t}

\* A sanitized schema is one Gemini takes, unless it is an untyped one of dates; what is sanitized
\* has a type if it has items.
LEMMA SchemaTaken ==
  ASSUME NEW s \in Schemas
  PROVE  LET v == SanitizeGeminiSchema(s)
         IN  /\ v \in Schemas /\ ~UntypedDates(v)
             /\ ~UntypedDates(s) => GeminiTakes(v)
<1> DEFINE s1 == LiftSchemaCombinators(s)
           s2 == LiftConstToEnum(s1)
           s3 == NormalizeSchemaType(s2)
           s4 == SanitizeGeminiEnum(s3)
           s5 == SanitizeGeminiStringFormat(s4)
           s6 == SanitizeGeminiArray(s5)
<1>1. /\ s1 \in Schemas /\ s1.branches = {} /\ s1.format = s.format /\ s1.items = s.items
      /\ s1.types = IF s.types = {} THEN Pick(s.branches) ELSE s.types
  <2>1. Pick(s.branches) \in SUBSET Types
    BY PickIs DEF Schemas
  <2> QED  BY <2>1 DEF LiftSchemaCombinators, Schemas
<1> HIDE DEF s1
<1>2. /\ s2 \in Schemas /\ s2.branches = {} /\ s2.format = s.format /\ s2.items = s.items
      /\ s2.types = s1.types /\ s2.const = {}
  BY <1>1 DEF LiftConstToEnum, Schemas
<1> HIDE DEF s2
<1>3. /\ s3 \in Schemas /\ s3.branches = {} /\ s3.format = s.format /\ s3.items = s.items
      /\ s3.types = Pick(s1.types) /\ s3.const = {}
  <2>1. Pick(s2.types) \in SUBSET Types
    BY <1>2, PickIs DEF Schemas
  <2> QED  BY <1>2, <2>1 DEF NormalizeSchemaType, Schemas
<1>4. Typed(s3.types)
  BY <1>1, <1>3, PickIs DEF Typed, Schemas
<1>5. s3.types = {} /\ s.format = "date-time" /\ s.items # Unset => UntypedDates(s)
  <2>1. ASSUME Pick(s1.types) = {} PROVE s1.types \subseteq {"null"}
    BY <2>1, PickIs
  <2>2. ASSUME s.types = {}, s1.types \subseteq {"null"} PROVE s.branches \subseteq {"null"}
    BY <1>1, <2>2, PickIs
  <2> QED  BY <1>1, <1>3, <2>1, <2>2 DEF UntypedDates
<1> HIDE DEF s3
<1> DEFINE kinds == s3.enum \ {"null"}
<1>6. /\ s4 \in Schemas /\ s4.branches = {} /\ s4.format = s.format /\ s4.items = s.items
      /\ s4.const = {} /\ s4.enum \subseteq {"string"}
      /\ Typed(s4.types) /\ (s4.types = {} => s3.types = {})
  <2>1. CASE kinds = {"string"}
    BY <1>3, <1>4, <2>1 DEF SanitizeGeminiEnum, Schemas
  <2>2. CASE kinds # {"string"} /\ s3.types = {} /\ \E k \in kinds : kinds = {k}
    <3>1. kinds \subseteq Types
      BY <1>3 DEF Schemas
    <3>2. \E t \in kinds : kinds = {t}
      BY <2>2
    <3>3. Typed(kinds)
      BY <3>1, <3>2 DEF Typed
    <3>4. s4 = [s3 EXCEPT !.enum = {}, !.types = kinds]
      BY <2>2 DEF SanitizeGeminiEnum
    <3> QED  BY <1>3, <2>2, <3>1, <3>3, <3>4 DEF Schemas
  <2>3. CASE kinds # {"string"} /\ ~(s3.types = {} /\ \E k \in kinds : kinds = {k})
    <3>1. s4 = [s3 EXCEPT !.enum = {}, !.types = s3.types]
      BY <2>3 DEF SanitizeGeminiEnum
    <3> QED  BY <1>3, <1>4, <3>1 DEF Schemas
  <2> QED  BY <2>1, <2>2, <2>3
<1> HIDE DEF s4
<1>7. /\ s5 \in Schemas /\ s5.branches = {} /\ s5.items = s.items /\ s5.const = {}
      /\ s5.enum \subseteq {"string"} /\ s5.types = s4.types
      /\ s5.format = Unset \/ (s5.format = "date-time" /\ s.format = "date-time"
                                 /\ s4.types \subseteq {"string"})
  <2> DEFINE format == IF s4.types \in {{}, {"string"}} /\ s4.format = "date-time"
                       THEN s4.format ELSE Unset
  <2>1. s5 = [s4 EXCEPT !.format = format]
    BY DEF SanitizeGeminiStringFormat
  <2>2. format \in {Unset, "date-time", "email"}
    OBVIOUS
  <2>3. format = Unset \/ (format = "date-time" /\ s.format = "date-time"
                             /\ s4.types \subseteq {"string"})
    BY <1>6
  <2> HIDE DEF format
  <2> QED  BY <1>6, <2>1, <2>2, <2>3 DEF Schemas
<1> HIDE DEF s5
<1>8. /\ s6 \in Schemas /\ s6.branches = {} /\ s6.const = {} /\ s6.enum \subseteq {"string"}
      /\ s6.format = s5.format
      /\ s6.types = IF s4.types = {} /\ s.items # Unset THEN {"array"} ELSE s4.types
      /\ s6.types = {"array"} => s6.items = "typed"
      /\ s6.types = {} => s6.items = Unset
  <2> DEFINE types == IF s5.types = {} /\ s5.items # Unset THEN {"array"} ELSE s5.types
             items == IF types = {"array"} THEN "typed" ELSE s5.items
  <2>1. types \in SUBSET Types /\ items \in {Unset, "bare", "typed"}
    BY <1>7 DEF Schemas, Types
  <2>2. s6 = [s5 EXCEPT !.types = types, !.items = items]
    BY DEF SanitizeGeminiArray
  <2>3. types = {} => items = Unset
    BY <1>7
  <2>4. types = IF s4.types = {} /\ s.items # Unset THEN {"array"} ELSE s4.types
    BY <1>7
  <2>5. types = {"array"} => items = "typed"
    OBVIOUS
  <2> HIDE DEF types, items
  <2> QED  BY <1>7, <2>1, <2>2, <2>3, <2>4, <2>5 DEF Schemas
<1> HIDE DEF s6
<1>9. Typed(s6.types)
  BY <1>6, <1>8 DEF Typed, Types
<1>10. Cardinality(s6.types) <= 1 /\ "null" \notin s6.types
  <2>1. Cardinality(s6.types) \in {0, 1}
    BY <1>9, FS_EmptySet, FS_Singleton DEF Typed
  <2> QED  BY <1>9, <2>1 DEF Typed
<1>11. ~UntypedDates(s6)
  <2>1. ASSUME s6.types \subseteq {"null"} PROVE s6.types = {}
    BY <1>9, <2>1 DEF Typed
  <2> QED  BY <1>8, <2>1 DEF UntypedDates
<1>12. ASSUME ~UntypedDates(s), s6.format # Unset
       PROVE  s6.format = "date-time" /\ s6.types \subseteq {"string"}
  <2>1. s.format = "date-time" /\ s5.format = "date-time" /\ s4.types \subseteq {"string"}
    BY <1>7, <1>8, <1>12
  <2>2. ~(s4.types = {} /\ s.items # Unset)
    BY <1>5, <1>6, <1>12, <2>1
  <2> QED  BY <1>8, <2>1, <2>2
<1>13. ~UntypedDates(s) => GeminiTakes(s6)
  BY <1>8, <1>10, <1>12 DEF GeminiTakes
<1>14. SanitizeGeminiSchema(s) = s6
  BY DEF SanitizeGeminiSchema, s1, s2, s3, s4, s5, s6
<1> QED
  BY <1>8, <1>11, <1>13, <1>14

-----------------------------------------------------------------------------
(* The body before it is mended.                                             *)

Base(a, u) ==
    ApplyProviderCompatibility(
        OpenRouterTools(AdaptRequestProtocol(TransformRequestBody(ClientBody(a), u, a), u, a), u, a),
        u, a)

\* The model is asked in OpenAI's dialect.
AsChat(a, u) == ~AnthropicUpstream(a, u)

\* Where a request goes, in which dialect, and what is known of the address
LEMMA Dispatched ==
  ASSUME NEW a \in Requests, NEW u \in Upstreams
  PROVE  /\ RouteProtocol(a, u) \in {"openai", "anthropic"}
         /\ EffectiveProtocol(a, u) \in {"openai", "anthropic"}
         /\ a.protocol = "openai" => RouteProtocol(a, u) = "openai" /\ AsChat(a, u)
         /\ EffectiveProtocol(a, u) = "anthropic" <=> AnthropicUpstream(a, u)
         /\ Dispatch(a, u).host # "openrouter" => EffectiveProtocol(a, u) = RouteProtocol(a, u)
         /\ Dispatch(a, u).host = "openrouter" =>
              (NativeAnthropic(a, u) <=> AnthropicUpstream(a, u))
         /\ Dispatch(a, u).host # "openrouter" => ~NativeAnthropic(a, u)
<1>1. RouteProtocol(a, u) \in {"openai", "anthropic"}
  BY DEF RouteProtocol
<1>2. Dispatch(a, u).slot \in {"openai", "anthropic"}
  <2> DEFINE primary == RouteProtocol(a, u)
             other == Alternate(primary)
  <2>1. primary \in {"openai", "anthropic"} /\ other \in {"openai", "anthropic"}
    BY <1>1 DEF Alternate
  <2>2. \/ Dispatch(a, u).slot = primary
        \/ Dispatch(a, u).slot = other
    <3>1. CASE u[primary] # Unset
      BY <3>1 DEF Dispatch
    <3>2. CASE u[primary] = Unset /\ AdapterOf(u[other]) # "transparent"
      BY <3>2 DEF Dispatch
    <3>3. CASE u[primary] = Unset /\ AdapterOf(u[other]) = "transparent"
      BY <3>3 DEF Dispatch
    <3> QED  BY <3>1, <3>2, <3>3
  <2> QED  BY <2>1, <2>2
<1> DEFINE d == Dispatch(a, u)
<1>3. a.protocol \in {"openai", "anthropic"}
  BY DEF Requests
<1>4. AdapterOf(d.host) = "openrouter" <=> d.host = "openrouter"
  BY DEF AdapterOf
<1>5. NativeAnthropic(a, u) <=>
        d.host = "openrouter" /\ a.protocol = "anthropic" /\ d.slot = "anthropic"
  BY <1>4 DEF NativeAnthropic
<1>6. EffectiveProtocol(a, u) =
        IF d.host = "openrouter" /\ a.protocol = "anthropic" THEN d.slot ELSE RouteProtocol(a, u)
  BY <1>4 DEF EffectiveProtocol
<1>7. a.protocol = "openai" => RouteProtocol(a, u) = "openai"
  BY DEF RouteProtocol
<1> HIDE DEF d
<1>8. AnthropicUpstream(a, u) <=> EffectiveProtocol(a, u) = "anthropic"
  BY <1>1, <1>3, <1>5, <1>6, <1>7 DEF AnthropicUpstream
<1> QED
  BY <1>1, <1>2, <1>3, <1>5, <1>6, <1>7, <1>8 DEF AsChat, d

LEMMA BaseBody ==
  ASSUME NEW a \in Requests, NEW u \in Upstreams
  PROVE  LET b == Base(a, u)
             profile == CompatibilityProfile(u, a)
         IN  /\ b \in Bodies
             /\ b.shape = IF AsChat(a, u) THEN "chat" ELSE "messages"
             /\ b.choice = a.choice
             /\ ~b.knobs
             /\ b.chain => /\ a.chain /\ (AsChat(a, u) => a.protocol = "openai")
                           /\ (~AsChat(a, u) => Dispatch(a, u).host = "claude")
             /\ b.refs => a.refs /\ profile = "none"
             /\ b.server # "none" => a.server # "none" /\ (AsChat(a, u) => a.protocol = "openai")
             /\ b.schema = IF profile # "none" THEN SanitizeGeminiSchema(a.schema) ELSE a.schema
             /\ b.limit = "large" =>
                  a.limit = "large" /\ ~u.ceiling /\ profile # "first_party_google_openai"
             /\ b.usage => /\ a.stream /\ AsChat(a, u)
                           /\ profile # "first_party_google_openai"
<1> DEFINE b0 == ClientBody(a)
           b1 == TransformRequestBody(b0, u, a)
           b2 == AdaptRequestProtocol(b1, u, a)
           b3 == OpenRouterTools(b2, u, a)
           b4 == ApplyProviderCompatibility(b3, u, a)
           chat == AsChat(a, u)
<1>0. a.protocol \in {"openai", "anthropic"} /\ (a.protocol = "openai" => chat)
  BY Dispatched DEF Requests
<1>1. /\ b0 \in Bodies /\ b0.shape = IF a.protocol = "anthropic" THEN "messages" ELSE "chat"
      /\ b0.choice = a.choice /\ b0.knobs = FALSE /\ b0.chain = a.chain /\ b0.refs = a.refs
      /\ b0.server = a.server /\ b0.schema = a.schema /\ b0.limit = a.limit
  BY DEF ClientBody, Bodies, Requests
<1> HIDE DEF b0
<1>2. /\ b1 \in Bodies /\ b1.shape = b0.shape
      /\ b1.choice = a.choice /\ b1.knobs = FALSE /\ b1.chain = a.chain /\ b1.refs = a.refs
      /\ b1.server = a.server /\ b1.schema = a.schema
      /\ b1.limit = IF u.ceiling /\ a.limit = "large" THEN "small" ELSE a.limit
      /\ b1.usage <=> a.stream /\ chat
  BY <1>1 DEF TransformRequestBody, Bodies, AsChat
<1> HIDE DEF b1
<1>3. /\ b2 \in Bodies /\ b2.shape = IF chat THEN "chat" ELSE "messages"
      /\ b2.choice = a.choice /\ b2.knobs = FALSE /\ b2.refs = a.refs
      /\ b2.schema = a.schema /\ b2.limit = b1.limit /\ b2.usage = b1.usage
      /\ b2.chain => /\ a.chain /\ (chat => a.protocol = "openai")
                     /\ ~chat => Dispatch(a, u).host = "claude"
      /\ b2.server # "none" => a.server # "none" /\ (chat => a.protocol = "openai")
  <2>1. CASE b1.shape = "messages" /\ chat
    BY <1>2, <2>1 DEF AdaptRequestProtocol, Bodies, AsChat
  <2>2. CASE b1.shape = "messages" /\ ~chat /\ Dispatch(a, u).host # "claude"
    BY <1>2, <2>2 DEF AdaptRequestProtocol, Bodies, AsChat, NormalizeCompatibleAnthropicBody
  <2>3. CASE b1.shape = "messages" /\ ~chat /\ Dispatch(a, u).host = "claude"
    <3>1. b2 = b1
      BY <2>3 DEF AdaptRequestProtocol, AsChat
    <3> QED  BY <1>0, <1>2, <2>3, <3>1
  <2>4. CASE b1.shape # "messages"
    <3>1. b2 = b1
      BY <2>4 DEF AdaptRequestProtocol, AsChat
    <3> QED  BY <1>0, <1>1, <1>2, <2>4, <3>1
  <2> QED  BY <2>1, <2>2, <2>3, <2>4
<1> HIDE DEF b2
<1>4. /\ b3 \in Bodies /\ b3.shape = b2.shape
      /\ b3.choice = a.choice /\ b3.knobs = FALSE /\ b3.refs = a.refs
      /\ b3.schema = a.schema /\ b3.limit = b1.limit /\ b3.usage = b1.usage
      /\ b3.chain = b2.chain
      /\ b3.server # "none" => b2.server # "none"
  BY <1>3 DEF OpenRouterTools, Bodies
<1> HIDE DEF b3
<1> DEFINE profile == CompatibilityProfile(u, a)
           usage == b3.usage /\ profile # "first_party_google_openai"
           limit == IF profile = "first_party_google_openai" /\ b3.limit = "large" THEN "small"
                    ELSE b3.limit
           schema == IF profile # "none" THEN SanitizeGeminiSchema(a.schema) ELSE a.schema
           refs == b3.refs /\ profile = "none"
<1>5. b4 = [b3 EXCEPT !.usage = usage, !.limit = limit, !.schema = schema, !.refs = refs]
  BY <1>4 DEF ApplyProviderCompatibility
<1>6. schema \in Schemas
  BY SchemaTaken DEF Requests
<1>7. limit \in {"small", "large"} /\ (limit = "large" => profile # "first_party_google_openai"
                                         /\ b3.limit = "large")
  BY <1>4 DEF Bodies
<1>8. usage \in BOOLEAN /\ (usage => b3.usage /\ profile # "first_party_google_openai")
  OBVIOUS
<1>9. refs \in BOOLEAN /\ (refs => b3.refs /\ profile = "none")
  OBVIOUS
<1> HIDE DEF b4, usage, limit, schema, refs
<1>10. /\ b4 \in Bodies /\ b4.shape = b3.shape /\ b4.choice = b3.choice /\ b4.knobs = b3.knobs
       /\ b4.chain = b3.chain /\ b4.server = b3.server /\ b4.refs = refs /\ b4.usage = usage
       /\ b4.limit = limit /\ b4.schema = schema
  BY <1>4, <1>5, <1>6, <1>7, <1>8, <1>9 DEF Bodies
<1>11. Base(a, u) = b4
  BY DEF Base, b0, b1, b2, b3, b4
<1>12. b4.limit = "large" =>
          a.limit = "large" /\ ~u.ceiling /\ profile # "first_party_google_openai"
  BY <1>2, <1>4, <1>7, <1>10
<1>13. b4.usage => a.stream /\ chat /\ profile # "first_party_google_openai"
  BY <1>2, <1>4, <1>8, <1>10
<1>14. b4.refs => a.refs /\ profile = "none"
  BY <1>4, <1>9, <1>10
<1>15. b4.schema = IF profile # "none" THEN SanitizeGeminiSchema(a.schema) ELSE a.schema
  BY <1>10 DEF schema
<1>16. b4.chain => /\ a.chain /\ (chat => a.protocol = "openai")
                   /\ ~chat => Dispatch(a, u).host = "claude"
  BY <1>3, <1>4, <1>10
<1>17. b4.server # "none" => a.server # "none" /\ (chat => a.protocol = "openai")
  BY <1>3, <1>4, <1>10
<1>18. b4.knobs = FALSE
  BY <1>4, <1>10
<1> HIDE DEF profile, chat
<1>19. /\ b4 \in Bodies /\ b4.shape = (IF chat THEN "chat" ELSE "messages") /\ b4.choice = a.choice
  BY <1>3, <1>4, <1>10
<1> QED
  BY <1>11, <1>12, <1>13, <1>14, <1>15, <1>16, <1>17, <1>18, <1>19 DEF chat, profile

-----------------------------------------------------------------------------
(* The body as it is sent.                                                   *)

\* b is what a model u is sent of the request a after the mends planned.
SentBy(b, a, u, planned) ==
    LET base == Base(a, u)
        native == GoogleNative(a, u)
        codes == Codes(planned, Len(planned))
        off == OffCodes \cap codes # {}
        choice == IF "relax_strict_tool_choice" \in codes THEN Relaxed(base) ELSE base.choice
    IN  /\ b \in Bodies
        /\ b.shape = IF native THEN "contents" ELSE base.shape
        /\ b.server = base.server /\ b.limit = base.limit
        /\ b.schema = IF native THEN SanitizeGeminiSchema(base.schema) ELSE base.schema
        /\ b.usage <=> base.usage /\ ~native
        /\ b.choice = IF native THEN GoogleToolConfig(choice) ELSE choice
        /\ b.think = IF native THEN "model" ELSE IF off THEN "off" ELSE base.think
        /\ b.knobs <=> off /\ ~native
        /\ b.chain <=> /\ base.chain /\ ~native
                       /\ ~(Strips(planned, Len(planned)) /\ base.shape = "chat")
        /\ b.refs <=> base.refs /\ ~("escape_tool_result_refs" \in codes /\ base.shape = "chat")

LEMMA SentFields ==
  ASSUME NEW a \in Requests, NEW u \in Upstreams, NEW planned \in Seq(Mends)
  PROVE  SentBy(Outbound(a, u, planned).body, a, u, planned)
<1> DEFINE base == Base(a, u)
           native == GoogleNative(a, u)
           n == Len(planned)
           codes == Codes(planned, n)
           final == ApplyConstraintMutators(base, planned)
           b == Outbound(a, u, planned).body
<1>1. base \in Bodies /\ ~base.knobs
  BY BaseBody
<1>2. MendedBy(final, base, planned, n)
  BY <1>1, MendedFields
<1>3. b = IF native THEN BuildGoogleNativeRequest(final) ELSE final
  BY DEF Outbound, Base
<1> HIDE DEF base, native, final, b
<1>4. ASSUME ~native PROVE SentBy(b, a, u, planned)
  <2>1. b = final
    BY <1>3, <1>4
  <2>2. /\ final \in Bodies
        /\ final.shape = base.shape /\ final.server = base.server /\ final.schema = base.schema
        /\ final.limit = base.limit /\ final.usage = base.usage
        /\ final.choice = IF "relax_strict_tool_choice" \in codes THEN Relaxed(base) ELSE base.choice
        /\ final.think = IF OffCodes \cap codes # {} THEN "off" ELSE base.think
        /\ final.knobs <=> base.knobs \/ OffCodes \cap codes # {}
        /\ final.chain <=> base.chain /\ ~(Strips(planned, n) /\ base.shape = "chat")
        /\ final.refs <=> base.refs /\ ~("escape_tool_result_refs" \in codes /\ base.shape = "chat")
    BY <1>2 DEF MendedBy
  <2> HIDE DEF codes
  <2>3. b.knobs <=> (OffCodes \cap codes # {}) /\ ~native
    BY <1>1, <1>4, <2>1, <2>2
  <2>4. b.usage <=> base.usage /\ ~native
    BY <1>4, <2>1, <2>2
  <2>5. b.chain <=> /\ base.chain /\ ~native
                    /\ ~(Strips(planned, n) /\ base.shape = "chat")
    BY <1>4, <2>1, <2>2
  <2>6. b.refs <=> base.refs /\ ~("escape_tool_result_refs" \in codes /\ base.shape = "chat")
    BY <2>1, <2>2
  <2>7. /\ b \in Bodies /\ b.shape = base.shape /\ b.server = base.server /\ b.limit = base.limit
        /\ b.schema = base.schema
        /\ b.choice = IF "relax_strict_tool_choice" \in codes THEN Relaxed(base) ELSE base.choice
        /\ b.think = IF OffCodes \cap codes # {} THEN "off" ELSE base.think
    BY <2>1, <2>2
  <2> QED
    BY <1>4, <2>3, <2>4, <2>5, <2>6, <2>7 DEF SentBy, base, native, codes
<1>5. ASSUME native PROVE SentBy(b, a, u, planned)
  <2>1. b = [final EXCEPT !.shape = "contents", !.think = "model", !.chain = FALSE, !.usage = FALSE,
                          !.knobs = FALSE, !.schema = SanitizeGeminiSchema(@),
                          !.choice = GoogleToolConfig(@)]
    BY <1>3, <1>5 DEF BuildGoogleNativeRequest
  <2>2. final \in Bodies
    BY <1>2 DEF MendedBy
  <2>3. SanitizeGeminiSchema(final.schema) \in Schemas
    BY <2>2, SchemaTaken DEF Bodies
  <2>4. GoogleToolConfig(final.choice) \in {"auto", "strict", "text"}
    BY DEF GoogleToolConfig
  <2> DEFINE schema == SanitizeGeminiSchema(final.schema)
             choice == GoogleToolConfig(final.choice)
             off == FALSE
  <2>5. off \in BOOLEAN /\ ~off
    OBVIOUS
  <2>6. b = [final EXCEPT !.shape = "contents", !.think = "model", !.chain = off, !.usage = off,
                          !.knobs = off, !.schema = schema, !.choice = choice]
    BY <2>1
  <2> HIDE DEF schema, choice, off
  <2>7. b = [shape |-> "contents", choice |-> choice, think |-> "model", chain |-> off,
             refs |-> final.refs, server |-> final.server, schema |-> schema,
             limit |-> final.limit, usage |-> off, knobs |-> off]
    BY <2>2, <2>6 DEF Bodies
  <2>8. /\ b \in Bodies /\ b.shape = "contents" /\ b.think = "model" /\ b.choice = choice
        /\ b.schema = schema /\ b.server = final.server /\ b.limit = final.limit
        /\ b.refs = final.refs /\ b.chain = off /\ b.usage = off /\ b.knobs = off
    BY <2>2, <2>3, <2>4, <2>5, <2>7 DEF Bodies, schema, choice
  <2>9. /\ final.server = base.server /\ final.limit = base.limit /\ final.schema = base.schema
        /\ final.choice = IF "relax_strict_tool_choice" \in Codes(planned, n) THEN Relaxed(base)
                          ELSE base.choice
        /\ final.refs <=>
             base.refs /\ ~("escape_tool_result_refs" \in Codes(planned, n) /\ base.shape = "chat")
    BY <1>2 DEF MendedBy
  <2>10. schema = SanitizeGeminiSchema(base.schema)
    BY <2>9 DEF schema
  <2>11. choice = GoogleToolConfig(IF "relax_strict_tool_choice" \in codes THEN Relaxed(base)
                                   ELSE base.choice)
    BY <2>9 DEF choice
  <2> HIDE DEF codes
  <2>12. /\ ~b.knobs /\ ~b.usage /\ ~b.chain
    BY <2>5, <2>8
  <2>13. b.refs <=> base.refs /\ ~("escape_tool_result_refs" \in codes /\ base.shape = "chat")
    BY <2>8, <2>9 DEF codes
  <2>14. /\ b \in Bodies /\ b.shape = "contents" /\ b.think = "model" /\ b.choice = choice
         /\ b.schema = schema /\ b.server = base.server /\ b.limit = base.limit
    BY <2>8, <2>9
  <2> QED
    BY <1>5, <2>10, <2>11, <2>12, <2>13, <2>14 DEF SentBy, base, native, codes
<1> QED
  BY <1>4, <1>5 DEF b

-----------------------------------------------------------------------------
(* What a model that can be satisfied complains of.                           *)

Reasons == {"strict in thinking", "strict, thinking or not", "thinking", "passback"}

\* Mendable, part by part
LEMMA MendableParts ==
  ASSUME NEW a \in Requests, NEW u \in Upstreams, Mendable(a, u)
  PROVE  LET host == Dispatch(a, u).host
             chat == AsChat(a, u)
         IN  /\ host \in {u.openai, u.anthropic}
             /\ host \in {"google", "gcli"} => chat
             /\ BaseTail(a, u) \in {"", DetermineUpstreamPath(a, u)}
             /\ "capacity" \in u.refuses => host = "openrouter"
             /\ "schema" \in u.refuses =>
                  /\ GeminiTakes(a.schema) \/ host \in {"google", "gcli"}
                  /\ ~UntypedDates(a.schema)
             /\ "limit" \in u.refuses /\ a.limit = "large" => host = "google" \/ u.ceiling
             /\ "usage" \in u.refuses /\ a.stream => host = "google" \/ ~chat
             /\ "tool" \in u.refuses /\ a.server # "none" => chat
             /\ "refs" \in u.refuses /\ a.refs => chat
             /\ a.choice = "strict" /\ u.refuses \cap {"strict", "strict, thinking or not"} # {} => chat
             /\ GoogleNative(a, u) => u.refuses \cap Reasons = {} /\ "strict" \notin u.refuses
             /\ "knobs" \in u.refuses => u.refuses \cap Reasons = {}
             /\ "passback" \in u.refuses /\ a.chain => chat \/ host # "claude"
             /\ ~(a.protocol = "openai" /\ a.chain /\ {"thinking", "passback"} \subseteq u.refuses)
<1>1. (a.protocol = "openai" \/ ~AnthropicUpstream(a, u)) <=> AsChat(a, u)
  BY Dispatched DEF AsChat
<1> DEFINE host == Dispatch(a, u).host
           chat == AsChat(a, u)
<1> HIDE DEF host, chat
<1>2. /\ host \in {u.openai, u.anthropic}
      /\ host \in {"google", "gcli"} => chat
      /\ BaseTail(a, u) \in {"", DetermineUpstreamPath(a, u)}
      /\ "capacity" \in u.refuses => host = "openrouter"
      /\ "schema" \in u.refuses =>
           /\ GeminiTakes(a.schema) \/ host \in {"google", "gcli"}
           /\ ~UntypedDates(a.schema)
      /\ "limit" \in u.refuses /\ a.limit = "large" => host = "google" \/ u.ceiling
      /\ "usage" \in u.refuses /\ a.stream => host = "google" \/ ~chat
      /\ "tool" \in u.refuses /\ a.server # "none" => chat
      /\ "refs" \in u.refuses /\ a.refs => chat
  BY <1>1 DEF Mendable, host, chat
<1>3. /\ a.choice = "strict" /\ u.refuses \cap {"strict", "strict, thinking or not"} # {} => chat
      /\ GoogleNative(a, u) => u.refuses \cap Reasons = {} /\ "strict" \notin u.refuses
      /\ "knobs" \in u.refuses => u.refuses \cap Reasons = {}
      /\ "passback" \in u.refuses /\ a.chain => chat \/ host # "claude"
      /\ ~(a.protocol = "openai" /\ a.chain /\ {"thinking", "passback"} \subseteq u.refuses)
  BY <1>1 DEF Mendable, host, chat, Reasons
<1> QED
  BY <1>2, <1>3 DEF host, chat

\* It is asked where it answers.
LEMMA Reached ==
  ASSUME NEW a \in Requests, NEW u \in Upstreams, NEW planned \in Seq(Mends), Mendable(a, u)
  PROVE  Reaches(Outbound(a, u, planned), u)
<1> DEFINE s == Outbound(a, u, planned)
           host == Dispatch(a, u).host
           chat == AsChat(a, u)
           native == GoogleNative(a, u)
<1>1. /\ s.host = host /\ s.path = Path(a, u) /\ s.credential = Credential(a, u)
      /\ s.through = Through(u)
  BY DEF Outbound
<1>2. s.body.shape = IF native THEN "contents" ELSE IF chat THEN "chat" ELSE "messages"
  BY SentFields, BaseBody DEF SentBy
<1>3. a.protocol \in {"openai", "anthropic"}
  BY DEF Requests
<1>4. /\ host \in {u.openai, u.anthropic} /\ (host \in {"google", "gcli"} => chat)
      /\ BaseTail(a, u) \in {"", DetermineUpstreamPath(a, u)}
  BY MendableParts
<1>5. ~native => Path(a, u) = DetermineUpstreamPath(a, u)
  BY <1>4 DEF Path
<1>6. /\ a.protocol = "openai" => chat
      /\ EffectiveProtocol(a, u) = "anthropic" <=> ~chat
      /\ host = "openrouter" => (NativeAnthropic(a, u) <=> ~chat)
      /\ host # "openrouter" => ~NativeAnthropic(a, u)
  BY Dispatched DEF AsChat
<1>7. u.proxied => s.through = "proxy"
  BY <1>1 DEF Through
<1> HIDE DEF s, chat
<1>8. CASE native
  <2>1. host = "google" /\ Credential(a, u) = "x-goog-api-key"
    BY <1>8 DEF GoogleNative, Credential
  <2> QED
    BY <1>1, <1>2, <1>4, <1>7, <1>8, <2>1 DEF Reaches, s
<1>9. CASE ~native /\ chat
  <2>1. Path(a, u) = "/chat/completions"
    BY <1>5, <1>6, <1>9 DEF DetermineUpstreamPath
  <2>2. Credential(a, u) = "authorization"
    BY <1>6, <1>9 DEF Credential
  <2> QED
    BY <1>1, <1>2, <1>4, <1>7, <1>9, <2>1, <2>2 DEF Reaches, s
<1>10. CASE ~native /\ ~chat /\ host = "openrouter"
  <2>1. Path(a, u) = "/messages"
    BY <1>5, <1>6, <1>10 DEF DetermineUpstreamPath
  <2>2. BearerForOpenRouter(a, u)
    BY <1>3, <1>6, <1>10 DEF BearerForOpenRouter, AdapterOf
  <2>3. Credential(a, u) = "authorization"
    BY <1>10, <2>2 DEF Credential
  <2> QED
    BY <1>1, <1>2, <1>4, <1>7, <1>10, <2>1, <2>3 DEF Reaches, s
<1>11. CASE ~native /\ ~chat /\ host # "openrouter"
  <2>1. Path(a, u) = "/v1/messages"
    BY <1>5, <1>6, <1>11 DEF DetermineUpstreamPath
  <2>2. ~BearerForOpenRouter(a, u)
    BY <1>11 DEF BearerForOpenRouter, AdapterOf
  <2>3. Credential(a, u) = "x-api-key"
    BY <1>6, <1>11, <2>2 DEF Credential
  <2> QED
    BY <1>1, <1>2, <1>4, <1>7, <1>11, <2>1, <2>3 DEF Reaches, s
<1> QED
  BY <1>8, <1>9, <1>10, <1>11

\* What each complaint is about.
LEMMA ComplaintIs ==
  ASSUME NEW s, NEW u, NEW c \in Complaints(s, u)
  PROVE  LET b == s.body
         IN  \/ c = "address" /\ ~Reaches(s, u)
             \/ /\ c = "strict in thinking" /\ b.choice = "strict"
                /\ \/ "strict in thinking" \in u.refuses /\ b.think # "off"
                   \/ "strict, thinking or not" \in u.refuses
             \/ c = "strict" /\ b.choice = "strict" /\ "strict" \in u.refuses
             \/ c = "thinking" /\ b.think # "off" /\ "thinking" \in u.refuses
             \/ c = "passback" /\ (b.think # "off" \/ b.chain) /\ "passback" \in u.refuses
             \/ c = "refs" /\ b.refs /\ "refs" \in u.refuses
             \/ c = "schema" /\ ~GeminiTakes(b.schema) /\ "schema" \in u.refuses
             \/ c = "limit" /\ b.limit = "large" /\ "limit" \in u.refuses
             \/ c = "usage" /\ b.usage /\ "usage" \in u.refuses
             \/ c = "tool" /\ b.server # "none" /\ "tool" \in u.refuses
             \/ c = "choice" /\ b.choice = "text"
             \/ c = "knobs" /\ b.knobs /\ "knobs" \in u.refuses
<1>1. c \in {"address", "strict in thinking", "strict", "thinking", "passback", "refs",
             "schema", "limit", "usage", "tool", "choice", "knobs"}
  BY DEF Complaints
<1> DEFINE b == s.body
<1>2. CASE c = "address"
  BY <1>2 DEF Complaints
<1>3. CASE c = "strict in thinking"
  BY <1>3 DEF Complaints
<1>4. CASE c = "strict"
  BY <1>4 DEF Complaints
<1>5. CASE c = "thinking"
  BY <1>5 DEF Complaints
<1>6. CASE c = "passback"
  BY <1>6 DEF Complaints
<1>7. CASE c = "refs"
  BY <1>7 DEF Complaints
<1>8. CASE c = "schema"
  BY <1>8 DEF Complaints
<1>9. CASE c = "limit"
  BY <1>9 DEF Complaints
<1>10. CASE c = "usage"
  BY <1>10 DEF Complaints
<1>11. CASE c = "tool"
  BY <1>11 DEF Complaints
<1>12. CASE c = "choice"
  BY <1>12 DEF Complaints
<1>13. CASE c = "knobs"
  BY <1>13 DEF Complaints
<1> QED
  BY <1>1, <1>2, <1>3, <1>4, <1>5, <1>6, <1>7, <1>8, <1>9, <1>10, <1>11, <1>12, <1>13

-----------------------------------------------------------------------------
(* What is planned.                                                          *)

\* Which mends a complaint c of a body b calls for, when those in codes were planned before
CallsToUnthink(c, b, codes) ==
    /\ c = "strict in thinking" /\ IsStrictToolChoice(b)
    /\ "disable_thinking_for_strict_tool_choice" \notin codes

CallsToRelax(c, b, codes) ==
    /\ c \in {"strict in thinking", "strict"} /\ IsStrictToolChoice(b)
    /\ "relax_strict_tool_choice" \notin codes

CallsToSwitchOff(c, b, codes) ==
    /\ c \in {"passback", "strict in thinking", "thinking", "knobs"}
    /\ ~b.knobs \/ (c = "passback" /\ b.shape # "contents")
    /\ "disable_thinking" \notin codes

CallsToEscape(c, b, codes) ==
    /\ c = "refs" /\ b.shape = "chat" /\ b.refs
    /\ "escape_tool_result_refs" \notin codes

\* The plan, one of four or none
PlanIsOneOf(plan, c, b, codes) ==
    \/ /\ plan = <<>>
       /\ ~CallsToUnthink(c, b, codes) /\ ~CallsToRelax(c, b, codes)
       /\ ~CallsToSwitchOff(c, b, codes) /\ ~CallsToEscape(c, b, codes)
    \/ /\ CallsToUnthink(c, b, codes)
       /\ plan = <<[code |-> "disable_thinking_for_strict_tool_choice", strip |-> FALSE]>>
    \/ /\ CallsToRelax(c, b, codes) /\ ~CallsToUnthink(c, b, codes)
       /\ plan = <<[code |-> "relax_strict_tool_choice", strip |-> FALSE]>>
    \/ /\ CallsToSwitchOff(c, b, codes)
       /\ ~CallsToUnthink(c, b, codes) /\ ~CallsToRelax(c, b, codes)
       /\ plan = <<[code |-> "disable_thinking", strip |-> (c = "passback")]>>
    \/ /\ CallsToEscape(c, b, codes)
       /\ plan = <<[code |-> "escape_tool_result_refs", strip |-> FALSE]>>

LEMMA PlanIs ==
  ASSUME NEW c, Status(c) = 400, NEW b, NEW planned, DOMAIN planned = 1..Len(planned)
  PROVE  PlanIsOneOf(PlanConstraintRecovery(c, b, planned), c, b, Codes(planned, Len(planned)))
<1> DEFINE P == Plans(c, b)
           codes == Codes(planned, Len(planned))
           Open(i) == P[i].fits /\ P[i].code \notin codes
           plan == FirstOpen(P, planned)
<1>1. PlanConstraintRecovery(c, b, planned) = plan
  BY DEF PlanConstraintRecovery
<1>2. DOMAIN P = 1..4
  BY DEF Plans
<1>3. codes = {planned[i].code : i \in DOMAIN planned}
  BY DEF Codes
<1>4. /\ P[1].code = "disable_thinking_for_strict_tool_choice" /\ P[1].strip = FALSE
      /\ P[2].code = "relax_strict_tool_choice" /\ P[2].strip = FALSE
      /\ P[3].code = "disable_thinking" /\ P[3].strip = (c = "passback")
      /\ P[4].code = "escape_tool_result_refs" /\ P[4].strip = FALSE
  BY DEF Plans, RequiresReasoningContentPassback
<1>5. P[1].fits <=> c = "strict in thinking" /\ IsStrictToolChoice(b)
  BY DEF Plans, MentionsThinking, ForbidsStrictToolChoice
<1>6. P[2].fits <=> c \in {"strict in thinking", "strict"} /\ IsStrictToolChoice(b)
  BY DEF Plans, ForbidsStrictToolChoice
<1>7. P[3].fits <=> /\ c \in {"passback", "strict in thinking", "thinking", "knobs"}
                    /\ ~b.knobs \/ (c = "passback" /\ b.shape # "contents")
  BY DEF Plans, RequiresReasoningContentPassback, RejectsThinkingMode, MentionsThinking,
         ThinkingOffShapesApplied
<1>8. P[4].fits <=> c = "refs" /\ b.shape = "chat" /\ b.refs
  BY DEF Plans, RejectsToolResultRef, HasToolResultRefKeys
<1>9. \/ plan = <<>> /\ \A i \in 1..4 : ~Open(i)
      \/ \E i \in 1..4 :
           /\ Open(i) /\ \A j \in 1..4 : j < i => ~Open(j)
           /\ plan = <<[code |-> P[i].code, strip |-> P[i].strip]>>
  <2> HIDE DEF P
  <2> QED  BY <1>2, <1>3, FirstOpenIs
<1> HIDE DEF P, codes, plan
<1>10. /\ Open(1) <=> CallsToUnthink(c, b, codes)
       /\ Open(2) <=> CallsToRelax(c, b, codes)
       /\ Open(3) <=> CallsToSwitchOff(c, b, codes)
       /\ Open(4) <=> CallsToEscape(c, b, codes)
  <2>1. Open(1) <=> CallsToUnthink(c, b, codes)
    BY <1>4, <1>5 DEF CallsToUnthink
  <2>2. Open(2) <=> CallsToRelax(c, b, codes)
    BY <1>4, <1>6 DEF CallsToRelax
  <2>3. Open(3) <=> CallsToSwitchOff(c, b, codes)
    BY <1>4, <1>7 DEF CallsToSwitchOff
  <2>4. Open(4) <=> CallsToEscape(c, b, codes)
    BY <1>4, <1>8 DEF CallsToEscape
  <2> QED  BY <2>1, <2>2, <2>3, <2>4
<1> DEFINE Made(i) == <<[code |-> P[i].code, strip |-> P[i].strip]>>
<1>11. /\ Made(1) = <<[code |-> "disable_thinking_for_strict_tool_choice", strip |-> FALSE]>>
       /\ Made(2) = <<[code |-> "relax_strict_tool_choice", strip |-> FALSE]>>
       /\ Made(3) = <<[code |-> "disable_thinking", strip |-> (c = "passback")]>>
       /\ Made(4) = <<[code |-> "escape_tool_result_refs", strip |-> FALSE]>>
  BY <1>4, Zenon
<1>12. \/ plan = <<>> /\ ~Open(1) /\ ~Open(2) /\ ~Open(3) /\ ~Open(4)
       \/ Open(1) /\ plan = Made(1)
       \/ Open(2) /\ ~Open(1) /\ plan = Made(2)
       \/ Open(3) /\ ~Open(1) /\ ~Open(2) /\ plan = Made(3)
       \/ Open(4) /\ plan = Made(4)
  <2>1. \A i \in 1..4 : i = 1 \/ i = 2 \/ i = 3 \/ i = 4
    OBVIOUS
  <2>2. /\ 1 \in 1..4 /\ 2 \in 1..4 /\ 3 \in 1..4 /\ 4 \in 1..4
        /\ 1 < 2 /\ 1 < 3 /\ 2 < 3
    OBVIOUS
  <2> DEFINE None == plan = <<>> /\ \A i \in 1..4 : ~Open(i)
             First(i) == /\ Open(i) /\ \A j \in 1..4 : j < i => ~Open(j)
                         /\ plan = Made(i)
             One == \/ plan = <<>> /\ ~Open(1) /\ ~Open(2) /\ ~Open(3) /\ ~Open(4)
                    \/ Open(1) /\ plan = Made(1)
                    \/ Open(2) /\ ~Open(1) /\ plan = Made(2)
                    \/ Open(3) /\ ~Open(1) /\ ~Open(2) /\ plan = Made(3)
                    \/ Open(4) /\ plan = Made(4)
  <2>3. None \/ \E i \in 1..4 : First(i)
    BY <1>9
  <2> HIDE DEF Open, Made
  <2>4. ASSUME None PROVE One
    BY <2>2, <2>4
  <2>5. ASSUME NEW i \in 1..4, First(i) PROVE One
    <3>1. CASE i = 1
      BY <2>5, <3>1
    <3>2. CASE i = 2
      <4>1. ~Open(1)
        BY <2>2, <2>5, <3>2
      <4> QED  BY <2>5, <3>2, <4>1
    <3>3. CASE i = 3
      <4>1. ~Open(1) /\ ~Open(2)
        BY <2>2, <2>5, <3>3
      <4> QED  BY <2>5, <3>3, <4>1
    <3>4. CASE i = 4
      BY <2>5, <3>4
    <3> QED  BY <2>1, <3>1, <3>2, <3>3, <3>4
  <2> HIDE DEF None, First, One
  <2>6. One
    BY <2>3, <2>4, <2>5
  <2> QED  BY <2>6 DEF One
<1> HIDE DEF Open, Made
<1>13. PlanIsOneOf(plan, c, b, codes)
  BY <1>10, <1>11, <1>12 DEF PlanIsOneOf
<1> QED
  BY <1>1, <1>13 DEF codes

\* What a model u that was sent the request a has had planned: for what it refuses, each mend once.
PlannedFor(planned, a, u) ==
    LET codes == Codes(planned, Len(planned))
        strips == Strips(planned, Len(planned))
    IN  /\ planned \in Seq(Mends)
        /\ IsFiniteSet(codes) /\ Cardinality(codes) = Len(planned)
        /\ "relax_strict_tool_choice" \in codes =>
              a.choice = "strict" /\ u.refuses \cap {"strict", "strict, thinking or not"} # {}
        /\ "disable_thinking_for_strict_tool_choice" \in codes =>
              u.refuses \cap {"strict in thinking", "strict, thinking or not"} # {}
        /\ strips => "passback" \in u.refuses
        /\ "disable_thinking" \in codes =>
              strips \/ "thinking" \in u.refuses \/ GoogleNative(a, u)
        /\ "escape_tool_result_refs" \in codes => "refs" \in u.refuses

\* A mend more.
LEMMA OneMore ==
  ASSUME NEW planned \in Seq(Mends), NEW m \in Mends
  PROVE  /\ planned \o <<m>> \in Seq(Mends) /\ Len(planned \o <<m>>) = Len(planned) + 1
         /\ Codes(planned \o <<m>>, Len(planned) + 1) = Codes(planned, Len(planned)) \cup {m.code}
         /\ Strips(planned \o <<m>>, Len(planned) + 1) <=> Strips(planned, Len(planned)) \/ m.strip
<1> DEFINE n == Len(planned)
           more == planned \o <<m>>
<1>1. /\ n \in Nat /\ more \in Seq(Mends) /\ Len(more) = n + 1
      /\ \A i \in 1..n : more[i] = planned[i]
      /\ more[n + 1] = m
  OBVIOUS
<1>2. 1..(n + 1) = (1..n) \cup {n + 1}
  BY <1>1
<1> HIDE DEF n, more
<1>3. Codes(more, n + 1) = Codes(planned, n) \cup {m.code}
  BY <1>1, <1>2 DEF Codes
<1>4. Strips(more, n + 1) <=> Strips(planned, n) \/ m.strip
  BY <1>1, <1>2 DEF Strips
<1> QED
  BY <1>1, <1>3, <1>4 DEF n, more

\* What is planned for a complaint is for something the model refuses, and was not planned before.
LEMMA PlanFits ==
  ASSUME NEW a \in Requests, NEW u \in Upstreams, NEW planned, PlannedFor(planned, a, u),
         NEW c \in Complaints(Outbound(a, u, planned), u),
         PlanConstraintRecovery(c, Outbound(a, u, planned).body, planned) # <<>>
  PROVE  \E m \in Mends :
            /\ PlanConstraintRecovery(c, Outbound(a, u, planned).body, planned) = <<m>>
            /\ PlannedFor(planned \o <<m>>, a, u)
<1> DEFINE s == Outbound(a, u, planned)
           b == s.body
           n == Len(planned)
           codes == Codes(planned, n)
           native == GoogleNative(a, u)
           plan == PlanConstraintRecovery(c, b, planned)
<1>0. planned \in Seq(Mends)
  BY DEF PlannedFor
<1>1. n \in Nat /\ DOMAIN planned = 1..n
  BY <1>0
<1>2. Status(c) = 400
  BY DEF PlanConstraintRecovery
<1>3. SentBy(b, a, u, planned)
  BY <1>0, SentFields
<1>4. /\ b.shape = "contents" <=> native
      /\ "relax_strict_tool_choice" \notin codes /\ ~native => b.choice = a.choice
      /\ OffCodes \cap codes # {} /\ ~native => b.think = "off" /\ b.knobs
  <2>1. /\ Base(a, u).choice = a.choice /\ Base(a, u).shape # "contents"
    BY BaseBody
  <2>2. b.shape = IF native THEN "contents" ELSE Base(a, u).shape
    BY <1>3 DEF SentBy
  <2>3. "relax_strict_tool_choice" \notin codes /\ ~native => b.choice = Base(a, u).choice
    BY <1>3 DEF SentBy
  <2>4. OffCodes \cap codes # {} /\ ~native => b.think = "off" /\ b.knobs
    BY <1>3 DEF SentBy
  <2> QED
    BY <2>1, <2>2, <2>3, <2>4
<1>5. PlanIsOneOf(plan, c, b, codes)
  BY <1>1, <1>2, PlanIs
<1>6. plan # <<>>
  OBVIOUS
<1>7. /\ c = "strict in thinking" => /\ b.choice = "strict"
                                   /\ \/ "strict in thinking" \in u.refuses /\ b.think # "off"
                                      \/ "strict, thinking or not" \in u.refuses
      /\ c = "strict" => b.choice = "strict" /\ "strict" \in u.refuses
      /\ c = "thinking" => "thinking" \in u.refuses
      /\ c = "passback" => "passback" \in u.refuses
      /\ c = "refs" => "refs" \in u.refuses
      /\ c = "knobs" => b.knobs
  BY ComplaintIs
<1> HIDE DEF s, b, native, plan
<1>8. IsStrictToolChoice(b) <=> ~native /\ b.choice = "strict"
  BY <1>4 DEF IsStrictToolChoice
<1>9. PICK m \in Mends :
         /\ plan = <<m>> /\ m.code \notin codes
         /\ m.strip => c = "passback"
         /\ m.code = "disable_thinking_for_strict_tool_choice" => CallsToUnthink(c, b, codes)
         /\ m.code = "relax_strict_tool_choice" =>
              CallsToRelax(c, b, codes) /\ ~CallsToUnthink(c, b, codes)
         /\ m.code = "disable_thinking" =>
              /\ CallsToSwitchOff(c, b, codes) /\ ~CallsToUnthink(c, b, codes)
              /\ m.strip <=> c = "passback"
         /\ m.code = "escape_tool_result_refs" => CallsToEscape(c, b, codes)
  <2> DEFINE strip == c = "passback"
             off == FALSE
             Goal == \E m \in Mends :
                /\ plan = <<m>> /\ m.code \notin codes
                /\ m.strip => c = "passback"
                /\ m.code = "disable_thinking_for_strict_tool_choice" => CallsToUnthink(c, b, codes)
                /\ m.code = "relax_strict_tool_choice" =>
                     CallsToRelax(c, b, codes) /\ ~CallsToUnthink(c, b, codes)
                /\ m.code = "disable_thinking" =>
                     /\ CallsToSwitchOff(c, b, codes) /\ ~CallsToUnthink(c, b, codes)
                     /\ m.strip <=> c = "passback"
                /\ m.code = "escape_tool_result_refs" => CallsToEscape(c, b, codes)
             m1 == [code |-> "disable_thinking_for_strict_tool_choice", strip |-> off]
             m2 == [code |-> "relax_strict_tool_choice", strip |-> off]
             m3 == [code |-> "disable_thinking", strip |-> strip]
             m4 == [code |-> "escape_tool_result_refs", strip |-> off]
  <2>0. /\ strip \in BOOLEAN /\ (strip <=> c = "passback") /\ off \in BOOLEAN /\ ~off
    OBVIOUS
  <2>1. \/ CallsToUnthink(c, b, codes) /\ plan = <<m1>>
        \/ CallsToRelax(c, b, codes) /\ ~CallsToUnthink(c, b, codes) /\ plan = <<m2>>
        \/ CallsToSwitchOff(c, b, codes) /\ ~CallsToUnthink(c, b, codes) /\ plan = <<m3>>
        \/ CallsToEscape(c, b, codes) /\ plan = <<m4>>
    BY <1>5, <1>6, Zenon DEF PlanIsOneOf
  <2> HIDE DEF strip, off
  <2>2. /\ m1 \in Mends /\ m1.code = "disable_thinking_for_strict_tool_choice" /\ ~m1.strip
        /\ m2 \in Mends /\ m2.code = "relax_strict_tool_choice" /\ ~m2.strip
        /\ m3 \in Mends /\ m3.code = "disable_thinking" /\ (m3.strip <=> strip)
        /\ m4 \in Mends /\ m4.code = "escape_tool_result_refs" /\ ~m4.strip
    BY <2>0 DEF Mends, MendCodes
  <2> HIDE DEF m1, m2, m3, m4
  <2>3. CASE CallsToUnthink(c, b, codes) /\ plan = <<m1>>
    <3>1. m1.code \notin codes
      BY <2>2, <2>3 DEF CallsToUnthink
    <3> QED  BY <2>2, <2>3, <3>1
  <2>4. CASE CallsToRelax(c, b, codes) /\ ~CallsToUnthink(c, b, codes) /\ plan = <<m2>>
    <3>1. m2.code \notin codes
      BY <2>2, <2>4 DEF CallsToRelax
    <3> QED  BY <2>2, <2>4, <3>1
  <2>5. CASE CallsToSwitchOff(c, b, codes) /\ ~CallsToUnthink(c, b, codes) /\ plan = <<m3>>
    <3>1. m3.code \notin codes
      BY <2>2, <2>5 DEF CallsToSwitchOff
    <3> QED  BY <2>0, <2>2, <2>5, <3>1
  <2>6. CASE CallsToEscape(c, b, codes) /\ plan = <<m4>>
    <3>1. m4.code \notin codes
      BY <2>2, <2>6 DEF CallsToEscape
    <3> QED  BY <2>2, <2>6, <3>1
  <2> QED  BY <2>1, <2>3, <2>4, <2>5, <2>6
<1> HIDE DEF codes
<1>10. m.code = "disable_thinking_for_strict_tool_choice" =>
         u.refuses \cap {"strict in thinking", "strict, thinking or not"} # {}
  BY <1>7, <1>9 DEF CallsToUnthink
<1>11. ASSUME m.code = "relax_strict_tool_choice"
       PROVE  a.choice = "strict" /\ u.refuses \cap {"strict", "strict, thinking or not"} # {}
  <2>1. /\ c \in {"strict in thinking", "strict"} /\ IsStrictToolChoice(b)
        /\ "relax_strict_tool_choice" \notin codes /\ ~CallsToUnthink(c, b, codes)
    BY <1>9, <1>11 DEF CallsToRelax
  <2>2. a.choice = "strict"
    BY <1>4, <1>8, <2>1
  <2>3. CASE c = "strict"
    BY <1>7, <2>2, <2>3
  <2>4. CASE c = "strict in thinking"
    <3>1. "disable_thinking_for_strict_tool_choice" \in codes
      BY <2>1, <2>4 DEF CallsToUnthink
    <3>2. b.think = "off"
      BY <1>4, <1>8, <2>1, <3>1 DEF OffCodes
    <3> QED  BY <1>7, <2>2, <2>4, <3>2
  <2> QED  BY <2>1, <2>3, <2>4
<1>12. ASSUME m.code = "disable_thinking", ~native, ~m.strip PROVE "thinking" \in u.refuses
  <2>1. /\ c \in {"strict in thinking", "thinking", "knobs"} /\ ~b.knobs
        /\ ~CallsToUnthink(c, b, codes)
    BY <1>9, <1>12 DEF CallsToSwitchOff
  <2>2. CASE c = "strict in thinking"
    <3>1. "disable_thinking_for_strict_tool_choice" \in codes
      BY <1>7, <1>8, <1>12, <2>1, <2>2 DEF CallsToUnthink
    <3> QED  BY <1>4, <1>12, <2>1, <3>1 DEF OffCodes
  <2> QED  BY <1>7, <2>1, <2>2
<1>13. m.strip => "passback" \in u.refuses
  BY <1>7, <1>9
<1>14. m.code = "escape_tool_result_refs" => "refs" \in u.refuses
  BY <1>7, <1>9 DEF CallsToEscape
<1> DEFINE more == planned \o <<m>>
<1>15. /\ more \in Seq(Mends) /\ Len(more) = n + 1
       /\ Codes(more, n + 1) = codes \cup {m.code}
       /\ Strips(more, n + 1) <=> Strips(planned, n) \/ m.strip
  BY <1>0, OneMore DEF codes
<1> HIDE DEF more, n
<1>16. /\ IsFiniteSet(codes) /\ Cardinality(codes) = n
       /\ "relax_strict_tool_choice" \in codes =>
              a.choice = "strict" /\ u.refuses \cap {"strict", "strict, thinking or not"} # {}
       /\ "disable_thinking_for_strict_tool_choice" \in codes =>
              u.refuses \cap {"strict in thinking", "strict, thinking or not"} # {}
       /\ Strips(planned, n) => "passback" \in u.refuses
       /\ "disable_thinking" \in codes =>
              Strips(planned, n) \/ "thinking" \in u.refuses \/ native
       /\ "escape_tool_result_refs" \in codes => "refs" \in u.refuses
  BY DEF PlannedFor, codes, n, native
<1> DEFINE codes1 == codes \cup {m.code}
<1>17. IsFiniteSet(codes1) /\ Cardinality(codes1) = n + 1
  BY <1>9, <1>16, FS_AddElement
<1>18. /\ "relax_strict_tool_choice" \in codes1 =>
              a.choice = "strict" /\ u.refuses \cap {"strict", "strict, thinking or not"} # {}
       /\ "disable_thinking_for_strict_tool_choice" \in codes1 =>
              u.refuses \cap {"strict in thinking", "strict, thinking or not"} # {}
       /\ "disable_thinking" \in codes1 =>
              Strips(more, n + 1) \/ "thinking" \in u.refuses \/ native
       /\ "escape_tool_result_refs" \in codes1 => "refs" \in u.refuses
  <2>1. \A code : code \in codes1 <=> code \in codes \/ code = m.code
    OBVIOUS
  <2> HIDE DEF codes1
  <2> QED  BY <1>10, <1>11, <1>12, <1>14, <1>15, <1>16, <2>1
<1>19. Strips(more, n + 1) => "passback" \in u.refuses
  BY <1>13, <1>15, <1>16
<1>20. PlannedFor(more, a, u)
  BY <1>15, <1>17, <1>18, <1>19 DEF PlannedFor, native
<1> QED
  BY <1>9, <1>20 DEF more, b, s, plan

\* At Google's addresses the profiles of compatibility are applied.
LEMMA GoogleProfile ==
  ASSUME NEW a \in Requests, NEW u \in Upstreams,
         Dispatch(a, u).host \in {"google", "gcli"}, AsChat(a, u)
  PROVE  CompatibilityProfile(u, a) =
            IF Dispatch(a, u).host = "google" THEN "first_party_google_openai"
            ELSE "gemini_schema_proxy"
<1>1. RouteProtocol(a, u) = "openai"
  <2>1. EffectiveProtocol(a, u) = RouteProtocol(a, u)
    BY Dispatched
  <2>2. EffectiveProtocol(a, u) # "anthropic"
    BY Dispatched DEF AsChat
  <2> QED  BY <2>1, <2>2, Dispatched
<1>2. CASE Dispatch(a, u).host = "google"
  BY <1>1, <1>2 DEF CompatibilityProfile
<1>3. CASE Dispatch(a, u).host = "gcli"
  BY <1>1, <1>3 DEF CompatibilityProfile
<1> QED  BY <1>2, <1>3

\* A complaint of a model that can be satisfied has a mend.
LEMMA ComplaintMended ==
  ASSUME NEW a \in Requests, a.protocol = "openai" => a.server = "none",
         NEW u \in Upstreams, Mendable(a, u), NEW planned, PlannedFor(planned, a, u),
         NEW c \in Complaints(Outbound(a, u, planned), u)
  PROVE  PlanConstraintRecovery(c, Outbound(a, u, planned).body, planned) # <<>>
<1> SUFFICES ASSUME PlanConstraintRecovery(c, Outbound(a, u, planned).body, planned) = <<>>
             PROVE  FALSE
  OBVIOUS
<1> DEFINE s == Outbound(a, u, planned)
           b == s.body
           base == Base(a, u)
           n == Len(planned)
           codes == Codes(planned, n)
           strips == Strips(planned, n)
           native == GoogleNative(a, u)
           host == Dispatch(a, u).host
           chat == AsChat(a, u)
           profile == CompatibilityProfile(u, a)
           R == u.refuses
<1>0. planned \in Seq(Mends) /\ n \in Nat /\ DOMAIN planned = 1..n
  <2>1. planned \in Seq(Mends)
    BY DEF PlannedFor
  <2> QED  BY <2>1
<1>1. c # "address"
  BY <1>0, Reached, ComplaintIs
<1>2. \/ /\ c = "strict in thinking" /\ b.choice = "strict"
         /\ \/ "strict in thinking" \in R /\ b.think # "off"
            \/ "strict, thinking or not" \in R
      \/ c = "strict" /\ b.choice = "strict" /\ "strict" \in R
      \/ c = "thinking" /\ b.think # "off" /\ "thinking" \in R
      \/ c = "passback" /\ (b.think # "off" \/ b.chain) /\ "passback" \in R
      \/ c = "refs" /\ b.refs /\ "refs" \in R
      \/ c = "schema" /\ ~GeminiTakes(b.schema) /\ "schema" \in R
      \/ c = "limit" /\ b.limit = "large" /\ "limit" \in R
      \/ c = "usage" /\ b.usage /\ "usage" \in R
      \/ c = "tool" /\ b.server # "none" /\ "tool" \in R
      \/ c = "choice" /\ b.choice = "text"
      \/ c = "knobs" /\ b.knobs /\ "knobs" \in R
  BY <1>1, ComplaintIs
<1>3. /\ ~CallsToUnthink(c, b, codes) /\ ~CallsToRelax(c, b, codes)
      /\ ~CallsToSwitchOff(c, b, codes) /\ ~CallsToEscape(c, b, codes)
  <2>0. c # "capacity"
    BY DEF Complaints
  <2>1. Status(c) = 400
    BY <1>1, <2>0 DEF Status
  <2>2. PlanIsOneOf(PlanConstraintRecovery(c, b, planned), c, b, codes)
    BY <1>0, <2>1, PlanIs
  <2>3. \A v : <<v>> # <<>>
    OBVIOUS
  <2> QED  BY <2>2, <2>3, Zenon DEF PlanIsOneOf
<1>4. /\ base \in Bodies
      /\ base.shape = IF chat THEN "chat" ELSE "messages"
      /\ base.choice = a.choice
      /\ base.chain => /\ a.chain /\ (chat => a.protocol = "openai")
                       /\ (~chat => host = "claude")
      /\ base.refs => a.refs /\ profile = "none"
      /\ base.server # "none" => a.server # "none" /\ (chat => a.protocol = "openai")
      /\ base.schema = IF profile # "none" THEN SanitizeGeminiSchema(a.schema) ELSE a.schema
      /\ base.limit = "large" =>
           a.limit = "large" /\ ~u.ceiling /\ profile # "first_party_google_openai"
      /\ base.usage => a.stream /\ chat /\ profile # "first_party_google_openai"
  BY BaseBody
<1>5. SentBy(b, a, u, planned)
  BY <1>0, SentFields
<1>6. /\ host \in {"google", "gcli"} => chat
      /\ "schema" \in R => /\ GeminiTakes(a.schema) \/ host \in {"google", "gcli"}
                           /\ ~UntypedDates(a.schema)
      /\ "limit" \in R /\ a.limit = "large" => host = "google" \/ u.ceiling
      /\ "usage" \in R /\ a.stream => host = "google" \/ ~chat
      /\ "tool" \in R /\ a.server # "none" => chat
      /\ "refs" \in R /\ a.refs => chat
      /\ a.choice = "strict" /\ R \cap {"strict", "strict, thinking or not"} # {} => chat
      /\ native => R \cap Reasons = {} /\ "strict" \notin R
      /\ "knobs" \in R => R \cap Reasons = {}
      /\ "passback" \in R /\ a.chain => chat \/ host # "claude"
      /\ ~(a.protocol = "openai" /\ a.chain /\ {"thinking", "passback"} \subseteq R)
  BY MendableParts
<1>7. /\ host = "google" => profile = "first_party_google_openai"
      /\ host \in {"google", "gcli"} => profile # "none"
  BY <1>6, GoogleProfile
<1>8. native => host = "google"
  BY DEF GoogleNative
<1>9. /\ a.choice \in {"auto", "strict"} /\ a.schema \in Schemas
      /\ a.protocol = "openai" => a.server = "none"
  BY DEF Requests
<1>10. /\ "relax_strict_tool_choice" \in codes =>
              a.choice = "strict" /\ R \cap {"strict", "strict, thinking or not"} # {}
       /\ "disable_thinking_for_strict_tool_choice" \in codes =>
              R \cap {"strict in thinking", "strict, thinking or not"} # {}
       /\ strips => "passback" \in R
       /\ "disable_thinking" \in codes => strips \/ "thinking" \in R \/ native
  BY DEF PlannedFor
<1> HIDE DEF s, b, base, n, codes, strips, native, host, chat, profile, R
\* the demand for a tool
<1>11. c # "choice"
  <2> SUFFICES ASSUME b.choice = "text" PROVE FALSE
    BY <1>2
  <2> DEFINE choice == IF "relax_strict_tool_choice" \in codes THEN Relaxed(base) ELSE base.choice
  <2>1. b.choice = IF native THEN GoogleToolConfig(choice) ELSE choice
    BY <1>5 DEF SentBy, native, codes, base, n
  <2>2. choice # "text"
    BY <1>4, <1>6, <1>9, <1>10 DEF Relaxed
  <2> HIDE DEF choice
  <2>3. GoogleToolConfig(choice) # "text"
    BY DEF GoogleToolConfig
  <2> QED  BY <2>1, <2>2, <2>3
<1>12. ~native => b.choice = IF "relax_strict_tool_choice" \in codes THEN Relaxed(base) ELSE base.choice
  BY <1>5 DEF SentBy, native, codes, base, n
<1>13. "relax_strict_tool_choice" \in codes /\ ~native => b.choice # "strict"
  BY <1>4, <1>6, <1>9, <1>10, <1>12 DEF Relaxed
<1>14. ~native => b.shape # "contents"
  BY <1>4, <1>5 DEF SentBy, native, base
<1>15. c # "strict"
  <2> SUFFICES ASSUME b.choice = "strict", "strict" \in R, c = "strict" PROVE FALSE
    BY <1>2
  <2>1. ~native
    BY <1>6
  <2> QED  BY <1>3, <1>13, <1>14, <2>1 DEF CallsToRelax, IsStrictToolChoice
<1>16. /\ OffCodes \cap codes # {} /\ ~native => b.think = "off"
       /\ b.knobs <=> OffCodes \cap codes # {} /\ ~native
  BY <1>5 DEF SentBy, native, codes, n
<1>17. c # "strict in thinking"
  <2> SUFFICES ASSUME b.choice = "strict", c = "strict in thinking", R \cap Reasons # {} PROVE FALSE
    BY <1>2 DEF Reasons
  <2>1. ~native
    BY <1>6
  <2> QED  BY <1>3, <1>13, <1>14, <2>1 DEF CallsToRelax, IsStrictToolChoice
\* the thoughts
<1>18. c # "thinking"
  <2> SUFFICES ASSUME b.think # "off", "thinking" \in R, c = "thinking" PROVE FALSE
    BY <1>2
  <2>1. ~native
    BY <1>6 DEF Reasons
  <2> QED  BY <1>3, <1>16, <2>1 DEF CallsToSwitchOff, OffCodes
<1>19. c # "passback"
  <2> SUFFICES ASSUME b.think # "off" \/ b.chain, "passback" \in R, c = "passback" PROVE FALSE
    BY <1>2
  <2>1. ~native
    BY <1>6 DEF Reasons
  <2>2. "disable_thinking" \in codes
    BY <1>3, <1>14, <2>1 DEF CallsToSwitchOff
  <2>3. b.chain
    BY <1>16, <2>1, <2>2 DEF OffCodes
  <2>4. base.chain /\ ~(strips /\ base.shape = "chat")
    BY <1>5, <2>3 DEF SentBy, base, strips, n
  <2>5. a.chain /\ chat /\ a.protocol = "openai"
    BY <1>4, <1>6, <2>4
  <2>6. "thinking" \in R
    BY <1>4, <1>10, <2>1, <2>2, <2>4, <2>5
  <2> QED  BY <1>6, <2>5, <2>6
<1>20. c # "knobs"
  <2> SUFFICES ASSUME b.knobs, "knobs" \in R PROVE FALSE
    BY <1>2
  <2>1. OffCodes \cap codes # {} /\ ~native /\ R \cap Reasons = {}
    BY <1>6, <1>16
  <2> QED  BY <1>10, <2>1 DEF OffCodes, Reasons
\* the rest
<1>21. c # "refs"
  <2> SUFFICES ASSUME b.refs, "refs" \in R, c = "refs" PROVE FALSE
    BY <1>2
  <2>1. base.refs /\ ~("escape_tool_result_refs" \in codes /\ base.shape = "chat")
    BY <1>5 DEF SentBy, base, codes, n
  <2>2. chat /\ ~native
    BY <1>4, <1>6, <1>7, <1>8, <2>1
  <2>3. b.shape = "chat"
    BY <1>4, <1>5, <2>2 DEF SentBy, base, native
  <2> QED  BY <1>3, <1>4, <2>1, <2>2, <2>3 DEF CallsToEscape
<1>22. c # "schema"
  <2> SUFFICES ASSUME "schema" \in R, ~GeminiTakes(b.schema) PROVE FALSE
    BY <1>2
  <2>1. b.schema = IF native THEN SanitizeGeminiSchema(base.schema) ELSE base.schema
    BY <1>5 DEF SentBy, base, native
  <2>2. base.schema \in Schemas
    BY <1>4 DEF Bodies
  <2>3. CASE profile = "none"
    <3>1. GeminiTakes(base.schema) /\ ~native
      BY <1>4, <1>6, <1>7, <1>8, <2>3
    <3> QED  BY <2>1, <3>1
  <2>4. CASE profile # "none"
    <3>1. base.schema = SanitizeGeminiSchema(a.schema)
      BY <1>4, <2>4
    <3>2. GeminiTakes(base.schema) /\ ~UntypedDates(base.schema)
      BY <1>6, <1>9, <3>1, SchemaTaken
    <3>3. GeminiTakes(SanitizeGeminiSchema(base.schema))
      BY <2>2, <3>2, SchemaTaken
    <3> QED  BY <2>1, <3>2, <3>3
  <2> QED  BY <2>3, <2>4
<1>23. c # "limit"
  <2>1. b.limit = base.limit
    BY <1>5 DEF SentBy, base
  <2> QED  BY <1>2, <1>4, <1>6, <1>7, <2>1
<1>24. c # "usage"
  <2>1. b.usage => base.usage
    BY <1>5 DEF SentBy, base
  <2> QED  BY <1>2, <1>4, <1>6, <1>7, <2>1
<1>25. c # "tool"
  <2>1. b.server = base.server
    BY <1>5 DEF SentBy, base
  <2> QED  BY <1>2, <1>4, <1>6, <1>9, <2>1
<1> QED
  BY <1>2, <1>11, <1>15, <1>17, <1>18, <1>19, <1>20, <1>21, <1>22, <1>23, <1>24, <1>25

\* What is sent differs from what was asked only in what the model refuses.
ChangedOnlyIfRefused(b, asked, u) ==
    LET changed == {f \in DOMAIN asked : b[f] # asked[f]}
        RefusesOneOf(cs) == u.refuses \cap cs # {}
    IN  /\ changed \subseteq {"choice", "think", "knobs", "chain", "refs"}
        /\ "choice" \in changed => RefusesOneOf({"strict", "strict, thinking or not"})
        /\ changed \cap {"think", "knobs"} # {} =>
              RefusesOneOf({"strict in thinking", "strict, thinking or not", "thinking", "passback"})
        /\ "chain" \in changed => RefusesOneOf({"passback"})
        /\ "refs" \in changed => RefusesOneOf({"refs"})

LEMMA NothingPlanned ==
  ASSUME NEW a, NEW u
  PROVE  /\ PlannedFor(<<>>, a, u) /\ <<>> \in Seq(Mends)
         /\ Codes(<<>>, Len(<<>>)) = {} /\ ~Strips(<<>>, Len(<<>>))
<1>1. <<>> \in Seq(Mends) /\ Len(<<>>) = 0
  OBVIOUS
<1>2. Codes(<<>>, 0) = {} /\ ~Strips(<<>>, 0)
  BY DEF Codes, Strips
<1>3. IsFiniteSet({}) /\ Cardinality({}) = 0
  BY FS_EmptySet
<1> QED
  BY <1>1, <1>2, <1>3 DEF PlannedFor

LEMMA SentAsAsked ==
  ASSUME NEW a \in Requests, NEW u \in Upstreams, NEW planned, PlannedFor(planned, a, u)
  PROVE  ChangedOnlyIfRefused(Outbound(a, u, planned).body, Outbound(a, u, <<>>).body, u)
<1> DEFINE b == Outbound(a, u, planned).body
           asked == Outbound(a, u, <<>>).body
           n == Len(planned)
           codes == Codes(planned, n)
           strips == Strips(planned, n)
           native == GoogleNative(a, u)
           base == Base(a, u)
           changed == {f \in DOMAIN asked : b[f] # asked[f]}
           R == u.refuses
<1>1. planned \in Seq(Mends)
  BY DEF PlannedFor
<1>2. SentBy(b, a, u, planned)
  BY <1>1, SentFields
<1>3. SentBy(asked, a, u, <<>>)
  BY NothingPlanned, SentFields
<1>4. /\ "relax_strict_tool_choice" \in codes => R \cap {"strict", "strict, thinking or not"} # {}
      /\ "disable_thinking_for_strict_tool_choice" \in codes =>
              R \cap {"strict in thinking", "strict, thinking or not"} # {}
      /\ strips => "passback" \in R
      /\ "disable_thinking" \in codes => strips \/ "thinking" \in R \/ native
      /\ "escape_tool_result_refs" \in codes => "refs" \in R
  BY DEF PlannedFor
<1> HIDE DEF b, asked
<1>5. /\ asked \in Bodies /\ asked.shape = (IF native THEN "contents" ELSE base.shape)
      /\ asked.server = base.server /\ asked.limit = base.limit
      /\ asked.schema = IF native THEN SanitizeGeminiSchema(base.schema) ELSE base.schema
      /\ asked.usage <=> base.usage /\ ~native
      /\ asked.choice = IF native THEN GoogleToolConfig(base.choice) ELSE base.choice
      /\ asked.think = IF native THEN "model" ELSE base.think
      /\ ~asked.knobs
      /\ asked.chain <=> base.chain /\ ~native
      /\ asked.refs <=> base.refs
  <2> DEFINE none == Codes(<<>>, Len(<<>>))
  <2>1. /\ none = {} /\ ~Strips(<<>>, Len(<<>>))
    BY NothingPlanned
  <2> HIDE DEF none, base, native
  <2>2. /\ asked \in Bodies /\ asked.shape = (IF native THEN "contents" ELSE base.shape)
        /\ asked.server = base.server /\ asked.limit = base.limit
        /\ asked.schema = IF native THEN SanitizeGeminiSchema(base.schema) ELSE base.schema
        /\ asked.usage <=> base.usage /\ ~native
        /\ asked.choice = IF native
                          THEN GoogleToolConfig(IF "relax_strict_tool_choice" \in none
                                                THEN Relaxed(base) ELSE base.choice)
                          ELSE IF "relax_strict_tool_choice" \in none THEN Relaxed(base)
                               ELSE base.choice
        /\ asked.think = IF native THEN "model" ELSE IF OffCodes \cap none # {} THEN "off" ELSE base.think
        /\ asked.knobs <=> (OffCodes \cap none # {}) /\ ~native
        /\ asked.chain <=> /\ base.chain /\ ~native
                           /\ ~(Strips(<<>>, Len(<<>>)) /\ base.shape = "chat")
        /\ asked.refs <=> base.refs /\ ~("escape_tool_result_refs" \in none /\ base.shape = "chat")
    BY <1>3 DEF SentBy, none, base, native
  <2> QED  BY <2>1, <2>2
<1> DEFINE choice == IF "relax_strict_tool_choice" \in codes THEN Relaxed(base) ELSE base.choice
<1>6. /\ b \in Bodies /\ b.shape = (IF native THEN "contents" ELSE base.shape)
      /\ b.server = base.server /\ b.limit = base.limit
      /\ b.schema = IF native THEN SanitizeGeminiSchema(base.schema) ELSE base.schema
      /\ b.usage <=> base.usage /\ ~native
      /\ b.choice = IF native THEN GoogleToolConfig(choice) ELSE choice
      /\ b.think = IF native THEN "model" ELSE IF OffCodes \cap codes # {} THEN "off" ELSE base.think
      /\ b.knobs <=> (OffCodes \cap codes # {}) /\ ~native
      /\ b.chain <=> /\ base.chain /\ ~native /\ ~(strips /\ base.shape = "chat")
      /\ b.refs <=> base.refs /\ ~("escape_tool_result_refs" \in codes /\ base.shape = "chat")
  BY <1>2 DEF SentBy
<1> HIDE DEF base, native, codes, strips, choice, R
<1>7. DOMAIN asked = {"shape", "choice", "think", "chain", "refs", "server", "schema", "limit",
                      "usage", "knobs"}
  BY <1>5 DEF Bodies
<1>8. /\ b.shape = asked.shape /\ b.server = asked.server /\ b.schema = asked.schema
      /\ b.limit = asked.limit
  BY <1>5, <1>6
<1>9. b.usage = asked.usage
  <2>1. b.usage \in BOOLEAN /\ asked.usage \in BOOLEAN
    BY <1>5, <1>6 DEF Bodies
  <2> QED  BY <1>5, <1>6, <2>1
<1>10. changed \subseteq {"choice", "think", "knobs", "chain", "refs"}
  BY <1>7, <1>8, <1>9
<1>11. b.choice # asked.choice => R \cap {"strict", "strict, thinking or not"} # {}
  BY <1>4, <1>5, <1>6 DEF choice
<1>12. /\ OffCodes \cap codes # {} /\ ~native =>
            R \cap {"strict in thinking", "strict, thinking or not", "thinking", "passback"} # {}
  BY <1>4 DEF OffCodes
<1>13. b.think # asked.think => OffCodes \cap codes # {} /\ ~native
  BY <1>5, <1>6
<1>14. b.knobs # asked.knobs => OffCodes \cap codes # {} /\ ~native
  <2>1. b.knobs \in BOOLEAN /\ asked.knobs \in BOOLEAN
    BY <1>5, <1>6 DEF Bodies
  <2> QED  BY <1>5, <1>6, <2>1
<1>15. b.chain # asked.chain => "passback" \in R
  <2>1. b.chain \in BOOLEAN /\ asked.chain \in BOOLEAN
    BY <1>5, <1>6 DEF Bodies
  <2> QED  BY <1>4, <1>5, <1>6, <2>1
<1>16. b.refs # asked.refs => "refs" \in R
  <2>1. b.refs \in BOOLEAN /\ asked.refs \in BOOLEAN
    BY <1>5, <1>6 DEF Bodies
  <2> QED  BY <1>4, <1>5, <1>6, <2>1
<1>17. \A f : f \in changed => b[f] # asked[f]
  OBVIOUS
<1> HIDE DEF changed
<1>18. /\ "choice" \in changed => R \cap {"strict", "strict, thinking or not"} # {}
       /\ "chain" \in changed => R \cap {"passback"} # {}
       /\ "refs" \in changed => R \cap {"refs"} # {}
  BY <1>11, <1>15, <1>16, <1>17
<1>19. changed \cap {"think", "knobs"} # {} =>
         R \cap {"strict in thinking", "strict, thinking or not", "thinking", "passback"} # {}
  BY <1>12, <1>13, <1>14, <1>17
<1> QED
  BY <1>10, <1>18, <1>19 DEF ChangedOnlyIfRefused, changed, R, b, asked

-----------------------------------------------------------------------------
(* The invariant.                                                            *)

Targets == {funnel[i] : i \in 1..Len(funnel)}

OutboundTypeOK ==
    /\ ask \in Requests /\ (ask.protocol = "openai" => ask.server = "none")
    /\ funnel \in Seq(Models) /\ layer \in 1..Len(funnel) /\ tries \in 0..MaxTries
    /\ mends \in [Targets -> Seq(Mends)] /\ busy \in [Targets -> 0..MaxCapacity]
    /\ sends \in [Targets -> Nat]
    /\ moment \in {"loop", "sent", "refused", "answered", "failed"}

\* How often a model m stands among the first k layers of a funnel f
Visits(f, m, k) == Cardinality({i \in 1..k : f[i] = m})

\* An attempt is left for the next request, and was taken by the last.
TriesLeft ==
    /\ moment = "loop" => tries < MaxTries
    /\ moment \in {"sent", "refused"} => tries > 0

MendsFit == \A m \in Targets : PlannedFor(mends[m], ask, Upstream[m])

SentAsPlanned == moment # "loop" => sent = Outbound(ask, upstream, mends[model])

RefusedForCause ==
    moment = "refused" =>
        refusal \in Complaints(sent, upstream)
                    \cup (IF "capacity" \in upstream.refuses THEN {"capacity"} ELSE {})

\* Every request is a mend's, a wait's for capacity, or a layer's.
SendsCounted ==
    \A m \in Targets :
        sends[m] = Len(mends[m]) + busy[m]
                   + Visits(funnel, m, IF moment = "loop" THEN layer - 1 ELSE layer)

OutboundInv ==
    /\ OutboundTypeOK /\ TriesLeft /\ MendsFit /\ SentAsPlanned /\ RefusedForCause
    /\ SendsCounted /\ LeftOnlyIfHopeless

LEMMA VisitsStep ==
  ASSUME NEW f, NEW m, NEW k \in Nat
  PROVE  /\ Visits(f, m, k) \in Nat
         /\ Visits(f, m, k + 1) = Visits(f, m, k) + (IF f[k + 1] = m THEN 1 ELSE 0)
<1> DEFINE Before == {i \in 1..k : f[i] = m}
           Now == {i \in 1..(k + 1) : f[i] = m}
<1>1. IsFiniteSet(1..k)
  BY FS_Interval
<1>2. IsFiniteSet(Before) /\ Cardinality(Before) \in Nat /\ k + 1 \notin Before
  BY <1>1, FS_Subset, FS_CardinalityType
<1>3. CASE f[k + 1] = m
  <2>1. Now = Before \cup {k + 1}
    BY <1>3
  <2> HIDE DEF Before
  <2>2. Cardinality(Before \cup {k + 1}) = Cardinality(Before) + 1
    BY <1>2, FS_AddElement
  <2> QED
    BY <1>2, <1>3, <2>1, <2>2 DEF Visits, Before
<1>4. CASE f[k + 1] # m
  <2>1. Now = Before
    BY <1>4
  <2> QED
    BY <1>2, <1>4, <2>1 DEF Visits
<1> QED
  BY <1>3, <1>4

LEMMA VisitsGrow ==
  ASSUME NEW f, NEW m, NEW n \in Nat, NEW k \in 0..n
  PROVE  Visits(f, m, k) <= Visits(f, m, n)
<1>1. IsFiniteSet(1..n) /\ 1..k \subseteq 1..n
  BY FS_Interval
<1>2. IsFiniteSet({i \in 1..n : f[i] = m})
  BY <1>1, FS_Subset
<1>3. {i \in 1..k : f[i] = m} \subseteq {i \in 1..n : f[i] = m}
  BY <1>1
<1> QED
  BY <1>2, <1>3, FS_Subset DEF Visits

\* Whom the request is for
LEMMA Addressee ==
  ASSUME OutboundTypeOK
  PROVE  /\ model \in Targets /\ layer \in Nat \ {0} /\ layer - 1 \in Nat
         /\ \A m \in Targets : Upstream[m] \in Upstreams
         /\ upstream \in Upstreams /\ mends[model] \in Seq(Mends)
         /\ busy[model] \in 0..MaxCapacity /\ sends[model] \in Nat
<1>1. funnel \in Seq(Models) /\ layer \in 1..Len(funnel) /\ Len(funnel) \in Nat
  BY DEF OutboundTypeOK
<1>2. model \in Targets
  BY <1>1 DEF model, Targets
<1>3. Targets \subseteq Models
  BY <1>1 DEF Targets
<1>4. \A m \in Targets : Upstream[m] \in Upstreams
  BY <1>3, OutboundAssumption
<1> QED
  BY <1>1, <1>2, <1>4 DEF OutboundTypeOK, upstream

LEMMA SendKeeps ==
  ASSUME OutboundInv, SendRequest
  PROVE  OutboundInv'
<1>1. /\ OutboundTypeOK /\ TriesLeft /\ MendsFit /\ SentAsPlanned /\ RefusedForCause
      /\ SendsCounted /\ LeftOnlyIfHopeless
  BY DEF OutboundInv
<1>2. /\ moment = "loop" /\ tries < MaxTries /\ tries' = tries + 1 /\ moment' = "sent"
      /\ sent' = Outbound(ask, upstream, mends[model])
      /\ sends' = [sends EXCEPT ![model] = @ + 1]
      /\ ask' = ask /\ funnel' = funnel /\ layer' = layer /\ mends' = mends /\ busy' = busy
      /\ refusal' = refusal
  BY DEF SendRequest
<1>3. Targets' = Targets /\ model' = model /\ upstream' = upstream
  BY <1>2 DEF Targets, model, upstream
<1>4. /\ model \in Targets /\ sends[model] \in Nat /\ layer - 1 \in Nat /\ layer \in Nat
  BY <1>1, Addressee
<1>5. OutboundTypeOK'
  <2>1. sends' \in [Targets -> Nat]
    BY <1>1, <1>2, <1>4 DEF OutboundTypeOK
  <2>2. tries' \in 0..MaxTries
    BY <1>1, <1>2, OutboundAssumption DEF OutboundTypeOK
  <2> QED
    BY <1>1, <1>2, <1>3, <2>1, <2>2 DEF OutboundTypeOK
<1>6. TriesLeft'
  BY <1>1, <1>2 DEF TriesLeft, OutboundTypeOK
<1>7. MendsFit'
  BY <1>1, <1>2, <1>3 DEF MendsFit
<1>8. SentAsPlanned'
  BY <1>2, <1>3 DEF SentAsPlanned
<1>9. RefusedForCause'
  BY <1>2 DEF RefusedForCause
<1>10. SendsCounted'
  <2> SUFFICES ASSUME NEW m \in Targets
               PROVE  sends'[m] = Len(mends[m]) + busy[m] + Visits(funnel, m, layer)
    BY <1>2, <1>3 DEF SendsCounted
  <2>1. sends[m] = Len(mends[m]) + busy[m] + Visits(funnel, m, layer - 1)
    BY <1>1, <1>2 DEF SendsCounted
  <2>2. Visits(funnel, m, layer) =
          Visits(funnel, m, layer - 1) + (IF funnel[layer] = m THEN 1 ELSE 0)
    <3>1. (layer - 1) + 1 = layer
      BY <1>4
    <3> QED  BY <1>4, <3>1, VisitsStep
  <2>3. sends'[m] = sends[m] + (IF funnel[layer] = m THEN 1 ELSE 0)
    BY <1>1, <1>2, <1>4 DEF OutboundTypeOK, model
  <2>4. Visits(funnel, m, layer - 1) \in Nat
    BY <1>4, VisitsStep
  <2>5. Len(mends[m]) \in Nat /\ busy[m] \in Nat
    BY <1>1, OutboundAssumption DEF OutboundTypeOK
  <2> QED
    BY <2>1, <2>2, <2>3, <2>4, <2>5
<1>11. LeftOnlyIfHopeless'
  BY <1>1, <1>2 DEF LeftOnlyIfHopeless
<1> QED
  BY <1>5, <1>6, <1>7, <1>8, <1>9, <1>10, <1>11 DEF OutboundInv

\* An answer, and a refusal
LEMMA HeardKeeps ==
  ASSUME OutboundInv, Take \/ Refuse
  PROVE  OutboundInv'
<1>1. /\ OutboundTypeOK /\ TriesLeft /\ MendsFit /\ SentAsPlanned /\ RefusedForCause
      /\ SendsCounted /\ LeftOnlyIfHopeless
  BY DEF OutboundInv
<1>2. /\ moment = "sent" /\ moment' \in {"answered", "refused"}
      /\ sent' = sent /\ sends' = sends /\ tries' = tries
      /\ ask' = ask /\ funnel' = funnel /\ layer' = layer /\ mends' = mends /\ busy' = busy
  BY DEF Take, Refuse
<1>3. Targets' = Targets /\ model' = model /\ upstream' = upstream
  BY <1>2 DEF Targets, model, upstream
<1>4. OutboundTypeOK'
  BY <1>1, <1>2, <1>3 DEF OutboundTypeOK
<1>5. TriesLeft'
  BY <1>1, <1>2 DEF TriesLeft
<1>6. MendsFit'
  BY <1>1, <1>2, <1>3 DEF MendsFit
<1>7. SentAsPlanned'
  BY <1>1, <1>2, <1>3 DEF SentAsPlanned
<1>8. RefusedForCause'
  <2>1. CASE Take
    BY <2>1 DEF Take, RefusedForCause
  <2>2. CASE Refuse
    <3>1. refusal' \in Complaints(sent, upstream)
                       \cup (IF "capacity" \in upstream.refuses THEN {"capacity"} ELSE {})
      BY <2>2 DEF Refuse
    <3> QED  BY <1>2, <1>3, <3>1 DEF RefusedForCause
  <2> QED  BY <2>1, <2>2
<1>9. SendsCounted'
  BY <1>1, <1>2, <1>3 DEF SendsCounted
<1>10. LeftOnlyIfHopeless'
  BY <1>1, <1>2 DEF LeftOnlyIfHopeless
<1> QED
  BY <1>4, <1>5, <1>6, <1>7, <1>8, <1>9, <1>10 DEF OutboundInv

LEMMA CapacityKeeps ==
  ASSUME OutboundInv, RetryCapacity
  PROVE  OutboundInv'
<1>1. /\ OutboundTypeOK /\ TriesLeft /\ MendsFit /\ SentAsPlanned /\ RefusedForCause
      /\ SendsCounted /\ LeftOnlyIfHopeless
  BY DEF OutboundInv
<1>2. /\ moment = "refused" /\ moment' = "loop" /\ tries' = tries - 1
      /\ busy[model] < MaxCapacity /\ busy' = [busy EXCEPT ![model] = @ + 1]
      /\ sent' = sent /\ sends' = sends /\ refusal' = refusal
      /\ ask' = ask /\ funnel' = funnel /\ layer' = layer /\ mends' = mends
  BY DEF RetryCapacity, CapacityRetries
<1>3. Targets' = Targets
  BY <1>2 DEF Targets
<1>4. /\ model \in Targets /\ busy[model] \in 0..MaxCapacity /\ layer - 1 \in Nat /\ layer \in Nat
  BY <1>1, Addressee
<1>5. OutboundTypeOK'
  <2>1. busy' \in [Targets -> 0..MaxCapacity]
    BY <1>1, <1>2, <1>4, OutboundAssumption DEF OutboundTypeOK
  <2>2. tries' \in 0..MaxTries
    BY <1>1, <1>2, OutboundAssumption DEF OutboundTypeOK, TriesLeft
  <2> QED
    BY <1>1, <1>2, <1>3, <2>1, <2>2 DEF OutboundTypeOK
<1>6. TriesLeft'
  BY <1>1, <1>2, OutboundAssumption DEF TriesLeft, OutboundTypeOK
<1>7. MendsFit'
  BY <1>1, <1>2, <1>3 DEF MendsFit
<1>8. SentAsPlanned' /\ RefusedForCause'
  BY <1>2 DEF SentAsPlanned, RefusedForCause
<1>9. SendsCounted'
  <2> SUFFICES ASSUME NEW m \in Targets
               PROVE  sends[m] = Len(mends[m]) + busy'[m] + Visits(funnel, m, layer - 1)
    BY <1>2, <1>3 DEF SendsCounted
  <2>1. sends[m] = Len(mends[m]) + busy[m] + Visits(funnel, m, layer)
    BY <1>1, <1>2 DEF SendsCounted
  <2>2. Visits(funnel, m, layer) =
          Visits(funnel, m, layer - 1) + (IF funnel[layer] = m THEN 1 ELSE 0)
    <3>1. (layer - 1) + 1 = layer
      BY <1>4
    <3> QED  BY <1>4, <3>1, VisitsStep
  <2>3. busy'[m] = busy[m] + (IF funnel[layer] = m THEN 1 ELSE 0)
    BY <1>1, <1>2, <1>4, OutboundAssumption DEF OutboundTypeOK, model
  <2>4. Visits(funnel, m, layer - 1) \in Nat
    BY <1>4, VisitsStep
  <2>5. Len(mends[m]) \in Nat /\ busy[m] \in Nat
    BY <1>1, OutboundAssumption DEF OutboundTypeOK
  <2> QED
    BY <2>1, <2>2, <2>3, <2>4, <2>5
<1>10. LeftOnlyIfHopeless'
  <2> SUFFICES ASSUME NEW i \in 1..Len(funnel), i < layer, Mendable(ask, Upstream[funnel[i]])
               PROVE  "capacity" \in Upstream[funnel[i]].refuses /\ busy'[funnel[i]] = MaxCapacity
    BY <1>2 DEF LeftOnlyIfHopeless
  <2>1. "capacity" \in Upstream[funnel[i]].refuses /\ busy[funnel[i]] = MaxCapacity
    BY <1>1 DEF LeftOnlyIfHopeless
  <2>2. funnel[i] # model /\ funnel[i] \in Targets
    BY <1>2, <1>4, <2>1, OutboundAssumption DEF Targets
  <2> QED
    BY <1>1, <1>2, <2>1, <2>2 DEF OutboundTypeOK
<1> QED
  BY <1>5, <1>6, <1>7, <1>8, <1>9, <1>10 DEF OutboundInv

\* A refusal that is mended is a complaint.
LEMMA MendedComplaint ==
  ASSUME OutboundInv, moment = "refused", Plan # <<>>
  PROVE  refusal \in Complaints(sent, upstream)
<1>1. Status(refusal) = 400
  BY DEF Plan, PlanConstraintRecovery
<1>2. refusal # "capacity"
  BY <1>1 DEF Status
<1> QED
  BY <1>2 DEF OutboundInv, RefusedForCause

LEMMA RecoverKeeps ==
  ASSUME OutboundInv, Recover
  PROVE  OutboundInv'
<1>1. /\ OutboundTypeOK /\ TriesLeft /\ MendsFit /\ SentAsPlanned /\ RefusedForCause
      /\ SendsCounted /\ LeftOnlyIfHopeless
  BY DEF OutboundInv
<1>2. /\ moment = "refused" /\ moment' = "loop" /\ tries' = tries - 1 /\ Plan # <<>>
      /\ mends' = [mends EXCEPT ![model] = @ \o Plan]
      /\ sent' = sent /\ sends' = sends /\ refusal' = refusal
      /\ ask' = ask /\ funnel' = funnel /\ layer' = layer /\ busy' = busy
  BY DEF Recover
<1>3. Targets' = Targets
  BY <1>2 DEF Targets
<1>4. /\ model \in Targets /\ upstream \in Upstreams /\ mends[model] \in Seq(Mends)
      /\ layer - 1 \in Nat /\ layer \in Nat
  BY <1>1, Addressee
<1> DEFINE planned == mends[model]
<1>5. PICK m \in Mends : Plan = <<m>> /\ PlannedFor(planned \o <<m>>, ask, upstream)
  <2>1. sent = Outbound(ask, upstream, planned)
    BY <1>1, <1>2 DEF SentAsPlanned
  <2>2. refusal \in Complaints(Outbound(ask, upstream, planned), upstream)
    BY <1>2, <2>1, MendedComplaint
  <2>3. Plan = PlanConstraintRecovery(refusal, Outbound(ask, upstream, planned).body, planned)
    BY <2>1 DEF Plan
  <2>4. PlannedFor(planned, ask, upstream)
    BY <1>1, <1>4 DEF MendsFit, upstream
  <2>5. ask \in Requests
    BY <1>1 DEF OutboundTypeOK
  <2> QED
    BY <1>2, <1>4, <2>2, <2>3, <2>4, <2>5, PlanFits
<1>6. /\ planned \o <<m>> \in Seq(Mends) /\ Len(planned \o <<m>>) = Len(planned) + 1
  BY <1>4, OneMore
<1> HIDE DEF planned
<1>7. /\ mends'[model] = planned \o <<m>>
      /\ \A t \in Targets : t # model => mends'[t] = mends[t]
      /\ mends' \in [Targets -> Seq(Mends)]
  BY <1>1, <1>2, <1>4, <1>5, <1>6 DEF OutboundTypeOK, planned
<1>8. OutboundTypeOK'
  <2>1. tries' \in 0..MaxTries
    BY <1>1, <1>2, OutboundAssumption DEF OutboundTypeOK, TriesLeft
  <2> QED
    BY <1>1, <1>2, <1>3, <1>7, <2>1 DEF OutboundTypeOK
<1>9. TriesLeft'
  BY <1>1, <1>2, OutboundAssumption DEF TriesLeft, OutboundTypeOK
<1>10. MendsFit'
  <2> SUFFICES ASSUME NEW t \in Targets PROVE PlannedFor(mends'[t], ask, Upstream[t])
    BY <1>2, <1>3 DEF MendsFit
  <2>1. CASE t = model
    BY <1>5, <1>7, <2>1 DEF upstream
  <2>2. CASE t # model
    BY <1>1, <1>7, <2>2 DEF MendsFit
  <2> QED  BY <2>1, <2>2
<1>11. SentAsPlanned' /\ RefusedForCause'
  BY <1>2 DEF SentAsPlanned, RefusedForCause
<1>12. SendsCounted'
  <2> SUFFICES ASSUME NEW t \in Targets
               PROVE  sends[t] = Len(mends'[t]) + busy[t] + Visits(funnel, t, layer - 1)
    BY <1>2, <1>3 DEF SendsCounted
  <2>1. sends[t] = Len(mends[t]) + busy[t] + Visits(funnel, t, layer)
    BY <1>1, <1>2 DEF SendsCounted
  <2>2. Visits(funnel, t, layer) =
          Visits(funnel, t, layer - 1) + (IF model = t THEN 1 ELSE 0)
    <3>1. (layer - 1) + 1 = layer
      BY <1>4
    <3> QED  BY <1>4, <3>1, VisitsStep DEF model
  <2>3. /\ t = model => Len(mends'[t]) = Len(mends[t]) + 1
        /\ t # model => Len(mends'[t]) = Len(mends[t])
    BY <1>6, <1>7 DEF planned
  <2>4. Visits(funnel, t, layer - 1) \in Nat
    BY <1>4, VisitsStep
  <2>5. Len(mends[t]) \in Nat /\ busy[t] \in Nat
    BY <1>1, OutboundAssumption DEF OutboundTypeOK
  <2>6. CASE t = model
    <3>1. Visits(funnel, t, layer) = Visits(funnel, t, layer - 1) + 1
      BY <2>2, <2>4, <2>6
    <3>2. Len(mends'[t]) = Len(mends[t]) + 1
      BY <2>3, <2>6, Zenon
    <3> QED  BY <2>1, <2>4, <2>5, <3>1, <3>2
  <2>7. CASE t # model
    <3>1. Visits(funnel, t, layer) = Visits(funnel, t, layer - 1)
      BY <2>2, <2>4, <2>7
    <3> QED  BY <2>1, <2>3, <2>4, <2>5, <2>7, <3>1
  <2> QED  BY <2>6, <2>7
<1>13. LeftOnlyIfHopeless'
  BY <1>1, <1>2 DEF LeftOnlyIfHopeless
<1> QED
  BY <1>8, <1>9, <1>10, <1>11, <1>12, <1>13 DEF OutboundInv

\* A model that is left cannot be satisfied, or was waited for as often as is allowed.
LEMMA HopelessIfLeft ==
  ASSUME OutboundInv, moment = "refused", ~CapacityRetries, Plan = <<>>, Mendable(ask, upstream)
  PROVE  "capacity" \in upstream.refuses /\ busy[model] = MaxCapacity
<1>1. /\ OutboundTypeOK /\ MendsFit /\ SentAsPlanned /\ RefusedForCause
  BY DEF OutboundInv
<1>2. /\ model \in Targets /\ upstream \in Upstreams /\ busy[model] \in 0..MaxCapacity
  BY <1>1, Addressee
<1>3. sent = Outbound(ask, upstream, mends[model])
  BY <1>1 DEF SentAsPlanned
<1>4. /\ ask \in Requests /\ (ask.protocol = "openai" => ask.server = "none")
  BY <1>1 DEF OutboundTypeOK
<1>5. PlannedFor(mends[model], ask, upstream)
  BY <1>1, <1>2 DEF MendsFit, upstream
<1>6. refusal \notin Complaints(sent, upstream)
  <2>1. Plan = PlanConstraintRecovery(refusal, Outbound(ask, upstream, mends[model]).body, mends[model])
    BY <1>3 DEF Plan
  <2> QED
    BY <1>2, <1>3, <1>4, <1>5, <2>1, ComplaintMended
<1>7. refusal = "capacity" /\ "capacity" \in upstream.refuses
  BY <1>1, <1>6 DEF RefusedForCause
<1>8. sent.host = "openrouter"
  <2>1. sent.host = Dispatch(ask, upstream).host
    BY <1>3 DEF Outbound
  <2> QED
    BY <1>2, <1>4, <1>7, <2>1, MendableParts
<1>9. RetryClass(refusal, sent.host) = "provider_capacity"
  BY <1>7, <1>8 DEF RetryClass, AdapterOf
<1>10. ~(busy[model] < MaxCapacity)
  BY <1>9 DEF CapacityRetries
<1> QED
  BY <1>2, <1>7, <1>10, OutboundAssumption

LEMMA FallBackKeeps ==
  ASSUME OutboundInv, FallBack
  PROVE  OutboundInv'
<1>1. /\ OutboundTypeOK /\ TriesLeft /\ MendsFit /\ SentAsPlanned /\ RefusedForCause
      /\ SendsCounted /\ LeftOnlyIfHopeless
  BY DEF OutboundInv
<1>2. /\ moment = "refused" /\ ~CapacityRetries /\ Plan = <<>>
      /\ sent' = sent /\ sends' = sends /\ refusal' = refusal /\ mends' = mends
      /\ ask' = ask /\ funnel' = funnel /\ busy' = busy
      /\ \/ /\ layer < Len(funnel) /\ layer' = layer + 1 /\ moment' = "loop"
            /\ tries' = ReserveAttemptBudget(tries)
         \/ /\ ~(layer < Len(funnel)) /\ layer' = layer /\ moment' = "failed" /\ tries' = tries
  BY DEF FallBack
<1>3. Targets' = Targets
  BY <1>2 DEF Targets
<1>4. /\ layer \in 1..Len(funnel) /\ Len(funnel) \in Nat
  BY <1>1 DEF OutboundTypeOK
<1>5. OutboundTypeOK' /\ TriesLeft'
  <2>1. /\ ReserveAttemptBudget(tries) \in 0..MaxTries
        /\ ReserveAttemptBudget(tries) < MaxTries
    BY <1>1, OutboundAssumption DEF OutboundTypeOK, ReserveAttemptBudget
  <2>2. tries' \in 0..MaxTries /\ (moment' = "loop" => tries' < MaxTries)
    BY <1>1, <1>2, <2>1 DEF OutboundTypeOK
  <2>3. layer' \in 1..Len(funnel) /\ moment' \in {"loop", "failed"}
    BY <1>2, <1>4
  <2>4. OutboundTypeOK'
    BY <1>1, <1>2, <1>3, <2>2, <2>3 DEF OutboundTypeOK
  <2>5. TriesLeft'
    BY <2>2, <2>3 DEF TriesLeft
  <2> QED  BY <2>4, <2>5
<1>6. MendsFit'
  BY <1>1, <1>2, <1>3 DEF MendsFit
<1>7. SentAsPlanned' /\ RefusedForCause'
  <2>1. CASE moment' = "loop"
    BY <2>1 DEF SentAsPlanned, RefusedForCause
  <2>2. CASE moment' = "failed"
    <3>1. layer' = layer
      BY <1>2, <2>2
    <3>2. model' = model /\ upstream' = upstream
      BY <1>2, <3>1 DEF model, upstream
    <3> QED
      BY <1>1, <1>2, <2>2, <3>2 DEF SentAsPlanned, RefusedForCause
  <2> QED  BY <1>2, <2>1, <2>2
<1>8. SendsCounted'
  <2> DEFINE now == IF moment' = "loop" THEN layer' - 1 ELSE layer'
  <2>1. now = layer
    BY <1>2, <1>4
  <2> HIDE DEF now
  <2> SUFFICES ASSUME NEW m \in Targets
               PROVE  sends[m] = Len(mends[m]) + busy[m] + Visits(funnel, m, now)
    BY <1>2, <1>3 DEF SendsCounted, now
  <2> QED
    BY <1>1, <1>2, <2>1 DEF SendsCounted
<1>9. LeftOnlyIfHopeless'
  <2> SUFFICES ASSUME NEW i \in 1..Len(funnel), i < layer', Mendable(ask, Upstream[funnel[i]])
               PROVE  "capacity" \in Upstream[funnel[i]].refuses /\ busy[funnel[i]] = MaxCapacity
    <3>1. ASSUME NEW i \in 1..Len(funnel), i = layer', moment' = "failed",
                 Mendable(ask, Upstream[funnel[i]])
          PROVE  "capacity" \in Upstream[funnel[i]].refuses /\ busy[funnel[i]] = MaxCapacity
      BY <1>2, <3>1, HopelessIfLeft DEF upstream, model
    <3> QED
      BY <1>2, <3>1 DEF LeftOnlyIfHopeless
  <2>1. CASE i < layer
    BY <1>1, <2>1 DEF LeftOnlyIfHopeless
  <2>2. CASE i = layer
    BY <1>2, <2>2, HopelessIfLeft DEF upstream, model
  <2> QED
    BY <1>2, <1>4, <2>1, <2>2
<1> QED
  BY <1>5, <1>6, <1>7, <1>8, <1>9 DEF OutboundInv

\* In every run, on every route, whatever the models refuse: the types, the mends planned for a
\* model are for what it refuses, the counts of requests, and no model is left that could be
\* satisfied (planConstraintRecovery, executeGatewayRequest).
THEOREM OutboundInvariant == OutboundSpec => []OutboundInv
<1>1. ASSUME OutboundInit PROVE OutboundInv
  <2>1. /\ ask \in Asks /\ funnel \in Layers /\ layer = 1 /\ tries = 0 /\ moment = "loop"
        /\ mends = [m \in Targets |-> <<>>]
        /\ busy = [m \in DOMAIN mends |-> 0] /\ sends = [m \in DOMAIN mends |-> 0]
    BY <1>1 DEF OutboundInit, Targets
  <2>2. DOMAIN mends = Targets
    BY <2>1
  <2>3. /\ ask \in Requests /\ (ask.protocol = "openai" => ask.server = "none")
    BY <2>1, OutboundAssumption
  <2>4. funnel \in Seq(Models) /\ 1 \in 1..Len(funnel)
    <3>1. funnel \in Seq(Models) /\ funnel # <<>>
      BY <2>1, OutboundAssumption
    <3> QED  BY <3>1
  <2>5. \A m \in Targets : PlannedFor(mends[m], ask, Upstream[m]) /\ mends[m] = <<>>
    BY <2>1, NothingPlanned
  <2>6. OutboundTypeOK
    <3>1. /\ mends \in [Targets -> Seq(Mends)] /\ sends \in [Targets -> Nat]
          /\ busy \in [Targets -> 0..MaxCapacity]
      BY <2>1, <2>2, OutboundAssumption, NothingPlanned
    <3> QED
      BY <2>1, <2>3, <2>4, <3>1, OutboundAssumption DEF OutboundTypeOK
  <2>7. TriesLeft /\ SentAsPlanned /\ RefusedForCause /\ LeftOnlyIfHopeless /\ MendsFit
    BY <2>1, <2>4, <2>5, OutboundAssumption
       DEF TriesLeft, SentAsPlanned, RefusedForCause, LeftOnlyIfHopeless, MendsFit
  <2>8. SendsCounted
    <3> SUFFICES ASSUME NEW m \in Targets
                 PROVE  sends[m] = Len(mends[m]) + busy[m] + Visits(funnel, m, 0)
      BY <2>1 DEF SendsCounted
    <3>1. Visits(funnel, m, 0) = 0
      <4>1. {i \in 1..0 : funnel[i] = m} = {}
        OBVIOUS
      <4> QED  BY <4>1, FS_EmptySet DEF Visits
    <3>2. sends[m] = 0 /\ busy[m] = 0 /\ Len(mends[m]) = 0
      BY <2>1, <2>2, <2>5
    <3> QED  BY <3>1, <3>2
  <2> QED  BY <2>6, <2>7, <2>8 DEF OutboundInv
<1>2. ASSUME OutboundInv, [OutboundNext]_outboundVars PROVE OutboundInv'
  <2>1. CASE SendRequest
    BY <1>2, <2>1, SendKeeps
  <2>2. CASE Take \/ Refuse
    BY <1>2, <2>2, HeardKeeps
  <2>3. CASE RetryCapacity
    BY <1>2, <2>3, CapacityKeeps
  <2>4. CASE Recover
    BY <1>2, <2>4, RecoverKeeps
  <2>5. CASE FallBack
    BY <1>2, <2>5, FallBackKeeps
  <2>6. CASE UNCHANGED outboundVars
    <3>1. /\ ask' = ask /\ funnel' = funnel /\ layer' = layer /\ tries' = tries /\ mends' = mends
          /\ busy' = busy /\ sent' = sent /\ refusal' = refusal /\ sends' = sends /\ moment' = moment
      BY <2>6 DEF outboundVars
    <3>2. Targets' = Targets /\ model' = model /\ upstream' = upstream
      BY <3>1 DEF Targets, model, upstream
    <3>3. OutboundTypeOK' /\ TriesLeft' /\ MendsFit'
      BY <1>2, <3>1, <3>2 DEF OutboundInv, OutboundTypeOK, TriesLeft, MendsFit
    <3>4. SentAsPlanned' /\ RefusedForCause'
      BY <1>2, <3>1, <3>2 DEF OutboundInv, SentAsPlanned, RefusedForCause
    <3>5. SendsCounted' /\ LeftOnlyIfHopeless'
      BY <1>2, <3>1, <3>2 DEF OutboundInv, SendsCounted, LeftOnlyIfHopeless
    <3> QED  BY <3>3, <3>4, <3>5 DEF OutboundInv
  <2> QED
    BY <1>2, <2>1, <2>2, <2>3, <2>4, <2>5, <2>6 DEF OutboundNext
<1> QED
  BY <1>1, <1>2, PTL DEF OutboundSpec

\* No more than four mends and the waits allowed for capacity are spent on a layer.
LEMMA SendsBounded ==
  ASSUME OutboundInv
  PROVE  AskedBoundedly
<1>1. OutboundTypeOK /\ TriesLeft /\ MendsFit /\ SendsCounted
  BY DEF OutboundInv
<1>2. DOMAIN sends = Targets
  BY <1>1 DEF OutboundTypeOK
<1>3. ASSUME NEW m \in Targets
      PROVE  sends[m] <= 4 + MaxCapacity + Cardinality({i \in 1..Len(funnel) : funnel[i] = m})
  <2> DEFINE k == IF moment = "loop" THEN layer - 1 ELSE layer
             codes == Codes(mends[m], Len(mends[m]))
  <2>1. k \in 0..Len(funnel) /\ Len(funnel) \in Nat /\ k \in Nat
    BY <1>1 DEF OutboundTypeOK
  <2>2. sends[m] = Len(mends[m]) + busy[m] + Visits(funnel, m, k)
    BY <1>1 DEF SendsCounted
  <2>3. busy[m] \in 0..MaxCapacity /\ mends[m] \in Seq(Mends) /\ Len(mends[m]) \in Nat
    BY <1>1 DEF OutboundTypeOK
  <2>4. Len(mends[m]) <= 4
    <3>1. IsFiniteSet(codes) /\ Cardinality(codes) = Len(mends[m])
      BY <1>1 DEF MendsFit, PlannedFor
    <3>2. codes \subseteq MendCodes
      BY <2>3 DEF Codes, Mends
    <3>3. IsFiniteSet(MendCodes) /\ Cardinality(MendCodes) <= 4
      <4> DEFINE A == {"disable_thinking_for_strict_tool_choice"}
                 B == A \cup {"relax_strict_tool_choice"}
                 C == B \cup {"disable_thinking"}
                 D == C \cup {"escape_tool_result_refs"}
      <4>1. IsFiniteSet(A) /\ Cardinality(A) = 1
        BY FS_Singleton
      <4>2. IsFiniteSet(B) /\ Cardinality(B) <= 2
        <5> HIDE DEF A
        <5> QED  BY <4>1, FS_AddElement
      <4>3. IsFiniteSet(C) /\ Cardinality(C) <= 3
        <5>1. Cardinality(B) \in Nat
          BY <4>2, FS_CardinalityType
        <5> HIDE DEF B
        <5> QED  BY <4>2, <5>1, FS_AddElement
      <4>4. IsFiniteSet(D) /\ Cardinality(D) <= 4
        <5>1. Cardinality(C) \in Nat
          BY <4>3, FS_CardinalityType
        <5> HIDE DEF C
        <5> QED  BY <4>3, <5>1, FS_AddElement
      <4>5. MendCodes = D
        BY DEF MendCodes
      <4> QED  BY <4>4, <4>5
    <3>4. Cardinality(codes) <= Cardinality(MendCodes)
      BY <3>2, <3>3, FS_Subset
    <3>5. Cardinality(codes) \in Nat /\ Cardinality(MendCodes) \in Nat
      BY <3>1, <3>3, FS_CardinalityType
    <3> HIDE DEF codes
    <3> QED  BY <3>1, <3>3, <3>4, <3>5
  <2>5. Visits(funnel, m, k) <= Visits(funnel, m, Len(funnel))
    BY <2>1, VisitsGrow
  <2>6. Visits(funnel, m, k) \in Nat /\ Visits(funnel, m, Len(funnel)) \in Nat
    BY <2>1, VisitsStep
  <2> HIDE DEF k
  <2>7. sends[m] <= 4 + MaxCapacity + Visits(funnel, m, Len(funnel))
    BY <2>2, <2>3, <2>4, <2>5, <2>6, OutboundAssumption
  <2> QED  BY <2>7 DEF Visits
<1> QED
  BY <1>1, <1>2, <1>3 DEF AskedBoundedly, TriesLeft

\* MendedAsNeeded, for all models, routes, requests and bounds: a model is left only when it
\* cannot be satisfied, is asked a bounded number of times, and answers the request of the client
\* but for what it refused (gatewayExecutor.ts:2208, providerConstraintRecovery.ts:182).
THEOREM ModelsAreMended == OutboundSpec => []MendedAsNeeded
<1>1. ASSUME OutboundInv PROVE MendedAsNeeded
  <2>1. LeftOnlyIfHopeless
    BY <1>1 DEF OutboundInv
  <2>2. AskedBoundedly
    BY <1>1, SendsBounded
  <2>3. AnsweredAsAsked
    <3> SUFFICES ASSUME moment = "answered"
                 PROVE  ChangedOnlyIfRefused(sent.body, Outbound(ask, upstream, <<>>).body, upstream)
      BY DEF AnsweredAsAsked, ChangedOnlyIfRefused
    <3>1. OutboundTypeOK /\ MendsFit /\ sent = Outbound(ask, upstream, mends[model])
      BY <1>1 DEF OutboundInv, SentAsPlanned
    <3>2. model \in Targets /\ upstream \in Upstreams
      BY <3>1, Addressee
    <3>3. ask \in Requests /\ PlannedFor(mends[model], ask, upstream)
      BY <3>1, <3>2 DEF OutboundTypeOK, MendsFit, upstream
    <3> QED
      BY <3>1, <3>2, <3>3, SentAsAsked
  <2> QED  BY <2>1, <2>2, <2>3 DEF MendedAsNeeded
<1> QED
  BY <1>1, OutboundInvariant, PTL
=============================================================================
