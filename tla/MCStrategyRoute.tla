-------------------------- MODULE MCStrategyRoute --------------------------
(* Routes of two and three layers, of which each has a model for text, for      *)
(* images and for long contexts, or lacks some.                              *)
EXTENDS StrategyRoute

CONSTANTS t1, t2, t3, v1, v2, v3, l1, l2, l3, none

MCModels == {t1, t2, t3, v1, v2, v3, l1, l2, l3}

MCLayer(t, v, l, e, c) ==
    [model |-> t, vision |-> v, long_context |-> l, general |-> t, enabled |-> e, compress |-> c]

\* With all rules, without one of them, without strategy routing, and with compression.
MCKinds(t, v, l) ==
    {MCLayer(t, v, l, TRUE, FALSE), MCLayer(t, v, none, TRUE, FALSE),
     MCLayer(t, none, l, TRUE, FALSE), MCLayer(t, none, none, FALSE, FALSE),
     MCLayer(t, v, l, TRUE, TRUE)}

MCRoutes == {<<a, b, c>> : a \in MCKinds(t1, v1, l1), b \in MCKinds(t2, v2, l2),
                           c \in {MCLayer(t3, v3, none, TRUE, FALSE), MCLayer(t3, none, l3, TRUE, FALSE)}}

\* Models for text and images take 1; those for long contexts 2; but those of large more.
MCWindow(large) ==
    [m \in MCModels |-> IF m \in {l1, l2, l3} THEN (IF m \in large THEN 0 ELSE 2)
                        ELSE IF m \in large THEN 2 ELSE 1]

\* Requests with images; long texts on the same routes; and texts of every class, also as the
\* continuation of a turn that another model of the route answered, with and without a quota.
MCImageCases ==
    [layers : MCRoutes, window : {MCWindow(S) : S \in {{}, {v2}, {l1}, {v2, l3}}}, valid : {MCModels, MCModels \ {l1}},
     body : [size : {2, 3}, images : {TRUE}], task : {"general"}, quota : {0},
     streaming : BOOLEAN, continuation : {FALSE}, previous : {t1}]

MCTextRoutes == {<<a, b>> : a \in MCKinds(t1, v1, l1), b \in MCKinds(t2, v2, l2)}

MCTextCases ==
    [layers : MCTextRoutes, window : {[MCWindow(S) EXCEPT ![t1] = n] : S \in {{}, {l1}}, n \in {0, 2}},
     valid : {MCModels, MCModels \ {l1}},
     body : [size : {2, 4}, images : {FALSE}], task : {"general", "long_context"},
     quota : {0, 3}, streaming : BOOLEAN, continuation : BOOLEAN, previous : {l1}]

MCCases == MCImageCases \cup MCTextCases

=============================================================================
