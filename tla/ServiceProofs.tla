---------------------------- MODULE ServiceProofs ----------------------------
(***************************************************************************)
(* Services beside the gateway, for any requests, targets, callers, clients, logs,  *)
(* rows and jobs: a session has one holder; an ejected target has one probe and the  *)
(* means to be restored; the turns of a client stand in the audit log in their      *)
(* order; a row of the request log never goes back to an earlier write; a server     *)
(* that moves to PostgreSQL takes its rows with it, and their values mean what they  *)
(* meant; and a distillation job loses no fragment and stops when it is cancelled.   *)
(***************************************************************************)
EXTENDS AsyncQueue, SessionQueue, TimeoutEject, LogWrites, DatabaseMove,
        DistillationJobs, StoredValues, AsyncQueueOpsProofs

-----------------------------------------------------------------------------
(* TimeoutEject                                                              *)

\* The store agrees with the probes on their way, and every record can be probed.
StoreInv ==
    /\ record \in [Targets -> Records]
    /\ probes \in [Targets -> [Fates -> 0..1]]
    /\ OneProbe
    /\ EjectionHasProbe

EjectInv == TypeOK /\ StoreInv

\* A noted timeout keeps the store in order: it comes with what to send, or meets a record.
LEMMA NoteKeepsStore ==
    ASSUME StoreInv, NEW t \in Targets, NEW w \in BOOLEAN, Note(t, w), w \/ Ejected(t)
    PROVE  StoreInv'
<1>1. probes[t] \in [Fates -> 0..1] /\ record[t] \in {"none", "idle", "probing"}
    BY DEF StoreInv, EjectionHasProbe, Records
<1>2. CASE record[t] = "probing"
    <2>1. record' = record /\ probes' = probes
        BY <1>2 DEF Note, StoreInv
    <2> QED
        BY <2>1 DEF StoreInv, OneProbe, EjectionHasProbe
<1>3. CASE record[t] # "probing"
    <2>1. record' = [record EXCEPT ![t] = "probing"]
        /\ probes' = [probes EXCEPT ![t][Fate(t)] = @ + 1]
        BY <1>1, <1>3 DEF Note, Ejected
    <2>2. probes[t]["sound"] = 0 /\ probes[t]["doomed"] = 0
        BY <1>1, <1>3 DEF StoreInv, OneProbe, Fates
    <2>3. Fate(t) \in Fates
        BY DEF Fate, Fates
    <2>4. probes'[t] = [probes[t] EXCEPT ![Fate(t)] = 1]
        <3>1. probes'[t] = [probes[t] EXCEPT ![Fate(t)] = probes[t][Fate(t)] + 1]
            BY <2>1 DEF StoreInv
        <3>2. probes[t][Fate(t)] = 0
            BY <2>2 DEF Fate
        <3> QED
            BY <3>1, <3>2
    <2>5. \A u \in Targets \ {t} : probes'[u] = probes[u] /\ record'[u] = record[u]
        BY <2>1 DEF StoreInv
    <2>6. record' \in [Targets -> Records] /\ record'[t] = "probing"
        BY <2>1 DEF StoreInv, Records
    <2>7. probes'[t] \in [Fates -> 0..1]
        BY <1>1, <2>3, <2>4
    <2>8. probes' \in [Targets -> [Fates -> 0..1]]
        BY <2>1, <2>5, <2>7 DEF StoreInv
    <2>9. probes'[t]["sound"] + probes'[t]["doomed"] = 1
        BY <1>1, <2>2, <2>3, <2>4 DEF Fates
    <2>10. OneProbe'
        BY <2>5, <2>6, <2>9 DEF StoreInv, OneProbe
    <2>11. EjectionHasProbe'
        BY <2>5, <2>6 DEF StoreInv, EjectionHasProbe
    <2> QED
        BY <2>6, <2>8, <2>10, <2>11 DEF StoreInv
<1> QED
    BY <1>2, <1>3

\* A probe that ends is the one of the record, which it removes or leaves to be probed again.
LEMMA ProbeFinishedKeepsStore ==
    ASSUME StoreInv, NEW t \in Targets, NEW fate \in Fates, NEW success \in BOOLEAN,
           ProbeFinished(t, fate, success)
    PROVE  StoreInv'
<1>1. probes[t] \in [Fates -> 0..1] /\ record[t] \in Records
    BY DEF StoreInv
<1>2. record[t] = "probing" /\ probes[t][fate] = 1
    /\ \A other \in Fates \ {fate} : probes[t][other] = 0
    BY <1>1 DEF ProbeFinished, StoreInv, OneProbe, Fates
<1>3. record'[t] = IF success THEN "none" ELSE "idle"
    BY <1>1, <1>2 DEF ProbeFinished, StoreInv
<1>4. \A u \in Targets \ {t} : probes'[u] = probes[u] /\ record'[u] = record[u]
    BY DEF ProbeFinished, StoreInv
<1>5. probes'[t] = [probes[t] EXCEPT ![fate] = 0]
    BY <1>1, <1>2 DEF ProbeFinished, StoreInv
<1>6. probes'[t]["sound"] = 0 /\ probes'[t]["doomed"] = 0 /\ probes'[t] \in [Fates -> 0..1]
    BY <1>1, <1>2, <1>5 DEF Fates
<1>7. record' \in [Targets -> Records]
    BY <1>2 DEF ProbeFinished, StoreInv, Records
<1>8. probes' \in [Targets -> [Fates -> 0..1]]
    BY <1>4, <1>6 DEF ProbeFinished, StoreInv
<1>9. OneProbe'
    BY <1>3, <1>4, <1>6 DEF StoreInv, OneProbe
<1>10. EjectionHasProbe'
    BY <1>3, <1>4 DEF StoreInv, EjectionHasProbe
<1> QED
    BY <1>7, <1>8, <1>9, <1>10 DEF StoreInv

\* The store is in order in every reachable state.
THEOREM StoreInvariant == Spec => []EjectInv
<1>1. Init => EjectInv
    <2> SUFFICES ASSUME Init PROVE EjectInv
        OBVIOUS
    <2>1. TypeOK
        BY MaxChangesAssumption DEF Init, TypeOK, Records, Fates, Steps
    <2>2. OneProbe /\ EjectionHasProbe
        BY DEF Init, OneProbe, EjectionHasProbe, Fates
    <2> QED
        BY <2>1, <2>2 DEF EjectInv, StoreInv, TypeOK
<1>2. EjectInv /\ [Next]_vars => EjectInv'
    <2> SUFFICES ASSUME EjectInv, [Next]_vars PROVE EjectInv'
        OBVIOUS
    <2> DEFINE
        RouteOK == l0 \in Targets /\ enabled \in BOOLEAN /\ changes \in 0..MaxChanges
        RequestOK ==
            request \in [Requests -> [step : Steps, target : Targets, enabled : BOOLEAN]]
        UpOK == up \subseteq Targets
    <2>0. RouteOK /\ UpOK /\ RequestOK /\ StoreInv
        BY DEF EjectInv, TypeOK
    <2>a. ASSUME RouteOK', UpOK', RequestOK', StoreInv' PROVE EjectInv'
        BY <2>a DEF EjectInv, TypeOK, StoreInv
    <2>b. ASSUME NEW r \in Requests, NEW s \in Steps, Moves(r, s) PROVE RequestOK'
        BY <2>0, <2>b DEF Moves
    <2>c. ASSUME UNCHANGED <<record, probes>> PROVE StoreInv'
        BY <2>0, <2>c DEF StoreInv, OneProbe, EjectionHasProbe
    <2>d. \A s \in {"done", "routed", "sent", "hanging"} : s \in Steps
        BY DEF Steps
    <2> HIDE DEF RouteOK, UpOK, RequestOK
    <2>1. ASSUME NEW r \in Requests, Route(r) PROVE EjectInv'
        <3>1. RequestOK'
            BY <2>0, <2>1, <2>d DEF Route, RequestOK, RouteOK
        <3> QED
            BY <2>0, <2>1, <2>a, <2>c, <3>1 DEF Route, route, RouteOK, UpOK
    <2>2. ASSUME NEW r \in Requests, Skip(r) PROVE EjectInv'
        <3>1. request[r].target \in Targets
            BY <2>0 DEF RequestOK
        <3>2. StoreInv'
            BY <2>0, <2>2, <3>1, NoteKeepsStore DEF Skip
        <3>3. RequestOK'
            BY <2>2, <2>b, <2>d DEF Skip
        <3> QED
            BY <2>0, <2>2, <2>a, <3>2, <3>3 DEF Skip, route, RouteOK, UpOK
    <2>3. ASSUME NEW r \in Requests, Send(r) PROVE EjectInv'
        <3>1. RequestOK'
            BY <2>3, <2>b, <2>d DEF Send
        <3> QED
            BY <2>0, <2>3, <2>a, <2>c, <3>1 DEF Send, route, RouteOK, UpOK
    <2>4. ASSUME NEW r \in Requests, Answered(r) PROVE EjectInv'
        <3>1. RequestOK'
            BY <2>4, <2>b, <2>d DEF Answered
        <3> QED
            BY <2>0, <2>4, <2>a, <2>c, <3>1 DEF Answered, route, RouteOK, UpOK
    <2>5. ASSUME NEW r \in Requests, TimedOut(r) PROVE EjectInv'
        <3>1. request[r].target \in Targets /\ request[r].enabled \in BOOLEAN
            BY <2>0 DEF RequestOK
        <3>2. StoreInv'
            BY <2>0, <2>5, <2>c, <3>1, NoteKeepsStore DEF TimedOut
        <3>3. RequestOK'
            BY <2>5, <2>b, <2>d DEF TimedOut
        <3> QED
            BY <2>0, <2>5, <2>a, <3>2, <3>3 DEF TimedOut, route, RouteOK, UpOK
    <2>6. ASSUME NEW t \in Targets, ProbeAnswered(t) PROVE EjectInv'
        <3>1. StoreInv'
            BY <2>0, <2>6, ProbeFinishedKeepsStore DEF ProbeAnswered, Fates
        <3> QED
            BY <2>0, <2>6, <2>a, <3>1 DEF ProbeAnswered, route, RouteOK, UpOK, RequestOK
    <2>7. ASSUME NEW t \in Targets, ProbeFailed(t) PROVE EjectInv'
        <3>1. StoreInv'
            BY <2>0, <2>7, ProbeFinishedKeepsStore DEF ProbeFailed
        <3> QED
            BY <2>0, <2>7, <2>a, <3>1 DEF ProbeFailed, route, RouteOK, UpOK, RequestOK
    <2>8. ASSUME NEW t \in Targets, GoesDown(t) \/ ComesBack(t) PROVE EjectInv'
        <3>1. RouteOK' /\ UpOK' /\ RequestOK' /\ UNCHANGED <<record, probes>>
            BY <2>0, <2>8 DEF GoesDown, ComesBack, route, RouteOK, UpOK, RequestOK
        <3> QED
            BY <2>a, <2>c, <3>1
    <2>9. CASE ChangeRoute
        <3>1. RouteOK'
            <4>1. changes' \in 0..MaxChanges
                BY <2>0, <2>9, MaxChangesAssumption DEF ChangeRoute, RouteOK
            <4>2. l0' \in Targets /\ enabled' \in BOOLEAN
                BY <2>0, <2>9 DEF ChangeRoute, RouteOK
            <4> QED
                BY <4>1, <4>2 DEF RouteOK
        <3>2. UpOK' /\ RequestOK' /\ UNCHANGED <<record, probes>>
            BY <2>0, <2>9 DEF ChangeRoute, UpOK, RequestOK
        <3> QED
            BY <2>a, <2>c, <3>1, <3>2
    <2>10. CASE UNCHANGED vars
        <3>1. RouteOK' /\ UpOK' /\ RequestOK' /\ UNCHANGED <<record, probes>>
            BY <2>0, <2>10 DEF vars, route, RouteOK, UpOK, RequestOK
        <3> QED
            BY <2>a, <2>c, <3>1
    <2> QED
        BY <2>1, <2>2, <2>3, <2>4, <2>5, <2>6, <2>7, <2>8, <2>9, <2>10
        DEF Next, Passes, ProbeEnds
<1> QED
    BY <1>1, <1>2, PTL DEF Spec

\* At most one probe of an ejected target is on its way, and every ejection carries the probe
\* that can undo it (markEjected, noteNoAnswerTimeoutEject, finishProbe).
THEOREM ProbesAreAccounted == Spec => []ProbesAccounted
<1>1. EjectInv => ProbesAccounted
    BY DEF EjectInv, StoreInv, ProbesAccounted
<1> QED
    BY <1>1, StoreInvariant, PTL

-----------------------------------------------------------------------------
(* The audit log: a read and a write that are two steps.  What keeps them together   *)
(* is the chain of promises: everything a client handed over earlier is settled,   *)
(* or waits in front of the last link of the client's chain, even after the map    *)
(* has lost that link.                                                        *)

Handed == {i \in Inserts : insert[i].step # "new"}
Running == {i \in Inserts : insert[i].step \in {"matching", "writing", "retrying"}}

InsertRecords == [step : InsertSteps, client : Clients \cup {"none"}, after : Links,
                  at : [session : Inserts, turn : Nat]]
RowRecords == [insert : Inserts, client : Clients, session : Inserts, turn : Nat]

AuditTypes ==
    /\ tail \in [Clients -> Links]
    /\ insert \in [Inserts -> InsertRecords]
    /\ handedOver \in Seq(Inserts)
    /\ rows \in Seq(RowRecords)

\* Every turn is handed over once, by a client.
HandedOnce ==
    /\ \A m, n \in DOMAIN handedOver : handedOver[m] = handedOver[n] => m = n
    /\ \A i \in Inserts : i \in Handed <=> \E m \in DOMAIN handedOver : handedOver[m] = i
    /\ \A i \in Handed : insert[i].client \in Clients

\* Whoever waits for the link l finds i settled.
Covered(i, l) == insert[i].step = "settled" \/ (l # "none" /\ (l = i \/ Before(i, l)))

LinkOK(l, c) == l # "none" => l \in Handed /\ insert[l].client = c

\* An insert that has started has nothing unsettled of its client before it.
InFront(i, j) ==
    IF insert[j].step = "chained" THEN Covered(i, insert[j].after)
    ELSE insert[i].step = "settled"

Chained ==
    /\ \A c \in Clients : LinkOK(tail[c], c)
    /\ \A i \in Handed : LinkOK(insert[i].after, insert[i].client)
    /\ \A i \in Handed : Covered(i, tail[insert[i].client])
    /\ \A i, j \in Handed :
          insert[i].client = insert[j].client /\ Before(i, j) => InFront(i, j)

RowsOK ==
    /\ \A k \in DOMAIN rows : /\ insert[rows[k].insert].step \in {"retrying", "settled"}
                              /\ insert[rows[k].insert].client = rows[k].client
    /\ TurnsOrdered

\* The conversation and the number an insert has read are still to come.
AtFits(i) ==
    \/ Stored(i)
    \/ \A k \in DOMAIN rows : rows[k].client = insert[i].client =>
          /\ rows[k].session = insert[i].at.session
          /\ rows[k].turn < insert[i].at.turn

AtOK == \A i \in Inserts : insert[i].step \in {"writing", "retrying"} => AtFits(i)

AuditInv == AuditTypes /\ HandedOnce /\ Chained /\ RowsOK /\ AtOK


LEMMA AuditInitInv == AuditInit => AuditInv
  BY DEF AuditInit, AuditInv, AuditTypes, HandedOnce, Chained, RowsOK, AtOK, TurnsOrdered,
         Handed, LinkOK, New, InsertRecords, InsertSteps, Links, RowRecords

\* The order in which turns are handed over is a strict and total one.
LEMMA BeforeIsOrder ==
  ASSUME AuditTypes, HandedOnce
  PROVE  /\ \A i, j : Before(i, j) => i \in Handed /\ j \in Handed /\ i # j /\ ~Before(j, i)
         /\ \A i, j, k : Before(i, j) /\ Before(j, k) => Before(i, k)
         /\ \A i, j \in Handed : i = j \/ Before(i, j) \/ Before(j, i)
<1>1. Len(handedOver) \in Nat /\ DOMAIN handedOver = 1..Len(handedOver)
      /\ \A m \in DOMAIN handedOver : handedOver[m] \in Inserts
  BY DEF AuditTypes
<1>2. \A m, n \in DOMAIN handedOver : handedOver[m] = handedOver[n] => m = n
  BY DEF HandedOnce
<1>3. \A i, j : Before(i, j) => i \in Handed /\ j \in Handed /\ i # j /\ ~Before(j, i)
  <2> SUFFICES ASSUME NEW i, NEW j, Before(i, j)
               PROVE  i \in Handed /\ j \in Handed /\ i # j /\ ~Before(j, i)
    OBVIOUS
  <2>1. PICK m, n \in DOMAIN handedOver : m < n /\ handedOver[m] = i /\ handedOver[n] = j
    BY DEF Before
  <2>2. i \in Handed /\ j \in Handed
    BY <2>1, <1>1 DEF HandedOnce
  <2>3. i # j
    BY <2>1, <1>1, <1>2
  <2>4. ASSUME NEW a \in DOMAIN handedOver, NEW b \in DOMAIN handedOver,
               a < b, handedOver[a] = j, handedOver[b] = i
        PROVE  FALSE
    <3>1. a = n /\ b = m
      BY <2>1, <2>4, <1>2
    <3> QED
      BY <3>1, <2>1, <2>4, <1>1
  <2> QED
    BY <2>2, <2>3, <2>4 DEF Before
<1>4. \A i, j, k : Before(i, j) /\ Before(j, k) => Before(i, k)
  <2> SUFFICES ASSUME NEW i, NEW j, NEW k, Before(i, j), Before(j, k)
               PROVE  Before(i, k)
    OBVIOUS
  <2>1. PICK m, n \in DOMAIN handedOver : m < n /\ handedOver[m] = i /\ handedOver[n] = j
    BY DEF Before
  <2>2. PICK a, b \in DOMAIN handedOver : a < b /\ handedOver[a] = j /\ handedOver[b] = k
    BY DEF Before
  <2>3. a = n
    BY <2>1, <2>2, <1>2
  <2>4. m < b
    BY <2>1, <2>2, <2>3, <1>1
  <2> QED
    BY <2>1, <2>2, <2>4 DEF Before
<1>5. \A i, j \in Handed : i = j \/ Before(i, j) \/ Before(j, i)
  <2> SUFFICES ASSUME NEW i \in Handed, NEW j \in Handed, i # j
               PROVE  Before(i, j) \/ Before(j, i)
    OBVIOUS
  <2>1. PICK m \in DOMAIN handedOver : handedOver[m] = i
    BY DEF HandedOnce, Handed
  <2>2. PICK n \in DOMAIN handedOver : handedOver[n] = j
    BY DEF HandedOnce, Handed
  <2>3. m < n \/ n < m
    BY <2>1, <2>2, <1>1
  <2> QED
    BY <2>1, <2>2, <2>3 DEF Before
<1> QED
  BY <1>3, <1>4, <1>5

\* One insert of a client runs at a time, and those handed over before it are settled.
LEMMA RunsAlone ==
  ASSUME AuditInv, NEW i \in Running, NEW j \in Handed, insert[j].client = insert[i].client,
         insert[j].step \in {"matching", "writing", "retrying", "settled"}, i # j
  PROVE  insert[j].step = "settled" /\ Before(j, i)
<1>1. i \in Handed /\ insert[i].step # "chained" /\ insert[j].step # "chained"
      /\ insert[i].step # "settled"
  BY DEF Running, Handed
<1>2. Before(i, j) \/ Before(j, i)
  BY <1>1, BeforeIsOrder DEF AuditInv
<1>3. ~Before(i, j)
  BY <1>1 DEF AuditInv, Chained, InFront
<1>4. Before(j, i)
  BY <1>2, <1>3
<1>5. insert[j].step = "settled"
  BY <1>1, <1>4 DEF AuditInv, Chained, InFront
<1> QED
  BY <1>4, <1>5

\* An insert takes a step after its hand-over: it starts once its predecessor is settled, or it
\* was running.
MovesOn(i) ==
    /\ i \in Inserts
    /\ \/ insert[i].step = "chained" /\ insert[i].after \in SettledLinks
       \/ i \in Running
    /\ insert' \in [Inserts -> InsertRecords]
    /\ \A j \in Inserts : j # i => insert'[j] = insert[j]
    /\ insert'[i].client = insert[i].client /\ insert'[i].after = insert[i].after
    /\ insert'[i].step \in {"matching", "writing", "retrying", "settled"}
    /\ handedOver' = handedOver

MovesTail(i) ==
    \/ tail' = tail
    \/ i \in Running /\ insert'[i].step = "settled" /\ tail' = Leave(i)

\* The chain allows every such step.
LEMMA ChainKept ==
  ASSUME AuditInv, NEW i, MovesOn(i), MovesTail(i)
  PROVE  HandedOnce' /\ Chained' /\ tail' \in [Clients -> Links]
<1>1. /\ i \in Handed /\ insert[i].step \in {"chained", "matching", "writing", "retrying"}
      /\ insert[i].client \in Clients
  BY DEF MovesOn, Running, Handed, AuditInv, HandedOnce
<1>2. Handed' = Handed
  BY <1>1 DEF MovesOn, Handed
<1>3. \A x, y : Before(x, y)' <=> Before(x, y)
  BY DEF MovesOn, Before
<1>4. HandedOnce'
  BY <1>1, <1>2 DEF AuditInv, HandedOnce, MovesOn, Handed
<1>5. \A j \in Handed : insert'[j].client = insert[j].client /\ insert'[j].after = insert[j].after
  BY DEF MovesOn, Handed
<1>6. \A x \in Handed : \A l : Covered(x, l) => Covered(x, l)'
  BY <1>1, <1>3 DEF Covered, MovesOn, Handed
<1>7. \A x \in Handed : insert[x].client = insert[i].client /\ Before(x, i) =>
         insert[x].step = "settled" /\ x # i
  <2> SUFFICES ASSUME NEW x \in Handed, insert[x].client = insert[i].client, Before(x, i)
               PROVE  insert[x].step = "settled" /\ x # i
    OBVIOUS
  <2>1. InFront(x, i)
    BY <1>1 DEF AuditInv, Chained
  <2>2. x # i
    BY BeforeIsOrder DEF AuditInv
  <2>3. CASE i \in Running
    BY <2>1, <2>2, <2>3 DEF InFront, Running
  <2>4. CASE insert[i].step = "chained" /\ insert[i].after \in SettledLinks
    <3> DEFINE a == insert[i].after
    <3>1. Covered(x, a)
      BY <2>1, <2>4 DEF InFront
    <3>2. CASE insert[x].step = "settled" \/ a = x
      BY <3>1, <3>2, <2>2, <2>4, InsertsAssumption DEF SettledLinks, Handed
    <3>3. CASE a # "none" /\ Before(x, a)
      <4>1. a \in Handed /\ insert[a].client = insert[x].client /\ insert[a].step = "settled"
        BY <3>3, <2>4, <1>1 DEF AuditInv, Chained, LinkOK, SettledLinks
      <4>2. InFront(x, a)
        BY <3>3, <4>1 DEF AuditInv, Chained
      <4> QED
        BY <4>1, <4>2, <2>2 DEF InFront
    <3> QED
      BY <3>1, <3>2, <3>3, <2>2 DEF Covered
  <2> QED
    BY <2>3, <2>4 DEF MovesOn
<1>8. \A l, c : LinkOK(l, c) => LinkOK(l, c)'
  BY <1>2, <1>5 DEF LinkOK
<1>9. ASSUME NEW x \in Handed, NEW y \in Handed, insert[x].client = insert[y].client, Before(x, y)
      PROVE  InFront(x, y)'
  <2>1. CASE y = i
    BY <1>7, <1>9, <2>1 DEF InFront, MovesOn, Handed
  <2>2. CASE y # i
    <3>1. InFront(x, y) /\ insert'[y] = insert[y]
      BY <1>9, <2>2 DEF AuditInv, Chained, MovesOn, Handed
    <3>2. CASE insert[y].step = "chained"
      BY <3>1, <3>2, <1>6 DEF InFront
    <3>3. CASE insert[y].step # "chained"
      BY <3>1, <3>3, <1>1 DEF InFront, MovesOn, Handed
    <3> QED
      BY <3>2, <3>3
  <2> QED
    BY <2>1, <2>2
<1>10. /\ \A c \in Clients : LinkOK(tail[c], c)'
       /\ \A x \in Handed : Covered(x, tail[insert[x].client])'
       /\ tail' \in [Clients -> Links]
  <2>1. CASE tail' = tail
    <3>1. \A c \in Clients : LinkOK(tail[c], c)'
      BY <2>1, <1>8 DEF AuditInv, Chained
    <3>2. \A x \in Handed : Covered(x, tail[insert[x].client])'
      BY <2>1, <1>5, <1>6 DEF AuditInv, Chained
    <3> QED
      BY <2>1, <3>1, <3>2 DEF AuditInv, AuditTypes
  <2>2. CASE i \in Running /\ insert'[i].step = "settled" /\ tail' = Leave(i)
    <3> DEFINE d == insert[i].client
    <3>1. tail \in [Clients -> Links] /\ tail' \in [Clients -> Links]
      BY <2>2, <1>1 DEF AuditInv, AuditTypes, Leave, Links
    <3>2. \A c \in Clients : tail'[c] = IF c = d /\ tail[c] = i THEN "none" ELSE tail[c]
      BY <2>2, <3>1 DEF Leave
    <3>3. \A c \in Clients : LinkOK(tail[c], c)'
      BY <3>2, <1>8 DEF AuditInv, Chained, LinkOK
    <3>4. ASSUME NEW x \in Handed
          PROVE  Covered(x, tail[insert[x].client])'
      <4>1. Covered(x, tail[insert[x].client]) /\ insert[x].client \in Clients
        BY DEF AuditInv, Chained, HandedOnce
      <4>2. CASE insert[x].client = d /\ tail[d] = i
        <5>1. insert[x].step = "settled" \/ x = i
          BY <4>1, <4>2, <1>7 DEF Covered
        <5>2. insert'[x].step = "settled"
          BY <5>1, <2>2 DEF MovesOn, Handed
        <5> QED
          BY <5>2 DEF Covered
      <4>3. CASE ~(insert[x].client = d /\ tail[d] = i)
        <5>1. tail'[insert'[x].client] = tail[insert[x].client]
          BY <4>1, <4>3, <3>2, <1>5
        <5> QED
          BY <4>1, <5>1, <1>6
      <4> QED
        BY <4>2, <4>3
    <3> QED
      BY <3>1, <3>3, <3>4
  <2> QED
    BY <2>1, <2>2 DEF MovesTail
<1>11. \A j \in Handed : LinkOK(insert[j].after, insert[j].client)'
  BY <1>5, <1>8 DEF AuditInv, Chained
<1>12. Chained'
  BY <1>2, <1>3, <1>5, <1>9, <1>10, <1>11 DEF Chained
<1> QED
  BY <1>4, <1>10, <1>12

\* A step that writes no row.
LEMMA RowsStay ==
  ASSUME AuditInv, NEW i, MovesOn(i), rows' = rows,
         insert[i].step = "retrying" => insert'[i].step \in {"retrying", "settled"},
         insert'[i].step \in {"writing", "retrying"} => AtFits(i)'
  PROVE  RowsOK' /\ AtOK'
<1>1. \A x, y : Before(x, y)' <=> Before(x, y)
  BY DEF MovesOn, Before
<1>2. TurnsOrdered'
  BY <1>1 DEF AuditInv, RowsOK, TurnsOrdered
<1>3. \A k \in DOMAIN rows : rows[k].insert \in Inserts
  <2>1. \A k \in DOMAIN rows : rows[k] \in RowRecords
    BY DEF AuditInv, AuditTypes
  <2> QED
    BY <2>1 DEF RowRecords
<1>4. insert[i].step # "settled"
  BY DEF MovesOn, Running
<1>5. \A k \in DOMAIN rows : /\ insert'[rows[k].insert].step \in {"retrying", "settled"}
                             /\ insert'[rows[k].insert].client = rows[k].client
  BY <1>3, <1>4 DEF AuditInv, RowsOK, MovesOn
<1>6. \A j \in Inserts : insert'[j].step \in {"writing", "retrying"} => AtFits(j)'
  BY DEF AuditInv, AtOK, AtFits, Stored, MovesOn
<1> QED
  BY <1>2, <1>5, <1>6 DEF RowsOK, AtOK

NewRow(i) == [insert |-> i, client |-> insert[i].client,
              session |-> insert[i].at.session, turn |-> insert[i].at.turn]

\* A step that writes one: it comes after all rows of its client.
LEMMA RowAdded ==
  ASSUME AuditInv, NEW i, MovesOn(i), insert[i].step \in {"writing", "retrying"}, ~Stored(i),
         rows' = Append(rows, NewRow(i)),
         insert'[i].step \in {"retrying", "settled"}
  PROVE  RowsOK' /\ AtOK' /\ rows' \in Seq(RowRecords)
<1>1. \A x, y : Before(x, y)' <=> Before(x, y)
  BY DEF MovesOn, Before
<1>2. i \in Running /\ i \in Handed /\ insert[i].client \in Clients /\ insert[i] \in InsertRecords
  BY DEF MovesOn, Running, Handed, AuditInv, HandedOnce, AuditTypes
<1>3. NewRow(i) \in RowRecords
  BY <1>2 DEF NewRow, RowRecords, InsertRecords, MovesOn
<1>4. rows \in Seq(RowRecords) /\ Len(rows) \in Nat /\ DOMAIN rows = 1..Len(rows)
  BY DEF AuditInv, AuditTypes
<1>5. /\ rows' \in Seq(RowRecords) /\ Len(rows') = Len(rows) + 1
      /\ DOMAIN rows' = 1..(Len(rows) + 1)
      /\ rows'[Len(rows) + 1] = NewRow(i)
      /\ \A k \in DOMAIN rows : rows'[k] = rows[k]
  BY <1>3, <1>4
<1>6. \A k \in DOMAIN rows : rows[k].insert \in Inserts
  <2>1. \A k \in DOMAIN rows : rows[k] \in RowRecords
    BY <1>4
  <2> QED
    BY <2>1 DEF RowRecords
<1>7. \A k \in DOMAIN rows : /\ insert'[rows[k].insert].step \in {"retrying", "settled"}
                             /\ insert'[rows[k].insert].client = rows[k].client
  BY <1>6 DEF AuditInv, RowsOK, MovesOn
<1>8. /\ NewRow(i).insert = i /\ NewRow(i).client = insert[i].client
      /\ NewRow(i).session = insert[i].at.session /\ NewRow(i).turn = insert[i].at.turn
  BY DEF NewRow
<1>9. \A k \in DOMAIN rows' : /\ insert'[rows'[k].insert].step \in {"retrying", "settled"}
                              /\ insert'[rows'[k].insert].client = rows'[k].client
  <2> TAKE k \in DOMAIN rows'
  <2>1. CASE k \in DOMAIN rows
    BY <2>1, <1>5, <1>7
  <2>2. CASE k = Len(rows) + 1
    BY <2>2, <1>5, <1>8 DEF MovesOn
  <2> QED
    BY <2>1, <2>2, <1>4, <1>5
<1>10. \A k \in DOMAIN rows : rows[k].client = insert[i].client =>
         /\ Before(rows[k].insert, i)
         /\ rows[k].session = insert[i].at.session
         /\ rows[k].turn < insert[i].at.turn
  <2> SUFFICES ASSUME NEW k \in DOMAIN rows, rows[k].client = insert[i].client
               PROVE  /\ Before(rows[k].insert, i)
                      /\ rows[k].session = insert[i].at.session
                      /\ rows[k].turn < insert[i].at.turn
    OBVIOUS
  <2>1. AtFits(i)
    BY <1>2 DEF AuditInv, AtOK, MovesOn
  <2>2. rows[k].session = insert[i].at.session /\ rows[k].turn < insert[i].at.turn
    BY <2>1 DEF AtFits
  <2> DEFINE j == rows[k].insert
  <2>3. /\ j \in Inserts /\ insert[j].step \in {"retrying", "settled"}
        /\ insert[j].client = insert[i].client
    BY <1>6 DEF AuditInv, RowsOK
  <2>4. j # i
    BY DEF Stored
  <2>5. j \in Handed
    BY <2>3 DEF Handed
  <2>6. Before(j, i)
    BY <1>2, <2>3, <2>4, <2>5, RunsAlone
  <2> QED
    BY <2>2, <2>6
<1>11. TurnsOrdered'
  <2> SUFFICES ASSUME NEW k \in DOMAIN rows', NEW n \in DOMAIN rows', k < n,
                      rows'[k].client = rows'[n].client
               PROVE  /\ Before(rows'[k].insert, rows'[n].insert)
                      /\ rows'[k].session = rows'[n].session
                      /\ rows'[k].turn < rows'[n].turn
    BY <1>1 DEF TurnsOrdered
  <2>1. k \in DOMAIN rows
    BY <1>4, <1>5
  <2>2. CASE n \in DOMAIN rows
    BY <2>1, <2>2, <1>5 DEF AuditInv, RowsOK, TurnsOrdered
  <2>3. CASE n = Len(rows) + 1
    BY <2>1, <2>3, <1>5, <1>8, <1>10
  <2> QED
    BY <2>2, <2>3, <1>4, <1>5
<1>12. ASSUME NEW j \in Inserts, insert'[j].step \in {"writing", "retrying"}
       PROVE  AtFits(j)'
  <2>1. CASE j = i
    BY <2>1, <1>4, <1>5, <1>8 DEF AtFits, Stored
  <2>2. CASE j # i
    <3>1. insert'[j] = insert[j] /\ j \in Running /\ j \in Handed /\ AtFits(j)
      BY <1>12, <2>2 DEF MovesOn, Running, Handed, AuditInv, AtOK
    <3>2. insert[j].client # insert[i].client
      BY <1>2, <1>12, <2>2, <3>1, RunsAlone
    <3>3. CASE Stored(j)
      BY <3>3, <1>4, <1>5 DEF AtFits, Stored
    <3>4. CASE \A k \in DOMAIN rows : rows[k].client = insert[j].client =>
                  /\ rows[k].session = insert[j].at.session
                  /\ rows[k].turn < insert[j].at.turn
      <4>1. \A k \in DOMAIN rows' : rows'[k].client = insert'[j].client =>
                  /\ rows'[k].session = insert'[j].at.session
                  /\ rows'[k].turn < insert'[j].at.turn
        <5> TAKE k \in DOMAIN rows'
        <5>1. CASE k \in DOMAIN rows
          BY <5>1, <3>1, <3>4, <1>5
        <5>2. CASE k = Len(rows) + 1
          BY <5>2, <3>1, <3>2, <1>5, <1>8
        <5> QED
          BY <5>1, <5>2, <1>4, <1>5
      <4> QED
        BY <4>1 DEF AtFits
    <3> QED
      BY <3>1, <3>3, <3>4 DEF AtFits
  <2> QED
    BY <2>1, <2>2
<1> QED
  BY <1>5, <1>9, <1>11, <1>12 DEF RowsOK, AtOK

LEMMA GreatestNumber ==
  ASSUME NEW S, NEW n \in Nat, S \subseteq 0..n, S # {}
  PROVE  Max(S) \in S /\ \A y \in S : y <= Max(S)
<1> DEFINE T == {m \in Nat : \A y \in S : y <= m}
<1>1. n \in T
  OBVIOUS
<1>2. PICK m \in T : \A j \in T : m <= j
  BY <1>1, LeastNumber
<1>3. m \in S
  <2>1. SUFFICES ASSUME m \notin S PROVE FALSE
    OBVIOUS
  <2>2. \A y \in S : y <= m - 1
    BY <1>2, <2>1
  <2>3. m - 1 \in Nat
    <3>1. PICK y \in S : TRUE
      OBVIOUS
    <3>2. y \in Nat /\ y <= m - 1 /\ m \in Nat
      BY <2>2, <1>2
    <3> QED
      BY <3>2
  <2>4. m - 1 \in T
    BY <2>2, <2>3
  <2> QED
    BY <1>2, <2>3, <2>4
<1>4. \E x \in S : \A y \in S : x >= y
  BY <1>2, <1>3
<1>5. Max(S) \in S /\ \A y \in S : Max(S) >= y
  BY <1>4 DEF Max
<1> QED
  BY <1>5

\* What is read for a client with rows: their conversation, and a number none of them has.
LEMMA ClientsOwn ==
  ASSUME AuditInv, NEW c \in Clients, RowsOf(c) # {}
  PROVE  /\ OfClient(c) \in [session : Inserts, turn : Nat]
         /\ \A k \in RowsOf(c) : /\ rows[k].session = OfClient(c).session
                                 /\ rows[k].turn < OfClient(c).turn
<1> DEFINE last == Max(RowsOf(c))
           session == rows[last].session
           own == {n \in RowsOf(c) : rows[n].session = session}
           turns == {rows[k].turn : k \in own}
<1>1. Len(rows) \in Nat /\ DOMAIN rows = 1..Len(rows) /\ RowsOf(c) \subseteq 0..Len(rows)
      /\ \A k \in DOMAIN rows : rows[k] \in RowRecords
  BY DEF AuditInv, AuditTypes, RowsOf
<1>2. last \in RowsOf(c) /\ \A k \in RowsOf(c) : k <= last
  <2> HIDE DEF last
  <2> QED
    BY <1>1, GreatestNumber DEF last
<1>3. \A k \in DOMAIN rows : rows[k].turn \in Nat /\ rows[k].session \in Inserts
  BY <1>1 DEF RowRecords
<1> HIDE DEF last
<1>4. ASSUME NEW k \in RowsOf(c)
      PROVE  rows[k].session = session /\ rows[k].turn <= rows[last].turn
  <2>1. CASE k = last
    BY <2>1, <1>2, <1>3 DEF RowsOf
  <2>2. CASE k # last
    <3>1. k < last /\ k \in DOMAIN rows /\ last \in DOMAIN rows
          /\ rows[k].client = rows[last].client
      BY <2>2, <1>1, <1>2 DEF RowsOf
    <3>2. rows[k].session = session /\ rows[k].turn < rows[last].turn
      BY <3>1 DEF AuditInv, RowsOK, TurnsOrdered
    <3> QED
      BY <3>1, <3>2, <1>3
  <2> QED
    BY <2>1, <2>2
<1>5. own = RowsOf(c)
  BY <1>4
<1>6. /\ turns # {} /\ turns \subseteq 0..rows[last].turn
  BY <1>2, <1>3, <1>4, <1>5 DEF RowsOf
<1>7. Max(turns) \in Nat /\ \A x \in turns : x <= Max(turns)
  <2>1. rows[last].turn \in Nat
    BY <1>2, <1>3 DEF RowsOf
  <2>2. Max(turns) \in turns /\ \A x \in turns : x <= Max(turns)
    <3> HIDE DEF turns
    <3> QED
      BY <1>6, <2>1, GreatestNumber
  <2> QED
    BY <1>6, <2>1, <2>2
<1>8. OfClient(c) = [session |-> session, turn |-> 1 + Max(turns)]
  BY DEF OfClient, last
<1>9. \A k \in RowsOf(c) : rows[k].turn \in turns
  BY <1>5
<1> HIDE DEF turns, own
<1>10. session \in Inserts
  BY <1>2, <1>3 DEF RowsOf
<1>11. OfClient(c).session = session /\ OfClient(c).turn = 1 + Max(turns)
       /\ OfClient(c) \in [session : Inserts, turn : Nat]
  BY <1>7, <1>8, <1>10
<1>12. \A k \in RowsOf(c) : rows[k].turn < OfClient(c).turn
  BY <1>3, <1>7, <1>9, <1>11 DEF RowsOf
<1> QED
  BY <1>4, <1>11, <1>12

\* The turn handed over is the last one, behind everything its client has handed over.
LEMMA HandOverStep ==
  ASSUME AuditInv, NEW i \in Inserts, NEW c \in Clients, HandOver(i, c)
  PROVE  AuditInv'
<1> DEFINE new == [New(i) EXCEPT !.step = "chained", !.client = c, !.after = tail[c]]
<1>1. /\ new.step = "chained" /\ new.client = c /\ new.after = tail[c] /\ new \in InsertRecords
  BY DEF New, InsertRecords, InsertSteps, AuditInv, AuditTypes
<1> HIDE DEF new
<1>2. /\ insert' \in [Inserts -> InsertRecords]
      /\ insert'[i] = new /\ \A j \in Inserts : j # i => insert'[j] = insert[j]
  BY <1>1 DEF HandOver, AuditInv, AuditTypes, new
<1>3. i \notin Handed /\ Handed' = Handed \cup {i}
  BY <1>1, <1>2 DEF HandOver, Handed
<1>4. /\ handedOver \in Seq(Inserts) /\ Len(handedOver) \in Nat
      /\ DOMAIN handedOver = 1..Len(handedOver)
      /\ handedOver' \in Seq(Inserts) /\ DOMAIN handedOver' = 1..(Len(handedOver) + 1)
      /\ handedOver'[Len(handedOver) + 1] = i
      /\ \A m \in DOMAIN handedOver : handedOver'[m] = handedOver[m] /\ handedOver[m] # i
  <2>1. \A m \in DOMAIN handedOver : handedOver[m] # i
    BY <1>3 DEF AuditInv, HandedOnce
  <2> QED
    BY <2>1 DEF HandOver, AuditInv, AuditTypes
<1>5. HandedOnce'
  <2>1. \A m, n \in DOMAIN handedOver' : handedOver'[m] = handedOver'[n] => m = n
    BY <1>4 DEF AuditInv, HandedOnce
  <2>2. ASSUME NEW j \in Inserts
        PROVE  j \in Handed' <=> \E m \in DOMAIN handedOver' : handedOver'[m] = j
    <3>1. CASE j = i
      BY <3>1, <1>3, <1>4
    <3>2. CASE j # i
      <4>1. j \in Handed' <=> \E m \in DOMAIN handedOver : handedOver[m] = j
        BY <1>3, <3>2 DEF AuditInv, HandedOnce
      <4> QED
        BY <4>1, <1>4, <3>2
    <3> QED
      BY <3>1, <3>2
  <2>3. \A j \in Handed' : insert'[j].client \in Clients
    BY <1>1, <1>2, <1>3 DEF AuditInv, HandedOnce, Handed
  <2> QED
    BY <2>1, <2>2, <2>3 DEF HandedOnce
<1>6. /\ \A x, y : Before(x, y) => Before(x, y)'
      /\ \A x : x \in Handed => Before(x, i)'
      /\ \A x, y : Before(x, y)' => y = i \/ Before(x, y)
      /\ \A y : ~Before(i, y)'
  <2>1. \A x, y : Before(x, y) => Before(x, y)'
    BY <1>4 DEF Before
  <2>2. ASSUME NEW x \in Handed PROVE Before(x, i)'
    <3>1. PICK m \in DOMAIN handedOver : handedOver[m] = x
      BY DEF AuditInv, HandedOnce, Handed
    <3> QED
      BY <3>1, <1>4 DEF Before
  <2>3. \A x, y : Before(x, y)' => y = i \/ Before(x, y)
    BY <1>4 DEF Before
  <2>4. \A y : ~Before(i, y)'
    BY <1>4 DEF Before
  <2> QED
    BY <2>1, <2>2, <2>3, <2>4
<1>7. tail \in [Clients -> Links] /\ tail' = [tail EXCEPT ![c] = i] /\ tail' \in [Clients -> Links]
  BY DEF HandOver, AuditInv, AuditTypes, Links
<1>8. i # "none"
  BY InsertsAssumption
<1>9. \A x \in Handed : \A l : Covered(x, l) => Covered(x, l)'
  BY <1>2, <1>3, <1>6 DEF Covered, Handed
<1>10. \A l, d : LinkOK(l, d) => LinkOK(l, d)'
  BY <1>2, <1>3 DEF LinkOK, Handed
<1>11. \A x \in Handed : insert'[x] = insert[x] /\ x # i
  BY <1>2, <1>3 DEF Handed
<1>12. Chained'
  <2>1. \A d \in Clients : LinkOK(tail[d], d)'
    <3> TAKE d \in Clients
    <3>1. CASE d = c
      BY <3>1, <1>1, <1>2, <1>3, <1>7 DEF LinkOK
    <3>2. CASE d # c
      BY <3>2, <1>7, <1>10 DEF AuditInv, Chained
    <3> QED
      BY <3>1, <3>2
  <2>2. \A x \in Handed' : LinkOK(insert[x].after, insert[x].client)'
    <3> TAKE x \in Handed'
    <3>1. CASE x = i
      BY <3>1, <1>1, <1>2, <1>10 DEF AuditInv, Chained
    <3>2. CASE x \in Handed
      BY <3>2, <1>10, <1>11 DEF AuditInv, Chained
    <3> QED
      BY <3>1, <3>2, <1>3
  <2>3. \A x \in Handed' : Covered(x, tail[insert[x].client])'
    <3> TAKE x \in Handed'
    <3>1. CASE x = i
      BY <3>1, <1>1, <1>2, <1>7, <1>8 DEF Covered
    <3>2. CASE x \in Handed /\ insert[x].client = c
      BY <3>2, <1>6, <1>7, <1>8, <1>11 DEF Covered
    <3>3. CASE x \in Handed /\ insert[x].client # c
      <4>1. tail'[insert'[x].client] = tail[insert[x].client]
        BY <3>3, <1>7, <1>11 DEF AuditInv, HandedOnce
      <4>2. Covered(x, tail[insert[x].client])
        BY <3>3 DEF AuditInv, Chained
      <4> QED
        BY <4>1, <4>2, <3>3, <1>9
    <3> QED
      BY <3>1, <3>2, <3>3, <1>3
  <2>4. \A x, y \in Handed' : insert'[x].client = insert'[y].client /\ Before(x, y)' => InFront(x, y)'
    <3> SUFFICES ASSUME NEW x \in Handed', NEW y \in Handed',
                        insert'[x].client = insert'[y].client, Before(x, y)'
                 PROVE  InFront(x, y)'
      OBVIOUS
    <3>1. x \in Handed
      BY <1>3, <1>6
    <3>2. CASE y = i
      <4>1. insert[x].client = c /\ insert'[y].after = tail[c] /\ insert'[y].step = "chained"
        BY <3>1, <3>2, <1>1, <1>2, <1>11
      <4>2. Covered(x, tail[c])
        BY <3>1, <4>1 DEF AuditInv, Chained
      <4> QED
        BY <3>1, <4>1, <4>2, <1>9 DEF InFront
    <3>3. CASE y \in Handed
      <4>1. y # i /\ Before(x, y) /\ insert[x].client = insert[y].client
        BY <3>1, <3>3, <1>6, <1>11
      <4>2. InFront(x, y)
        BY <3>1, <3>3, <4>1 DEF AuditInv, Chained
      <4> QED
        BY <3>1, <3>3, <4>2, <1>9, <1>11 DEF InFront
    <3> QED
      BY <3>2, <3>3, <1>3
  <2> QED
    BY <2>1, <2>2, <2>3, <2>4 DEF Chained
<1>13. rows' = rows /\ \A k \in DOMAIN rows : rows[k].insert \in Inserts
  <2>1. \A k \in DOMAIN rows : rows[k] \in RowRecords
    BY DEF AuditInv, AuditTypes
  <2> QED
    BY <2>1 DEF HandOver, RowRecords
<1>14. RowsOK'
  <2>1. \A k \in DOMAIN rows : insert'[rows[k].insert] = insert[rows[k].insert]
    BY <1>2, <1>13 DEF HandOver, AuditInv, RowsOK
  <2>2. TurnsOrdered'
    BY <1>6, <1>13 DEF AuditInv, RowsOK, TurnsOrdered
  <2> QED
    BY <2>1, <2>2, <1>13 DEF AuditInv, RowsOK
<1>15. AtOK'
  BY <1>1, <1>2, <1>13 DEF AuditInv, AtOK, AtFits, Stored
<1>16. AuditTypes'
  BY <1>2, <1>4, <1>7, <1>13 DEF AuditTypes, AuditInv
<1> QED
  BY <1>5, <1>12, <1>14, <1>15, <1>16 DEF AuditInv

LEMMA InsertStep ==
  ASSUME AuditInv, NEW i \in Inserts, InsertGoesOn(i)
  PROVE  AuditInv'
<1>0. insert \in [Inserts -> InsertRecords] /\ insert[i] \in InsertRecords
  BY DEF AuditInv, AuditTypes
<1>1. ASSUME MovesOn(i), MovesTail(i), rows' = rows,
             insert[i].step = "retrying" => insert'[i].step \in {"retrying", "settled"},
             insert'[i].step \in {"writing", "retrying"} => AtFits(i)'
      PROVE  AuditInv'
  <2>1. RowsOK' /\ AtOK'
    BY <1>1, RowsStay
  <2>2. HandedOnce' /\ Chained' /\ tail' \in [Clients -> Links]
    BY <1>1, ChainKept
  <2>3. AuditTypes'
    BY <1>1, <2>2 DEF AuditInv, AuditTypes, MovesOn
  <2> QED
    BY <2>1, <2>2, <2>3 DEF AuditInv
<1>2. ASSUME MovesOn(i), MovesTail(i), insert[i].step \in {"writing", "retrying"},
             insert'[i].step \in {"retrying", "settled"}, insert'[i].at = insert[i].at, Write(i)
      PROVE  AuditInv'
  <2>1. CASE Stored(i)
    <3>1. rows' = rows /\ AtFits(i)'
      BY <1>2, <2>1 DEF Write, AtFits, Stored
    <3> QED
      BY <1>1, <1>2, <3>1
  <2>2. CASE ~Stored(i)
    <3>1. rows' = Append(rows, NewRow(i))
      BY <1>2, <2>2 DEF Write, NewRow
    <3>2. RowsOK' /\ AtOK' /\ rows' \in Seq(RowRecords)
      BY <1>2, <2>2, <3>1, RowAdded
    <3>3. HandedOnce' /\ Chained' /\ tail' \in [Clients -> Links]
      BY <1>2, ChainKept
    <3>4. AuditTypes'
      BY <1>2, <3>2, <3>3 DEF AuditInv, AuditTypes, MovesOn
    <3> QED
      BY <3>2, <3>3, <3>4 DEF AuditInv
  <2> QED
    BY <2>1, <2>2
<1>3. ASSUME insert[i].step \in {"matching", "writing", "retrying"}, SettleInsert(i)
      PROVE  MovesOn(i) /\ MovesTail(i) /\ insert'[i].step = "settled" /\ insert'[i].at = insert[i].at
  <2>1. insert' = [insert EXCEPT ![i] = [insert[i] EXCEPT !.step = "settled"]]
    BY <1>0, <1>3 DEF SettleInsert
  <2>2. [insert[i] EXCEPT !.step = "settled"] \in InsertRecords
    BY <1>0 DEF InsertRecords, InsertSteps
  <2> QED
    BY <1>0, <1>3, <2>1, <2>2 DEF SettleInsert, MovesOn, MovesTail, Running, InsertRecords
<1>4. CASE Start(i)
  <2>1. insert' = [insert EXCEPT ![i] = [insert[i] EXCEPT !.step = "matching"]]
    BY <1>0, <1>4 DEF Start
  <2>2. [insert[i] EXCEPT !.step = "matching"] \in InsertRecords
    BY <1>0 DEF InsertRecords, InsertSteps
  <2>3. MovesOn(i) /\ MovesTail(i) /\ insert'[i].step = "matching" /\ rows' = rows
        /\ insert[i].step = "chained"
    BY <1>0, <1>4, <2>1, <2>2 DEF Start, MovesOn, MovesTail, InsertRecords
  <2> QED
    BY <1>1, <2>3
<1>5. CASE GiveUp(i)
  BY <1>1, <1>3, <1>5 DEF GiveUp
<1>6. CASE Resolve(i)
  <2>1. PICK at : /\ Match(i, at)
                  /\ at \in ByContent(i) \cup {OfClient(c) : c \in {d \in Clients : RowsOf(d) # {}}}
                  /\ insert' = [insert EXCEPT ![i].step = "writing", ![i].at = at]
    BY <1>6 DEF Resolve
  <2>2. at \in [session : Inserts, turn : Nat]
    <3>1. \A k \in DOMAIN rows : rows[k] \in RowRecords
      BY DEF AuditInv, AuditTypes
    <3>2. \A k \in DOMAIN rows : rows[k].session \in Inserts /\ rows[k].turn \in Nat
      BY <3>1 DEF RowRecords
    <3>3. CASE at \in ByContent(i)
      BY <3>2, <3>3 DEF ByContent
    <3>4. CASE at \in {OfClient(c) : c \in {d \in Clients : RowsOf(d) # {}}}
      BY <3>4, ClientsOwn
    <3> QED
      BY <2>1, <3>3, <3>4
  <2>3. insert' = [insert EXCEPT ![i] = [insert[i] EXCEPT !.step = "writing", !.at = at]]
    BY <1>0, <2>1
  <2>4. [insert[i] EXCEPT !.step = "writing", !.at = at] \in InsertRecords
    BY <1>0, <2>2 DEF InsertRecords, InsertSteps
  <2>5. /\ insert[i].step = "matching" /\ insert'[i].step = "writing" /\ insert'[i].at = at
        /\ insert'[i].client = insert[i].client /\ rows' = rows
        /\ MovesOn(i) /\ MovesTail(i)
    BY <1>0, <1>6, <2>3, <2>4 DEF Resolve, MovesOn, MovesTail, Running, InsertRecords
  <2>6. insert[i].client \in Clients
    BY <2>5 DEF AuditInv, HandedOnce, Handed
  <2>7. AtFits(i)'
    <3>1. CASE RowsOf(insert[i].client) = {}
      BY <2>5, <3>1 DEF AtFits, RowsOf
    <3>2. CASE RowsOf(insert[i].client) # {}
      <4>1. at = OfClient(insert[i].client)
        BY <2>1, <3>2 DEF Match
      <4>2. \A k \in RowsOf(insert[i].client) : rows[k].session = at.session /\ rows[k].turn < at.turn
        BY <2>6, <3>2, <4>1, ClientsOwn
      <4>3. \A k \in DOMAIN rows : rows[k].client = insert[i].client =>
              rows[k].session = at.session /\ rows[k].turn < at.turn
        BY <4>2 DEF RowsOf
      <4> QED
        BY <2>5, <4>3 DEF AtFits
    <3> QED
      BY <3>1, <3>2
  <2> QED
    BY <1>1, <2>5, <2>7
<1>7. CASE WriteEnds(i)
  <2>1. CASE insert[i].step \in {"writing", "retrying"} /\ Write(i) /\ SettleInsert(i)
    BY <1>2, <1>3, <2>1
  <2>2. CASE insert[i].step = "retrying" /\ SettleInsert(i) /\ UNCHANGED rows
    BY <1>1, <1>3, <2>2
  <2> QED
    BY <1>7, <2>1, <2>2 DEF WriteEnds
<1>8. CASE WriteFails(i)
  <2>1. insert' = [insert EXCEPT ![i] = [insert[i] EXCEPT !.step = "retrying"]]
    BY <1>0, <1>8 DEF WriteFails
  <2>2. [insert[i] EXCEPT !.step = "retrying"] \in InsertRecords
    BY <1>0 DEF InsertRecords, InsertSteps
  <2>3. /\ insert[i].step = "writing" /\ insert'[i].step = "retrying"
        /\ insert'[i].at = insert[i].at /\ insert'[i].client = insert[i].client
        /\ MovesOn(i) /\ MovesTail(i)
    BY <1>0, <1>8, <2>1, <2>2 DEF WriteFails, MovesOn, MovesTail, Running, InsertRecords
  <2>4. CASE Write(i)
    BY <1>2, <2>3, <2>4
  <2>5. CASE UNCHANGED rows
    <3>1. AtFits(i)'
      BY <2>3, <2>5 DEF AuditInv, AtOK, AtFits, Stored
    <3> QED
      BY <1>1, <2>3, <2>5, <3>1
  <2> QED
    BY <1>8, <2>4, <2>5 DEF WriteFails
<1> QED
  BY <1>4, <1>5, <1>6, <1>7, <1>8 DEF InsertGoesOn

\* The chain, the rows and what is read of them fit together at all times.
THEOREM AuditInvariant == AuditSpec => []AuditInv
<1>1. AuditInv /\ [AuditNext]_auditVars => AuditInv'
  <2> SUFFICES ASSUME AuditInv, [AuditNext]_auditVars PROVE AuditInv'
    OBVIOUS
  <2>1. CASE AuditNext
    BY <2>1, HandOverStep, InsertStep DEF AuditNext
  <2>2. CASE UNCHANGED auditVars
    BY <2>2 DEF auditVars, AuditInv, AuditTypes, HandedOnce, Chained, RowsOK, AtOK, AtFits,
                Handed, LinkOK, Covered, InFront, Before, Stored, TurnsOrdered
  <2> QED
    BY <2>1, <2>2
<1> QED
  BY <1>1, AuditInitInv, PTL DEF AuditSpec

\* The turns of one client session land in one conversation, in the order in which their
\* requests finished and with growing numbers, for any number of turns and clients, and even if
\* writes are reported as failed that were not.
THEOREM TurnsStayOrdered == AuditSpec => []TurnsOrdered
<1>1. AuditInv => TurnsOrdered
  BY DEF AuditInv, RowsOK
<1> QED
  BY <1>1, AuditInvariant, PTL

-----------------------------------------------------------------------------
(* The request log.  The write a worker waits for and the queue behind it are  *)
(* one line; the writes of a log stand in it in their order, all of them still   *)
(* ahead of the row, and a write that has left the line is done.              *)

LogTypes ==
    /\ writeQueue \in Seq(Writes)
    /\ isFlushing \in BOOLEAN /\ workers \subseteq [task : Writes, again : BOOLEAN]
    /\ issued \in [Logs -> Numbers] /\ row \in [Logs -> Numbers]
    /\ dropped \in [Logs -> SUBSET (0..MaxPatches)]
    /\ drains \subseteq [Logs -> Numbers]

OneWorker ==
    /\ \A v, w \in workers : v = w
    /\ workers # {} => isFlushing
    /\ workers = {} => ~isFlushing /\ writeQueue = <<>>

InFlight(l, n) == \E w \in workers : w.task.log = l /\ w.task.write = n
InLine(l, n) == \E k \in DOMAIN writeQueue : writeQueue[k].log = l /\ writeQueue[k].write = n

LineOrdered ==
    /\ \A j, k \in DOMAIN writeQueue :
          j < k /\ writeQueue[j].log = writeQueue[k].log => writeQueue[j].write < writeQueue[k].write
    /\ \A l \in Logs, m, n \in Numbers : InFlight(l, m) /\ InLine(l, n) => m < n

AheadOfRow ==
    \A l \in Logs :
       /\ row[l] <= issued[l]
       /\ \A n \in Numbers : InFlight(l, n) => row[l] <= n /\ n <= issued[l]
       /\ \A n \in Numbers : InLine(l, n) => row[l] < n /\ n <= issued[l]

Done(l, n) == n \in dropped[l] \/ n <= row[l] \/ 0 \in dropped[l]

NothingForgotten ==
    /\ \A l \in Logs : \A n \in 0..issued[l] : Done(l, n) \/ InFlight(l, n) \/ InLine(l, n)
    /\ \A d \in drains : \A l \in Logs : d[l] <= issued[l]

LogInv == LogTypes /\ OneWorker /\ LineOrdered /\ AheadOfRow /\ NothingForgotten

LEMMA LogInitInv == LogInit => LogInv
<1> SUFFICES ASSUME LogInit PROVE LogInv
  OBVIOUS
<1>1. /\ writeQueue = <<>> /\ DOMAIN writeQueue = {} /\ workers = {} /\ drains = {}
      /\ isFlushing = FALSE
      /\ -1 \in Numbers /\ \A l \in Logs : row[l] = -1 /\ issued[l] = -1
  BY MaxPatchesAssumption DEF LogInit, Numbers
<1>2. LogTypes
  <2>1. issued \in [Logs -> Numbers] /\ row \in [Logs -> Numbers]
    BY <1>1 DEF LogInit
  <2>2. dropped \in [Logs -> SUBSET (0..MaxPatches)]
    BY DEF LogInit
  <2>3. writeQueue \in Seq(Writes)
    BY <1>1
  <2> QED
    BY <1>1, <2>1, <2>2, <2>3 DEF LogTypes
<1>3. OneWorker
  BY <1>1 DEF OneWorker
<1>4. \A l, n : ~InFlight(l, n) /\ ~InLine(l, n)
  BY <1>1 DEF InFlight, InLine
<1>5. LineOrdered
  BY <1>1, <1>4 DEF LineOrdered
<1>6. AheadOfRow
  BY <1>1, <1>4 DEF AheadOfRow
<1>7. NothingForgotten
  BY <1>1 DEF NothingForgotten
<1> QED
  BY <1>2, <1>3, <1>5, <1>6, <1>7 DEF LogInv

LEMMA LineFields ==
  ASSUME LogInv
  PROVE  /\ Len(writeQueue) \in Nat /\ DOMAIN writeQueue = 1..Len(writeQueue)
         /\ \A k \in DOMAIN writeQueue :
               /\ writeQueue[k] \in Writes /\ writeQueue[k].log \in Logs
               /\ writeQueue[k].write \in 0..MaxPatches /\ writeQueue[k].write \in Numbers
         /\ \A w \in workers : /\ w.task \in Writes /\ w.task.log \in Logs
                               /\ w.task.write \in 0..MaxPatches /\ w.task.write \in Numbers
         /\ \A l \in Logs : issued[l] \in Int /\ row[l] \in Int
         /\ \A n \in Numbers : n \in Int
<1>1. \A n \in Numbers : n \in Int
  BY MaxPatchesAssumption DEF Numbers
<1>2. 0..MaxPatches \subseteq Numbers
  BY MaxPatchesAssumption DEF Numbers
<1>3. \A t \in Writes : t.log \in Logs /\ t.write \in 0..MaxPatches /\ t.write \in Numbers
  BY <1>2 DEF Writes
<1>4. /\ writeQueue \in Seq(Writes) /\ workers \subseteq [task : Writes, again : BOOLEAN]
      /\ issued \in [Logs -> Numbers] /\ row \in [Logs -> Numbers]
  BY DEF LogInv, LogTypes
<1>5. /\ Len(writeQueue) \in Nat /\ DOMAIN writeQueue = 1..Len(writeQueue)
      /\ \A k \in DOMAIN writeQueue : writeQueue[k] \in Writes
  BY <1>4
<1>6. \A w \in workers : w.task \in Writes
  BY <1>4
<1>7. \A l \in Logs : issued[l] \in Int /\ row[l] \in Int
  BY <1>1, <1>4
<1> QED
  BY <1>1, <1>3, <1>5, <1>6, <1>7

\* A worker that goes on takes the first write of the line, or ends with it.
LEMMA LineGoesOn ==
  ASSUME LogInv, NEW w \in workers, GoOn(w)
  PROVE  /\ OneWorker' /\ LineOrdered'
         /\ writeQueue' \in Seq(Writes) /\ isFlushing' \in BOOLEAN
         /\ workers' \subseteq [task : Writes, again : BOOLEAN]
         /\ \A l, n : InFlight(l, n)' => InLine(l, n)
         /\ \A l, n : InLine(l, n)' => InLine(l, n)
         /\ \A l, n : InLine(l, n) => InFlight(l, n)' \/ InLine(l, n)'
<1>1. workers = {w} /\ isFlushing /\ writeQueue \in Seq(Writes)
  BY DEF LogInv, LogTypes, OneWorker
<1>2. CASE writeQueue = <<>>
  <2>1. workers' = {} /\ isFlushing' = FALSE /\ writeQueue' = <<>>
    BY <1>1, <1>2 DEF GoOn
  <2>2. DOMAIN writeQueue = {} /\ DOMAIN writeQueue' = {}
    BY <1>2, <2>1
  <2>3. \A l, n : ~InFlight(l, n)' /\ ~InLine(l, n)' /\ ~InLine(l, n)
    BY <2>1, <2>2 DEF InFlight, InLine
  <2>4. LineOrdered'
    BY <2>2, <2>3 DEF LineOrdered
  <2>5. OneWorker'
    BY <2>1 DEF OneWorker
  <2>6. writeQueue' \in Seq(Writes) /\ isFlushing' \in BOOLEAN
        /\ workers' \subseteq [task : Writes, again : BOOLEAN]
    <3>1. writeQueue' = writeQueue
      BY <1>2, <2>1
    <3> QED
      BY <1>1, <2>1, <3>1
  <2> QED
    BY <2>3, <2>4, <2>5, <2>6
<1>3. CASE writeQueue # <<>>
  <2> DEFINE h == Head(writeQueue)
             v == Waiting(h, FALSE)
  <2>1. workers' = {v} /\ isFlushing' /\ writeQueue' = Tail(writeQueue)
    BY <1>1, <1>3 DEF GoOn
  <2>2. /\ Len(writeQueue) \in Nat \ {0} /\ h = writeQueue[1] /\ h \in Writes
        /\ DOMAIN writeQueue = 1..Len(writeQueue)
        /\ writeQueue' \in Seq(Writes) /\ DOMAIN writeQueue' = 1..(Len(writeQueue) - 1)
        /\ \A k \in DOMAIN writeQueue' : writeQueue'[k] = writeQueue[k + 1]
    BY <1>1, <1>3, <2>1
  <2>3. v.task = h /\ v \in [task : Writes, again : BOOLEAN]
    BY <2>2 DEF Waiting
  <2> HIDE DEF h, v
  <2>4. OneWorker'
    BY <2>1 DEF OneWorker
  <2>5. \A l, n : InFlight(l, n)' <=> h.log = l /\ h.write = n
    BY <2>1, <2>3 DEF InFlight
  <2>6. \A l, n : InLine(l, n)' =>
           \E k \in DOMAIN writeQueue : k > 1 /\ writeQueue[k].log = l /\ writeQueue[k].write = n
    <3> SUFFICES ASSUME NEW l, NEW n, InLine(l, n)'
                 PROVE  \E k \in DOMAIN writeQueue :
                          k > 1 /\ writeQueue[k].log = l /\ writeQueue[k].write = n
      OBVIOUS
    <3>1. PICK k \in DOMAIN writeQueue' : writeQueue'[k].log = l /\ writeQueue'[k].write = n
      BY DEF InLine
    <3>2. k + 1 \in DOMAIN writeQueue /\ k + 1 > 1 /\ writeQueue'[k] = writeQueue[k + 1]
      BY <2>2
    <3> QED
      BY <3>1, <3>2
  <2>7. \A l, n : InLine(l, n) => InFlight(l, n)' \/ InLine(l, n)'
    <3> SUFFICES ASSUME NEW l, NEW n, InLine(l, n)
                 PROVE  InFlight(l, n)' \/ InLine(l, n)'
      OBVIOUS
    <3>1. PICK k \in DOMAIN writeQueue : writeQueue[k].log = l /\ writeQueue[k].write = n
      BY DEF InLine
    <3>2. CASE k = 1
      BY <3>1, <3>2, <2>2, <2>5
    <3>3. CASE k # 1
      <4>1. k - 1 \in DOMAIN writeQueue' /\ writeQueue'[k - 1] = writeQueue[k]
        BY <3>3, <2>2
      <4> QED
        BY <3>1, <4>1 DEF InLine
    <3> QED
      BY <3>2, <3>3
  <2>8. LineOrdered'
    <3>1. ASSUME NEW j \in DOMAIN writeQueue', NEW k \in DOMAIN writeQueue', j < k,
                 writeQueue'[j].log = writeQueue'[k].log
          PROVE  writeQueue'[j].write < writeQueue'[k].write
      <4>1. /\ j + 1 \in DOMAIN writeQueue /\ k + 1 \in DOMAIN writeQueue /\ j + 1 < k + 1
            /\ writeQueue'[j] = writeQueue[j + 1] /\ writeQueue'[k] = writeQueue[k + 1]
        BY <3>1, <2>2
      <4> QED
        BY <3>1, <4>1 DEF LogInv, LineOrdered
    <3>2. ASSUME NEW l \in Logs, NEW m \in Numbers, NEW n \in Numbers,
                 InFlight(l, m)', InLine(l, n)'
          PROVE  m < n
      <4>1. PICK k \in DOMAIN writeQueue : k > 1 /\ writeQueue[k].log = l /\ writeQueue[k].write = n
        BY <3>2, <2>6
      <4>2. writeQueue[1].log = l /\ writeQueue[1].write = m /\ 1 \in DOMAIN writeQueue
        BY <3>2, <2>2, <2>5
      <4> QED
        BY <4>1, <4>2 DEF LogInv, LineOrdered
    <3> QED
      BY <3>1, <3>2 DEF LineOrdered
  <2>9. \A l, n : InFlight(l, n)' => InLine(l, n)
    BY <2>2, <2>5 DEF InLine
  <2>10. \A l, n : InLine(l, n)' => InLine(l, n)
    BY <2>6 DEF InLine
  <2> QED
    BY <2>1, <2>2, <2>3, <2>4, <2>7, <2>8, <2>9, <2>10
<1> QED
  BY <1>2, <1>3

\* A write that reaches the database takes the row forward, or finds that its row was never made.
LEMMA AppliedForward ==
  ASSUME LogInv, NEW w \in workers, Applied(w.task) \/ row' = row
  PROVE  /\ row' \in [Logs -> Numbers]
         /\ \A l \in Logs : row'[l] >= row[l]
         /\ \A l \in Logs : \A n \in Numbers : InLine(l, n) => row'[l] < n
         /\ row'[w.task.log] <= w.task.write
         /\ \A l \in Logs : row'[l] <= issued[l]
         /\ Applied(w.task) =>
               w.task.write <= row'[w.task.log] \/ 0 \in dropped[w.task.log]
<1> DEFINE line0 == w.task.log
           n0 == w.task.write
<1>1. /\ line0 \in Logs /\ n0 \in 0..MaxPatches /\ n0 \in Numbers /\ n0 \in Int
      /\ row \in [Logs -> Numbers]
      /\ \A l \in Logs : row[l] \in Int /\ issued[l] \in Int
      /\ \A n \in Numbers : n \in Int
  BY LineFields DEF LogInv, LogTypes
<1>2. InFlight(line0, n0)
  BY DEF InFlight
<1>3. row[line0] <= n0 /\ n0 <= issued[line0] /\ \A l \in Logs : row[l] <= issued[l]
  BY <1>1, <1>2 DEF LogInv, AheadOfRow
<1>4. \A n \in Numbers : InLine(line0, n) => n0 < n
  BY <1>1, <1>2 DEF LogInv, LineOrdered
<1>5. \A l \in Logs : \A n \in Numbers : InLine(l, n) => row[l] < n
  BY DEF LogInv, AheadOfRow
<1>6. /\ row' \in [Logs -> Numbers]
      /\ \A l \in Logs : l # line0 => row'[l] = row[l]
      /\ row'[line0] = row[line0] \/ row'[line0] = n0
  BY <1>1 DEF Applied
<1>7. Applied(w.task) => n0 <= row'[line0] \/ 0 \in dropped[line0]
  <2> SUFFICES ASSUME Applied(w.task), row'[line0] # n0
               PROVE  0 \in dropped[line0]
    BY <1>1, <1>6
  <2>1. row[line0] = -1 /\ n0 # 0
    <3>1. ~((row[line0] = -1) = (n0 = 0))
      BY <1>1 DEF Applied
    <3>2. CASE row[line0] = -1
      BY <3>1, <3>2
    <3>3. CASE row[line0] # -1 /\ n0 = 0
      <4>1. row[line0] = 0
        BY <3>3, <1>1, <1>3, MaxPatchesAssumption DEF Numbers
      <4>2. row'[line0] = 0
        BY <3>3, <4>1, <1>6
      <4> QED
        BY <4>2, <3>3
    <3> QED
      BY <3>1, <3>2, <3>3
  <2>2. 0 \in 0..issued[line0] /\ 0 \in Numbers
    BY <1>1, <1>3, MaxPatchesAssumption DEF Numbers
  <2>3. Done(line0, 0) \/ InFlight(line0, 0) \/ InLine(line0, 0)
    BY <1>1, <2>2 DEF LogInv, NothingForgotten
  <2>4. ~InFlight(line0, 0)
    BY <2>1 DEF InFlight, LogInv, OneWorker
  <2>5. ~InLine(line0, 0)
    BY <1>1, <1>4, <2>2
  <2> QED
    BY <2>1, <2>3, <2>4, <2>5 DEF Done
<1> HIDE DEF line0, n0
<1>8. \A l \in Logs : row'[l] >= row[l] /\ row'[l] <= issued[l]
  <2> TAKE l \in Logs
  <2> QED
    BY <1>1, <1>3, <1>6
<1>9. \A l \in Logs : \A n \in Numbers : InLine(l, n) => row'[l] < n
  <2> TAKE l \in Logs
  <2>1. CASE l = line0
    BY <2>1, <1>1, <1>4, <1>5, <1>6
  <2>2. CASE l # line0
    BY <2>2, <1>5, <1>6
  <2> QED
    BY <2>1, <2>2
<1>10. row'[line0] <= n0
  BY <1>1, <1>3, <1>6
<1> QED
  BY <1>6, <1>7, <1>8, <1>9, <1>10 DEF line0, n0

\* A write that has succeeded, or failed twice, leaves the line.
LEMMA WriteLeaves ==
  ASSUME LogInv, NEW w \in workers, GoOn(w),
         Applied(w.task) \/ row' = row,
         dropped' \in [Logs -> SUBSET (0..MaxPatches)],
         \A l \in Logs : dropped[l] \subseteq dropped'[l],
         Applied(w.task) \/ w.task.write \in dropped'[w.task.log],
         UNCHANGED <<issued, drains>>
  PROVE  LogInv'
<1> DEFINE line0 == w.task.log
           n0 == w.task.write
<1>1. /\ line0 \in Logs
      /\ \A n \in Numbers : n \in Int
      /\ \A l \in Logs : row[l] \in Int /\ issued[l] \in Int
  BY LineFields
<1>2. LogTypes'
  BY LineGoesOn, AppliedForward DEF LogInv, LogTypes
<1>3. OneWorker' /\ LineOrdered'
  BY LineGoesOn
<1>4. /\ \A l, n : InFlight(l, n)' => InLine(l, n)
      /\ \A l, n : InLine(l, n)' => InLine(l, n)
      /\ \A l, n : InLine(l, n) => InFlight(l, n)' \/ InLine(l, n)'
  BY LineGoesOn
<1>5. /\ row' \in [Logs -> Numbers]
      /\ \A l \in Logs : row'[l] >= row[l]
      /\ \A l \in Logs : \A n \in Numbers : InLine(l, n) => row'[l] < n
      /\ \A l \in Logs : row'[l] <= issued[l]
      /\ Applied(w.task) => n0 <= row'[line0] \/ 0 \in dropped[line0]
  BY AppliedForward
<1>6. \A l \in Logs : row'[l] \in Int
  BY <1>1, <1>5
<1>7. AheadOfRow'
  <2> SUFFICES ASSUME NEW l \in Logs
               PROVE  /\ row'[l] <= issued'[l]
                      /\ \A n \in Numbers : InFlight(l, n)' => row'[l] <= n /\ n <= issued'[l]
                      /\ \A n \in Numbers : InLine(l, n)' => row'[l] < n /\ n <= issued'[l]
    BY DEF AheadOfRow
  <2>1. \A n \in Numbers : InLine(l, n) => row'[l] < n /\ n <= issued'[l]
    BY <1>5 DEF LogInv, AheadOfRow
  <2> QED
    BY <1>1, <1>4, <1>5, <1>6, <2>1
<1>8. NothingForgotten'
  <2>1. ASSUME NEW l \in Logs, NEW n \in 0..issued'[l]
        PROVE  Done(l, n)' \/ InFlight(l, n)' \/ InLine(l, n)'
    <3>1. Done(l, n) \/ InFlight(l, n) \/ InLine(l, n)
      BY DEF LogInv, NothingForgotten
    <3>2. n \in Int
      BY <1>1
    <3>3. CASE Done(l, n)
      BY <3>2, <3>3, <1>1, <1>5, <1>6 DEF Done
    <3>4. CASE InLine(l, n)
      BY <3>4, <1>4
    <3>5. CASE InFlight(l, n)
      <4>1. l = line0 /\ n = n0
        BY <3>5 DEF InFlight, LogInv, OneWorker
      <4> QED
        BY <4>1, <1>1, <1>5 DEF Done
    <3> QED
      BY <3>1, <3>3, <3>4, <3>5
  <2>2. \A d \in drains' : \A l \in Logs : d[l] <= issued'[l]
    BY DEF LogInv, NothingForgotten
  <2> QED
    BY <2>1, <2>2 DEF NothingForgotten
<1> QED
  BY <1>2, <1>3, <1>7, <1>8 DEF LogInv

\* A write that is tried again keeps its place.
LEMMA WriteStays ==
  ASSUME LogInv, NEW w \in workers,
         Applied(w.task) \/ row' = row,
         workers' = (workers \ {w}) \cup {Waiting(w.task, TRUE)},
         UNCHANGED <<writeQueue, isFlushing, dropped, issued, drains>>
  PROVE  LogInv'
<1> DEFINE v == Waiting(w.task, TRUE)
<1>1. /\ w.task \in Writes /\ w.task.log \in Logs /\ w.task.write \in Numbers
      /\ \A n \in Numbers : n \in Int
      /\ \A l \in Logs : row[l] \in Int /\ issued[l] \in Int
  BY LineFields
<1>2. v.task = w.task /\ v \in [task : Writes, again : BOOLEAN]
  BY <1>1 DEF Waiting
<1> HIDE DEF v
<1>3. workers = {w} /\ workers' = {v} /\ isFlushing
  BY DEF LogInv, OneWorker, v
<1>4. \A l, n : (InFlight(l, n)' <=> InFlight(l, n)) /\ (InLine(l, n)' <=> InLine(l, n))
  BY <1>2, <1>3 DEF InFlight, InLine
<1>5. /\ row' \in [Logs -> Numbers]
      /\ \A l \in Logs : row'[l] >= row[l]
      /\ \A l \in Logs : \A n \in Numbers : InLine(l, n) => row'[l] < n
      /\ row'[w.task.log] <= w.task.write
      /\ \A l \in Logs : row'[l] <= issued[l]
  BY AppliedForward
<1>6. \A l \in Logs : row'[l] \in Int
  BY <1>1, <1>5
<1>7. LogTypes'
  BY <1>2, <1>3, <1>5 DEF LogInv, LogTypes
<1>8. OneWorker'
  BY <1>3 DEF OneWorker
<1>9. LineOrdered'
  BY <1>4 DEF LogInv, LineOrdered
<1>10. AheadOfRow'
  <2> SUFFICES ASSUME NEW l \in Logs
               PROVE  /\ row'[l] <= issued'[l]
                      /\ \A n \in Numbers : InFlight(l, n)' => row'[l] <= n /\ n <= issued'[l]
                      /\ \A n \in Numbers : InLine(l, n)' => row'[l] < n /\ n <= issued'[l]
    BY DEF AheadOfRow
  <2>1. ASSUME NEW n \in Numbers, InFlight(l, n)
        PROVE  row'[l] <= n /\ n <= issued'[l]
    <3>1. l = w.task.log /\ n = w.task.write
      BY <1>3, <2>1 DEF InFlight
    <3>2. n <= issued[l]
      BY <2>1 DEF LogInv, AheadOfRow
    <3> QED
      BY <3>1, <3>2, <1>5
  <2>2. \A n \in Numbers : InLine(l, n) => row'[l] < n /\ n <= issued'[l]
    BY <1>5 DEF LogInv, AheadOfRow
  <2> QED
    BY <1>4, <1>5, <2>1, <2>2
<1>11. NothingForgotten'
  <2>1. ASSUME NEW l \in Logs, NEW n \in 0..issued'[l]
        PROVE  Done(l, n)' \/ InFlight(l, n)' \/ InLine(l, n)'
    <3>1. Done(l, n) \/ InFlight(l, n) \/ InLine(l, n)
      BY DEF LogInv, NothingForgotten
    <3>2. Done(l, n) => Done(l, n)'
      BY <1>1, <1>5, <1>6 DEF Done
    <3> QED
      BY <3>1, <3>2, <1>4
  <2> QED
    BY <2>1 DEF NothingForgotten, LogInv
<1> QED
  BY <1>7, <1>8, <1>9, <1>10, <1>11 DEF LogInv

\* A write issued stands at the end of the line.
LEMMA IssueStep ==
  ASSUME LogInv, NEW line0 \in Logs, Issue(line0)
  PROVE  LogInv'
<1> DEFINE n0 == issued[line0] + 1
           t == [log |-> line0, write |-> n0]
           v == Waiting(t, FALSE)
<1>1. /\ \A n \in Numbers : n \in Int
      /\ \A l \in Logs : row[l] \in Int /\ issued[l] \in Int
      /\ Len(writeQueue) \in Nat /\ DOMAIN writeQueue = 1..Len(writeQueue)
      /\ \A k \in DOMAIN writeQueue : writeQueue[k] \in Writes /\ writeQueue[k].write \in Numbers
      /\ issued \in [Logs -> Numbers] /\ writeQueue \in Seq(Writes)
  BY LineFields DEF LogInv, LogTypes
<1>2. n0 \in 0..MaxPatches /\ n0 \in Numbers
  <2>1. issued[line0] \in Numbers /\ issued[line0] < MaxPatches
    BY <1>1 DEF Issue
  <2> QED
    BY <2>1, MaxPatchesAssumption DEF Numbers
<1>3. t \in Writes /\ t.log = line0 /\ t.write = n0
  BY <1>2 DEF Writes
<1>4. v.task = t /\ v \in [task : Writes, again : BOOLEAN]
  BY <1>3 DEF Waiting
<1>5. /\ issued' \in [Logs -> Numbers] /\ issued'[line0] = n0
      /\ \A l \in Logs : l # line0 => issued'[l] = issued[l]
      /\ Enqueue(t) /\ UNCHANGED <<row, dropped, drains>>
  <2>1. issued' = [issued EXCEPT ![line0] = n0] /\ Enqueue(t)
        /\ UNCHANGED <<row, dropped, drains>>
    BY DEF Issue
  <2> HIDE DEF n0, t
  <2> QED
    BY <1>1, <1>2, <2>1
<1> HIDE DEF n0, t, v
<1>6. \A n \in Numbers : InFlight(line0, n) \/ InLine(line0, n) => n < n0
  BY <1>1 DEF LogInv, AheadOfRow, n0
<1>7. \A l \in Logs : issued[l] <= issued'[l] /\ issued'[l] \in Int
  <2> TAKE l \in Logs
  <2>1. CASE l = line0
    BY <2>1, <1>1, <1>5 DEF n0
  <2>2. CASE l # line0
    BY <2>2, <1>1, <1>5
  <2> QED
    BY <2>1, <2>2
<1>8. ASSUME LogTypes', OneWorker', LineOrdered',
             \A l, n : InFlight(l, n)' => InFlight(l, n) \/ (l = line0 /\ n = n0),
             \A l, n : InLine(l, n)' => InLine(l, n) \/ (l = line0 /\ n = n0),
             \A l, n : InFlight(l, n) \/ InLine(l, n) => InFlight(l, n)' \/ InLine(l, n)',
             \A n : n = n0 => InFlight(line0, n)' \/ InLine(line0, n)'
      PROVE  LogInv'
  <2>1. row[line0] < n0
    BY <1>1 DEF LogInv, AheadOfRow, n0
  <2>2. AheadOfRow'
    <3> SUFFICES ASSUME NEW l \in Logs
                 PROVE  /\ row[l] <= issued'[l]
                        /\ \A n \in Numbers : InFlight(l, n)' => row[l] <= n /\ n <= issued'[l]
                        /\ \A n \in Numbers : InLine(l, n)' => row[l] < n /\ n <= issued'[l]
      BY <1>5 DEF AheadOfRow
    <3>1. /\ row[l] <= issued[l]
          /\ \A n \in Numbers : InFlight(l, n) => row[l] <= n /\ n <= issued[l]
          /\ \A n \in Numbers : InLine(l, n) => row[l] < n /\ n <= issued[l]
      BY DEF LogInv, AheadOfRow
    <3>2. issued[l] \in Int /\ issued'[l] \in Int /\ issued[l] <= issued'[l] /\ row[l] \in Int
      BY <1>1, <1>7
    <3>3. \A n \in Numbers : InFlight(l, n)' => row[l] <= n /\ n <= issued'[l]
      BY <1>1, <1>2, <1>5, <1>8, <2>1, <3>1, <3>2
    <3>4. \A n \in Numbers : InLine(l, n)' => row[l] < n /\ n <= issued'[l]
      BY <1>1, <1>2, <1>5, <1>8, <2>1, <3>1, <3>2
    <3> QED
      BY <3>1, <3>2, <3>3, <3>4
  <2>3. ASSUME NEW l \in Logs, NEW n \in 0..issued'[l]
        PROVE  Done(l, n)' \/ InFlight(l, n)' \/ InLine(l, n)'
    <3>1. CASE n \in 0..issued[l]
      <4>1. Done(l, n) \/ InFlight(l, n) \/ InLine(l, n)
        BY <3>1 DEF LogInv, NothingForgotten
      <4>2. Done(l, n) => Done(l, n)'
        BY <1>5 DEF Done
      <4> QED
        BY <4>1, <4>2, <1>8
    <3>2. CASE ~(n \in 0..issued[l])
      <4>1. l = line0 /\ n = n0
        <5>1. l = line0
          BY <3>2, <1>5
        <5> QED
          BY <5>1, <3>2, <1>1, <1>2, <1>5 DEF n0
      <4> QED
        BY <4>1, <1>8
    <3> QED
      BY <3>1, <3>2
  <2>4. \A d \in drains' : \A l \in Logs : d[l] <= issued'[l]
    <3> SUFFICES ASSUME NEW d \in drains, NEW l \in Logs PROVE d[l] <= issued'[l]
      BY <1>5
    <3>1. d[l] <= issued[l] /\ d[l] \in Int
      BY <1>1 DEF LogInv, LogTypes, NothingForgotten
    <3> QED
      BY <3>1, <1>1, <1>7
  <2>5. NothingForgotten'
    BY <2>3, <2>4 DEF NothingForgotten
  <2> QED
    BY <1>8, <2>2, <2>5 DEF LogInv
<1>9. CASE isFlushing
  <2>1. writeQueue' = Append(writeQueue, t) /\ UNCHANGED <<isFlushing, workers>>
    BY <1>5, <1>9 DEF Enqueue
  <2>2. /\ writeQueue' \in Seq(Writes) /\ DOMAIN writeQueue' = 1..(Len(writeQueue) + 1)
        /\ writeQueue'[Len(writeQueue) + 1] = t
        /\ \A k \in DOMAIN writeQueue : writeQueue'[k] = writeQueue[k]
    BY <1>1, <1>3, <2>1
  <2>3. LogTypes'
    BY <1>5, <2>1, <2>2 DEF LogInv, LogTypes
  <2>4. OneWorker'
    <3>1. workers # {}
      BY <1>9 DEF LogInv, OneWorker
    <3> QED
      BY <2>1, <3>1 DEF LogInv, OneWorker
  <2>5. \A l, n : InFlight(l, n)' <=> InFlight(l, n)
    BY <2>1 DEF InFlight
  <2>6. \A l, n : InLine(l, n)' <=> InLine(l, n) \/ (l = line0 /\ n = n0)
    <3> TAKE l, n
    <3>1. InLine(l, n) => InLine(l, n)'
      BY <1>1, <2>2 DEF InLine
    <3>2. l = line0 /\ n = n0 => InLine(l, n)'
      BY <1>1, <1>3, <2>2 DEF InLine
    <3>3. ASSUME InLine(l, n)'
          PROVE  InLine(l, n) \/ (l = line0 /\ n = n0)
      <4>1. PICK k \in DOMAIN writeQueue' : writeQueue'[k].log = l /\ writeQueue'[k].write = n
        BY <3>3 DEF InLine
      <4>2. CASE k \in DOMAIN writeQueue
        BY <4>1, <4>2, <2>2 DEF InLine
      <4>3. CASE k = Len(writeQueue) + 1
        BY <4>1, <4>3, <2>2, <1>3
      <4> QED
        BY <4>2, <4>3, <1>1, <2>2
    <3> QED
      BY <3>1, <3>2, <3>3
  <2>7. LineOrdered'
    <3>1. ASSUME NEW j \in DOMAIN writeQueue', NEW k \in DOMAIN writeQueue', j < k,
                 writeQueue'[j].log = writeQueue'[k].log
          PROVE  writeQueue'[j].write < writeQueue'[k].write
      <4>1. j \in DOMAIN writeQueue /\ writeQueue'[j] = writeQueue[j]
        BY <3>1, <1>1, <2>2
      <4>2. CASE k \in DOMAIN writeQueue
        BY <3>1, <4>1, <4>2, <2>2 DEF LogInv, LineOrdered
      <4>3. CASE k = Len(writeQueue) + 1
        <5>1. InLine(line0, writeQueue[j].write)
          BY <3>1, <4>1, <4>3, <2>2, <1>3 DEF InLine
        <5>2. writeQueue[j].write < n0
          BY <5>1, <4>1, <1>1, <1>6
        <5> QED
          BY <5>2, <4>1, <4>3, <2>2, <1>3
      <4> QED
        BY <4>2, <4>3, <1>1, <2>2
    <3>2. ASSUME NEW l \in Logs, NEW m \in Numbers, NEW n \in Numbers, InFlight(l, m)', InLine(l, n)'
          PROVE  m < n
      <4>1. InFlight(l, m) /\ (InLine(l, n) \/ (l = line0 /\ n = n0))
        BY <3>2, <2>5, <2>6
      <4> QED
        BY <4>1, <1>6 DEF LogInv, LineOrdered
    <3> QED
      BY <3>1, <3>2 DEF LineOrdered
  <2> QED
    BY <1>8, <2>3, <2>4, <2>5, <2>6, <2>7
<1>10. CASE ~isFlushing
  <2>1. isFlushing' = TRUE /\ workers' = {v} /\ writeQueue' = writeQueue
    BY <1>5, <1>10 DEF Enqueue, v
  <2>2. workers = {} /\ writeQueue = <<>> /\ DOMAIN writeQueue = {}
    BY <1>10 DEF LogInv, OneWorker
  <2>3. LogTypes'
    BY <1>4, <1>5, <2>1 DEF LogInv, LogTypes
  <2>4. OneWorker'
    BY <2>1 DEF OneWorker
  <2>5. \A l, n : InFlight(l, n)' <=> l = line0 /\ n = n0
    BY <2>1, <1>3, <1>4 DEF InFlight
  <2>6. \A l, n : ~InLine(l, n) /\ ~InLine(l, n)' /\ ~InFlight(l, n)
    BY <2>1, <2>2 DEF InLine, InFlight
  <2>7. LineOrdered'
    BY <2>1, <2>2, <2>6 DEF LineOrdered
  <2> QED
    BY <1>8, <2>3, <2>4, <2>5, <2>6, <2>7
<1> QED
  BY <1>9, <1>10

\* Calls of flushRequestLogQueue come and go.
LEMMA DrainStep ==
  ASSUME LogInv, UNCHANGED <<writeQueue, isFlushing, workers, issued, row, dropped>>,
         drains' \subseteq drains \cup {issued}
  PROVE  LogInv'
<1>1. \A l \in Logs : issued[l] \in Int
  BY LineFields
<1>2. \A l, n : /\ InFlight(l, n)' <=> InFlight(l, n)
                /\ InLine(l, n)' <=> InLine(l, n)
                /\ Done(l, n)' <=> Done(l, n)
  BY DEF InFlight, InLine, Done
<1>3. LogTypes'
  <2>1. drains' \subseteq [Logs -> Numbers]
    BY DEF LogInv, LogTypes
  <2> QED
    BY <2>1 DEF LogInv, LogTypes
<1>4. OneWorker' /\ LineOrdered' /\ AheadOfRow'
  BY <1>2 DEF LogInv, OneWorker, LineOrdered, AheadOfRow
<1>5. \A d \in drains' : \A l \in Logs : d[l] <= issued'[l]
  BY <1>1 DEF LogInv, NothingForgotten
<1>6. NothingForgotten'
  BY <1>2, <1>5 DEF LogInv, NothingForgotten
<1> QED
  BY <1>3, <1>4, <1>6 DEF LogInv

LEMMA WorkerStep ==
  ASSUME LogInv, NEW w \in workers, WriteSucceeds(w) \/ LogWriteFails(w)
  PROVE  LogInv'
<1>1. w.task \in Writes /\ w.task.log \in Logs /\ w.task.write \in 0..MaxPatches
      /\ dropped \in [Logs -> SUBSET (0..MaxPatches)]
  BY LineFields DEF LogInv, LogTypes
<1>2. CASE WriteSucceeds(w)
  BY <1>1, <1>2, WriteLeaves DEF WriteSucceeds
<1>3. CASE LogWriteFails(w) /\ w.again
  <2>1. /\ GoOn(w) /\ (Applied(w.task) \/ row' = row) /\ UNCHANGED <<issued, drains>>
        /\ dropped' = [dropped EXCEPT ![w.task.log] = @ \cup {w.task.write}]
    BY <1>3 DEF LogWriteFails
  <2>2. /\ dropped' \in [Logs -> SUBSET (0..MaxPatches)]
        /\ \A l \in Logs : dropped[l] \subseteq dropped'[l]
        /\ w.task.write \in dropped'[w.task.log]
    BY <1>1, <2>1
  <2> QED
    BY <2>1, <2>2, WriteLeaves
<1>4. CASE LogWriteFails(w) /\ ~w.again
  BY <1>4, WriteStays DEF LogWriteFails
<1> QED
  BY <1>2, <1>3, <1>4

\* The line, the rows and the numbers of the writes fit together at all times.
THEOREM LogInvariant == LogSpec => []LogInv
<1>1. LogInv /\ [LogNext]_logVars => LogInv'
  <2> SUFFICES ASSUME LogInv, [LogNext]_logVars PROVE LogInv'
    OBVIOUS
  <2>1. CASE WorkerGoesOn
    BY <2>1, WorkerStep DEF WorkerGoesOn
  <2>2. CASE \E l \in Logs : Issue(l)
    BY <2>2, IssueStep
  <2>3. CASE Drain
    BY <2>3, DrainStep DEF Drain
  <2>4. CASE \E d \in drains : DrainReturns(d)
    BY <2>4, DrainStep DEF DrainReturns
  <2>5. CASE UNCHANGED logVars
    BY <2>5, DrainStep DEF logVars
  <2> QED
    BY <2>1, <2>2, <2>3, <2>4, <2>5 DEF LogNext
<1> QED
  BY <1>1, LogInitInv, PTL DEF LogSpec

\* The writes of a log reach its row in the order they were issued, a retry of an earlier write
\* never undoes a later one, and flushRequestLogQueue returns only when what was issued before it
\* has been written or given up: for any logs, patches and calls.
THEOREM RowsStayInOrder == LogSpec => RowsInOrder
<1> DEFINE Forward == \A l \in Logs : row'[l] >= row[l]
           AllDone == \A d \in drains \ drains' : \A l \in Logs :
             \A n \in 0..d[l] : n \in dropped[l] \/ n <= row[l] \/ 0 \in dropped[l]
<1>1. LogInv /\ [LogNext]_logVars => [Forward /\ AllDone]_logVars
  <2> SUFFICES ASSUME LogInv, LogNext PROVE Forward /\ AllDone
    BY DEF logVars
  <2>0. \A l \in Logs : row[l] \in Int
    BY LineFields
  <2>1. CASE WorkerGoesOn
    <3>1. PICK w \in workers : WriteSucceeds(w) \/ LogWriteFails(w)
      BY <2>1 DEF WorkerGoesOn
    <3>2. (Applied(w.task) \/ row' = row) /\ drains' = drains
      BY <3>1 DEF WriteSucceeds, LogWriteFails
    <3>3. Forward
      BY <3>2, AppliedForward
    <3> QED
      BY <3>2, <3>3
  <2>2. CASE \E l \in Logs : Issue(l)
    BY <2>0, <2>2 DEF Issue
  <2>3. CASE Drain
    BY <2>0, <2>3 DEF Drain
  <2>4. CASE \E d \in drains : DrainReturns(d)
    <3>1. PICK d \in drains : DrainReturns(d)
      BY <2>4
    <3>2. row' = row /\ drains' = drains \ {d} /\ writeQueue = <<>> /\ ~isFlushing
      BY <3>1 DEF DrainReturns, LogDrained
    <3>3. workers = {} /\ DOMAIN writeQueue = {}
      BY <3>2 DEF LogInv, OneWorker
    <3>4. \A l, n : ~InFlight(l, n) /\ ~InLine(l, n)
      BY <3>3 DEF InFlight, InLine
    <3>5. \A l \in Logs : \A n \in 0..issued[l] : Done(l, n)
      BY <3>4 DEF LogInv, NothingForgotten
    <3>6. ASSUME NEW l \in Logs, NEW n \in 0..d[l]
          PROVE  Done(l, n)
      <4>1. d[l] \in Int /\ issued[l] \in Int /\ d[l] <= issued[l]
        <5>1. d \in [Logs -> Numbers]
          BY DEF LogInv, LogTypes
        <5> QED
          BY <5>1, LineFields DEF LogInv, NothingForgotten
      <4>2. n \in 0..issued[l]
        BY <4>1
      <4> QED
        BY <4>2, <3>5
    <3> QED
      BY <2>0, <3>2, <3>6 DEF Done
  <2> QED
    BY <2>1, <2>2, <2>3, <2>4 DEF LogNext
<1> QED
  BY <1>1, LogInvariant, PTL DEF LogSpec, RowsInOrder
-----------------------------------------------------------------------------
(* DatabaseMove: what keeps the copy complete is that the rows counted are a        *)
(* prefix of the table, which only grows at its end while nothing is deleted, and   *)
(* that a move inserts that prefix row by row.                                   *)

Batches == {<<>>} \cup {<<x>> : x \in Rows}
MoveRecords == [at : Places, total : Nat, copied : Nat, offset : Nat, batch : Batches,
                counted : SUBSET Rows]

MoveTypes ==
    /\ source \in Seq(Rows) /\ target \subseteq Rows
    /\ config \in {"sqlite", "postgres"} /\ disturbed \in BOOLEAN
    /\ move \in [Migrations -> MoveRecords]
    /\ write \in [Writers -> {"idle", "running", "done"}]

CopyStarts(v) == v.at \in {"idle", "flag", "drain", "prepare"} => v.offset = 0

\* The prefix of s that was counted is in the target up to the offset.
CopyGoesOn(v, s, kept) ==
    v.at \in {"fetch", "insert", "verify"} =>
        /\ v.total <= Len(s) /\ v.counted = {s[i] : i \in 1..v.total}
        /\ \A i \in 1..v.offset : s[i] \in kept
        /\ IF v.at = "verify" THEN v.offset = v.total ELSE v.offset < v.total
        /\ v.at = "insert" => v.batch = <<s[v.offset + 1]>>

CopiesKept ==
    /\ \A m \in Migrations : CopyStarts(move[m])
    /\ ~disturbed => \A m \in Migrations : CopyGoesOn(move[m], source, target)

MoveInv == MoveTypes /\ CopiesKept /\ SwitchedComplete

LEMMA MoveBegins == MoveInit => MoveInv
<1> SUFFICES ASSUME MoveInit PROVE MoveInv
  OBVIOUS
<1> USE DEF MoveInit
<1>1. Cardinality(OldRows) \in Nat
  BY OldRowsAssumption, FS_CardinalityType
<1>2. source \in Seq(Rows)
  BY <1>1 DEF Rows
<1>3. NoMove \in MoveRecords
  BY DEF NoMove, MoveRecords, Places, Batches
<1>4. MoveTypes
  BY <1>2, <1>3 DEF MoveTypes
<1>5. CopiesKept
  BY DEF CopiesKept, CopyStarts, CopyGoesOn, NoMove
<1> QED
  BY <1>4, <1>5 DEF MoveInv, SwitchedComplete

\* One move changes its record, the target only grows, and the table stays.
LEMMA MoveKept ==
  ASSUME MoveInv, NEW m \in Migrations, NEW v \in MoveRecords,
         move' = [move EXCEPT ![m] = v], source' = source, disturbed' = disturbed,
         write' = write, config' \in {"sqlite", "postgres"},
         target \subseteq target', target' \subseteq Rows,
         CopyStarts(v), ~disturbed => CopyGoesOn(v, source, target'),
         SwitchedComplete'
  PROVE  MoveInv'
<1>1. /\ move \in [Migrations -> MoveRecords] /\ MoveTypes /\ CopiesKept
  BY DEF MoveInv, MoveTypes
<1>2. /\ move' \in [Migrations -> MoveRecords] /\ move'[m] = v
      /\ \A k \in Migrations : k # m => move'[k] = move[k]
  BY <1>1
<1>3. MoveTypes'
  BY <1>1, <1>2 DEF MoveTypes
<1>4. ASSUME NEW k \in Migrations
      PROVE  CopyStarts(move'[k]) /\ (~disturbed => CopyGoesOn(move'[k], source, target'))
  <2>1. CASE k = m
    BY <1>2, <2>1
  <2>2. CASE k # m
    <3>1. /\ move'[k] = move[k] /\ CopyStarts(move[k])
          /\ ~disturbed => CopyGoesOn(move[k], source, target)
      BY <1>1, <1>2, <2>2 DEF CopiesKept
    <3>2. CopyGoesOn(move[k], source, target) => CopyGoesOn(move[k], source, target')
      BY DEF CopyGoesOn
    <3> QED  BY <3>1, <3>2
  <2> QED  BY <2>1, <2>2
<1>5. CopiesKept'
  BY <1>4 DEF CopiesKept
<1> QED
  BY <1>3, <1>5 DEF MoveInv

\* A move that fails or ends promises nothing any more; one that has not counted has copied nothing.
LEMMA GotoKept ==
  ASSUME MoveInv, NEW m \in Migrations, NEW p, Goto(m, p),
         \/ p \in {"done", "off", "unflag"}
         \/ p \in {"flag", "drain", "prepare"} /\ move[m].at \in {"idle", "flag", "drain"},
         source' = source, disturbed' = disturbed, write' = write,
         config' \in {"sqlite", "postgres"}, target \subseteq target', target' \subseteq Rows,
         SwitchedComplete'
  PROVE  MoveInv'
<1>1. move \in [Migrations -> MoveRecords] /\ CopiesKept
  BY DEF MoveInv, MoveTypes
<1> DEFINE v == [move[m] EXCEPT !.at = p]
<1>2. move' = [move EXCEPT ![m] = v]
  BY <1>1 DEF Goto
<1>3. move[m] \in MoveRecords /\ p \in Places
  BY <1>1 DEF Places, Copying
<1>4. v \in MoveRecords /\ v.at = p /\ v.offset = move[m].offset
  BY <1>3 DEF MoveRecords
<1>5. CopyStarts(v)
  BY <1>1, <1>4 DEF CopiesKept, CopyStarts
<1>6. CopyGoesOn(v, source, target')
  BY <1>4 DEF CopyGoesOn
<1> HIDE DEF v
<1> QED
  BY <1>2, <1>4, <1>5, <1>6, MoveKept

\* While a switched server is left alone, the target keeps what it has.
LEMMA SwitchStays ==
  ASSUME MoveInv, config' = config, began' = began, disturbed' = disturbed,
         target \subseteq target'
  PROVE  SwitchedComplete'
BY DEF MoveInv, SwitchedComplete

LEMMA CountKeeps ==
  ASSUME MoveInv, NEW m \in Migrations, Count(m)
  PROVE  MoveInv'
<1>1. /\ move \in [Migrations -> MoveRecords] /\ MoveTypes /\ CopiesKept /\ source \in Seq(Rows)
      /\ move[m] \in MoveRecords /\ move[m].at = "prepare" /\ move[m].offset = 0
  BY DEF MoveInv, MoveTypes, Count, At, CopiesKept, CopyStarts
<1> DEFINE spot == IF source = <<>> THEN "verify" ELSE "fetch"
           v == [move[m] EXCEPT !.at = spot, !.total = Len(source), !.counted = RowSet(source)]
<1>2. move' = [move EXCEPT ![m] = v]
  BY <1>1 DEF Count
<1>3. /\ source' = source /\ disturbed' = disturbed /\ write' = write /\ target' = target
      /\ config' = config /\ began' = began
  BY DEF Count, dataVars
<1>4. /\ Len(source) \in Nat /\ RowSet(source) = {source[i] : i \in 1..Len(source)}
      /\ RowSet(source) \subseteq Rows /\ (source # <<>> <=> Len(source) > 0)
  BY <1>1 DEF RowSet
<1>5. /\ v.at = spot /\ v.total = Len(source) /\ v.counted = RowSet(source) /\ v.offset = 0
      /\ v \in MoveRecords
  <2>1. spot \in Places
    BY DEF Places, Copying
  <2> HIDE DEF spot
  <2> QED  BY <1>1, <1>4, <2>1 DEF MoveRecords
<1>6. CopyStarts(v) /\ CopyGoesOn(v, source, target)
  <2> HIDE DEF v
  <2>1. spot \in {"verify", "fetch"} /\ (spot = "verify" <=> source = <<>>)
    OBVIOUS
  <2> HIDE DEF spot
  <2> QED  BY <1>1, <1>4, <1>5, <2>1 DEF CopyStarts, CopyGoesOn
<1> HIDE DEF v
<1> QED
  BY <1>1, <1>2, <1>3, <1>5, <1>6, MoveKept, SwitchStays DEF MoveTypes

LEMMA FetchKeeps ==
  ASSUME MoveInv, NEW m \in Migrations, Fetch(m)
  PROVE  MoveInv'
<1>1. /\ move \in [Migrations -> MoveRecords] /\ MoveTypes /\ CopiesKept /\ source \in Seq(Rows)
      /\ move[m] \in MoveRecords /\ move[m].at = "fetch"
  BY DEF MoveInv, MoveTypes, Fetch, At
<1> DEFINE first == move[m].offset + 1
           one == IF first \in DOMAIN source THEN <<source[first]>> ELSE <<>>
           v == [move[m] EXCEPT !.at = "insert", !.batch = one]
<1>2. move' = [move EXCEPT ![m] = v]
  BY <1>1 DEF Fetch
<1>3. /\ source' = source /\ disturbed' = disturbed /\ write' = write /\ target' = target
      /\ config' = config /\ began' = began
  BY DEF Fetch, dataVars
<1>4. one \in Batches
  BY <1>1 DEF Batches
<1>5. /\ v.at = "insert" /\ v.total = move[m].total /\ v.counted = move[m].counted
      /\ v.offset = move[m].offset /\ v.batch = one /\ v \in MoveRecords
  <2> HIDE DEF one
  <2> QED  BY <1>1, <1>4 DEF MoveRecords, Places, Copying
<1>6. CopyStarts(v)
  BY <1>5 DEF CopyStarts
<1>7. ASSUME ~disturbed
      PROVE  CopyGoesOn(v, source, target)
  <2>1. /\ move[m].total <= Len(source) /\ move[m].offset < move[m].total
        /\ move[m].counted = {source[i] : i \in 1..move[m].total}
        /\ \A i \in 1..move[m].offset : source[i] \in target
    BY <1>1, <1>7 DEF CopiesKept, CopyGoesOn
  <2>2. first \in DOMAIN source
    BY <1>1, <2>1 DEF MoveRecords
  <2>3. one = <<source[move[m].offset + 1]>>
    BY <2>2
  <2> HIDE DEF v, one, first
  <2> QED  BY <1>5, <2>1, <2>3 DEF CopyGoesOn
<1> HIDE DEF v
<1> QED
  BY <1>1, <1>2, <1>3, <1>5, <1>6, <1>7, MoveKept, SwitchStays DEF MoveTypes

LEMMA InsertKeeps ==
  ASSUME MoveInv, NEW m \in Migrations, Insert(m)
  PROVE  MoveInv'
<1>1. /\ move \in [Migrations -> MoveRecords] /\ MoveTypes /\ CopiesKept /\ source \in Seq(Rows)
      /\ move[m] \in MoveRecords /\ move[m].at = "insert" /\ target \subseteq Rows
      /\ config \in {"sqlite", "postgres"}
  BY DEF MoveInv, MoveTypes, Insert, At
<1> DEFINE new == RowSet(move[m].batch)
           copied == move[m].copied + Cardinality(new)
<1>2. /\ source' = source /\ disturbed' = disturbed /\ write' = write
      /\ config' = config /\ began' = began
  BY DEF Insert
<1>3. move[m].batch \in Batches /\ move[m].copied \in Nat /\ move[m].offset \in Nat
  BY <1>1 DEF MoveRecords
<1>4. new \subseteq Rows /\ Cardinality(new) \in Nat
  <2>1. CASE move[m].batch = <<>>
    <3>1. new = {}
      BY <2>1 DEF RowSet
    <3> QED  BY <3>1, FS_EmptySet
  <2>2. CASE \E x \in Rows : move[m].batch = <<x>>
    <3>1. PICK x \in Rows : move[m].batch = <<x>>
      BY <2>2
    <3>2. new = {x}
      BY <3>1 DEF RowSet
    <3>3. Cardinality({x}) = 1
      BY FS_Singleton
    <3> QED  BY <3>2, <3>3
  <2> QED  BY <1>3, <2>1, <2>2 DEF Batches
<1>5. target \subseteq target' /\ target' \subseteq Rows
  BY <1>1, <1>4 DEF Insert
<1>6. SwitchedComplete'
  BY <1>2, <1>5, SwitchStays
<1>7. CASE Fail(m)
  <2>1. Goto(m, "off")
    BY <1>7 DEF Fail
  <2> QED  BY <1>1, <1>2, <1>5, <1>6, <2>1, GotoKept
<1>8. CASE ~Fail(m)
  <2> DEFINE spot == IF More(m) THEN "fetch" ELSE "verify"
             v == [move[m] EXCEPT !.copied = copied, !.offset = move[m].offset + 1, !.at = spot]
  <2>1. /\ target' = target \cup new
        /\ move' = [move EXCEPT ![m].copied = copied, ![m].offset = @ + 1, ![m].at = spot]
    BY <1>8 DEF Insert
  <2>2. move' = [move EXCEPT ![m] = v]
    BY <1>1, <2>1
  <2>3. spot \in {"fetch", "verify"} /\ (spot = "fetch" <=> More(m))
    OBVIOUS
  <2>4. copied \in Nat
    BY <1>3, <1>4
  <2>5. /\ v.at = spot /\ v.total = move[m].total /\ v.counted = move[m].counted
        /\ v.offset = move[m].offset + 1 /\ v \in MoveRecords
    <3>1. spot \in Places /\ move[m].offset + 1 \in Nat
      BY <1>3, <2>3 DEF Places, Copying
    <3> DEFINE o == move[m].offset + 1
    <3> HIDE DEF spot, copied, o
    <3> QED  BY <1>1, <2>4, <3>1 DEF MoveRecords, o
  <2>6. CopyStarts(v)
    BY <2>3, <2>5 DEF CopyStarts
  <2> HIDE DEF v, spot, copied
  <2>7. ASSUME ~disturbed
        PROVE  CopyGoesOn(v, source, target')
    <3> DEFINE x == source[move[m].offset + 1]
    <3>1. /\ move[m].total <= Len(source) /\ move[m].offset < move[m].total
          /\ move[m].counted = {source[i] : i \in 1..move[m].total}
          /\ \A i \in 1..move[m].offset : source[i] \in target
          /\ move[m].batch = <<x>>
      BY <1>1, <2>7 DEF CopiesKept, CopyGoesOn
    <3>2. x \in new
      BY <3>1 DEF RowSet
    <3>3. \A i \in 1..(move[m].offset + 1) : source[i] \in target'
      BY <1>3, <2>1, <3>1, <3>2
    <3>4. move[m].total \in Nat
      BY <1>1 DEF MoveRecords
    <3>5. IF spot = "verify" THEN move[m].offset + 1 = move[m].total
                              ELSE move[m].offset + 1 < move[m].total
      BY <1>3, <2>3, <3>1, <3>4 DEF More
    <3> QED  BY <2>3, <2>5, <3>1, <3>3, <3>5 DEF CopyGoesOn
  <2> QED
    BY <1>1, <1>2, <1>5, <1>6, <2>2, <2>5, <2>6, <2>7, MoveKept
<1> QED
  BY <1>7, <1>8

LEMMA VerifyKeeps ==
  ASSUME MoveInv, NEW m \in Migrations, Verify(m)
  PROVE  MoveInv'
<1>1. /\ move \in [Migrations -> MoveRecords] /\ MoveTypes /\ CopiesKept /\ target \subseteq Rows
      /\ move[m] \in MoveRecords /\ move[m].at = "verify" /\ config \in {"sqlite", "postgres"}
  BY DEF MoveInv, MoveTypes, Verify, At
<1>2. /\ source' = source /\ disturbed' = disturbed /\ write' = write /\ target' = target
      /\ Goto(m, "off")
  BY DEF Verify, Fail
<1>3. CASE Verified(m)
  <2>1. config' = "postgres" /\ began' = move[m].counted
    BY <1>3 DEF Verify
  <2>2. ASSUME ~disturbed
        PROVE  move[m].counted \subseteq target
    <3>1. /\ move[m].offset = move[m].total
          /\ move[m].counted = {source[i] : i \in 1..move[m].total}
          /\ \A i \in 1..move[m].offset : source[i] \in target
      BY <1>1, <2>2 DEF CopiesKept, CopyGoesOn
    <3> QED  BY <3>1
  <2>3. SwitchedComplete'
    BY <1>2, <2>1, <2>2 DEF SwitchedComplete
  <2> QED  BY <1>1, <1>2, <2>1, <2>3, GotoKept
<1>4. CASE ~Verified(m)
  <2>1. config' = config /\ began' = began
    BY <1>4 DEF Verify
  <2>2. SwitchedComplete'
    BY <1>2, <2>1, SwitchStays
  <2> QED  BY <1>1, <1>2, <2>1, <2>2, GotoKept
<1> QED
  BY <1>3, <1>4

LEMMA BesideKeeps ==
  ASSUME MoveInv,
         \/ \E w \in Writers : WriterStarts(w) \/ WriterEnds(w)
         \/ Cleanup
         \/ RestartServer
  PROVE  MoveInv'
<1>1. /\ move \in [Migrations -> MoveRecords] /\ MoveTypes /\ CopiesKept /\ source \in Seq(Rows)
      /\ target \subseteq Rows /\ config \in {"sqlite", "postgres"} /\ disturbed \in BOOLEAN
      /\ write \in [Writers -> {"idle", "running", "done"}] /\ SwitchedComplete
  BY DEF MoveInv, MoveTypes
<1>2. ASSUME NEW w \in Writers, WriterStarts(w)
      PROVE  MoveInv'
  <2>1. /\ source' = source /\ target' = target /\ config' = config /\ move' = move
        /\ began' = began /\ disturbed' = disturbed
    BY <1>2 DEF WriterStarts, dataVars
  <2>2. write' \in [Writers -> {"idle", "running", "done"}]
    BY <1>1, <1>2 DEF WriterStarts
  <2> QED
    BY <1>1, <2>1, <2>2 DEF MoveInv, MoveTypes, CopiesKept, SwitchedComplete
<1>3. ASSUME NEW w \in Writers, WriterEnds(w)
      PROVE  MoveInv'
  <2>1. /\ source' = Append(source, w) /\ target' = target /\ config' = config /\ move' = move
        /\ began' = began /\ disturbed' = disturbed
    BY <1>3 DEF WriterEnds
  <2>2. write' \in [Writers -> {"idle", "running", "done"}]
    BY <1>1, <1>3 DEF WriterEnds
  <2>3. w \in Rows
    BY DEF Rows
  <2>4. /\ source' \in Seq(Rows) /\ Len(source) <= Len(source')
        /\ \A i \in 1..Len(source) : source'[i] = source[i]
    BY <1>1, <2>1, <2>3
  <2>5. ASSUME NEW m \in Migrations, ~disturbed
        PROVE  CopyGoesOn(move[m], source', target)
    <3>1. CopyGoesOn(move[m], source, target) /\ move[m] \in MoveRecords
      BY <1>1, <2>5 DEF CopiesKept
    <3>2. CASE move[m].at \in {"fetch", "insert", "verify"}
      <4>1. /\ move[m].total <= Len(source) /\ move[m].total \in Nat /\ move[m].offset \in Nat
            /\ move[m].counted = {source[i] : i \in 1..move[m].total}
            /\ \A i \in 1..move[m].offset : source[i] \in target
            /\ IF move[m].at = "verify" THEN move[m].offset = move[m].total
                                        ELSE move[m].offset < move[m].total
            /\ move[m].at = "insert" => move[m].batch = <<source[move[m].offset + 1]>>
        BY <3>1, <3>2 DEF CopyGoesOn, MoveRecords
      <4>2. /\ Len(source) \in Nat /\ Len(source') \in Nat
            /\ move[m].total <= Len(source') /\ move[m].offset <= move[m].total
        BY <1>1, <2>4, <4>1
      <4>3. \A i \in 1..move[m].total : source'[i] = source[i]
        BY <2>4, <4>1, <4>2
      <4>4. \A i \in 1..move[m].offset : source'[i] = source[i]
        BY <4>1, <4>2, <4>3
      <4>5. move[m].at = "insert" => source'[move[m].offset + 1] = source[move[m].offset + 1]
        BY <4>1, <4>3
      <4>6. move[m].counted = {source'[i] : i \in 1..move[m].total}
        BY <4>1, <4>3
      <4> QED  BY <4>1, <4>2, <4>4, <4>5, <4>6 DEF CopyGoesOn
    <3>3. CASE move[m].at \notin {"fetch", "insert", "verify"}
      BY <3>3 DEF CopyGoesOn
    <3> QED  BY <3>2, <3>3
  <2> QED
    BY <1>1, <2>1, <2>2, <2>4, <2>5 DEF MoveInv, MoveTypes, CopiesKept, SwitchedComplete
<1>4. CASE Cleanup
  <2>1. /\ source' = Tail(source) /\ source # <<>> /\ target' = target /\ config' = config
        /\ move' = move /\ write' = write /\ began' = began
        /\ disturbed' = (disturbed \/ \E m \in Migrations : move[m].at \in Copying)
    BY <1>4 DEF Cleanup
  <2>2. source' \in Seq(Rows)
    BY <1>1, <2>1
  <2>3. disturbed' \in BOOLEAN /\ (~disturbed' => ~disturbed)
    BY <2>1
  <2>4. ASSUME NEW m \in Migrations, ~disturbed'
        PROVE  CopyGoesOn(move[m], source', target)
    BY <2>1, <2>4 DEF CopyGoesOn, Copying
  <2> QED
    BY <1>1, <2>1, <2>2, <2>3, <2>4 DEF MoveInv, MoveTypes, CopiesKept, SwitchedComplete
<1>5. CASE RestartServer
  <2>1. /\ source' = source /\ target' = target /\ config' = config
        /\ began' = began /\ disturbed' = disturbed
        /\ move' = [m \in Migrations |-> IF move[m].at = "idle" THEN NoMove
                                         ELSE [NoMove EXCEPT !.at = "done"]]
    BY <1>5 DEF RestartServer
  <2>2. write' \in [Writers -> {"idle", "running", "done"}]
    BY <1>1, <1>5 DEF RestartServer
  <2>3. /\ NoMove \in MoveRecords /\ [NoMove EXCEPT !.at = "done"] \in MoveRecords
        /\ [NoMove EXCEPT !.at = "done"].at = "done" /\ NoMove.at = "idle" /\ NoMove.offset = 0
    BY DEF NoMove, MoveRecords, Places, Batches
  <2>4. /\ move' \in [Migrations -> MoveRecords]
        /\ \A m \in Migrations : move'[m] = NoMove \/ move'[m].at = "done"
    BY <2>1, <2>3
  <2>5. CopiesKept'
    BY <2>3, <2>4 DEF CopiesKept, CopyStarts, CopyGoesOn
  <2> QED
    BY <1>1, <2>1, <2>2, <2>4, <2>5 DEF MoveInv, MoveTypes, SwitchedComplete
<1> QED
  BY <1>2, <1>3, <1>4, <1>5

LEMMA MoveStepKeeps == MoveInv /\ [MoveNext]_moveVars => MoveInv'
<1> SUFFICES ASSUME MoveInv, [MoveNext]_moveVars PROVE MoveInv'
  OBVIOUS
<1>1. target \subseteq Rows /\ config \in {"sqlite", "postgres"}
  BY DEF MoveInv, MoveTypes
<1>2. ASSUME NEW m \in Migrations, Ask(m)
      PROVE  MoveInv'
  <2>1. /\ source' = source /\ target' = target /\ config' = config /\ write' = write
        /\ began' = began /\ disturbed' = disturbed /\ move[m].at = "idle"
        /\ Goto(m, "done") \/ Goto(m, "flag")
    BY <1>2 DEF Ask, dataVars, At
  <2>2. SwitchedComplete'
    BY <2>1, SwitchStays
  <2> QED  BY <1>1, <2>1, <2>2, GotoKept
<1>3. ASSUME NEW m \in Migrations, SetFlag(m) \/ DrainEnds(m)
      PROVE  MoveInv'
  <2>1. /\ source' = source /\ target' = target /\ config' = config /\ write' = write
        /\ began' = began /\ disturbed' = disturbed /\ move[m].at \in {"flag", "drain"}
        /\ Goto(m, "drain") \/ Goto(m, "prepare")
    BY <1>3 DEF SetFlag, DrainEnds, dataVars, At
  <2>2. SwitchedComplete'
    BY <2>1, SwitchStays
  <2> QED  BY <1>1, <2>1, <2>2, GotoKept
<1>4. ASSUME NEW m \in Migrations, TargetError(m) \/ TurnOff(m) \/ Unflag(m)
      PROVE  MoveInv'
  <2>1. /\ source' = source /\ target' = target /\ config' = config /\ write' = write
        /\ began' = began /\ disturbed' = disturbed
        /\ Goto(m, "off") \/ Goto(m, "unflag") \/ Goto(m, "done")
    BY <1>4 DEF TargetError, Fail, TurnOff, Unflag, dataVars
  <2>2. SwitchedComplete'
    BY <2>1, SwitchStays
  <2> QED  BY <1>1, <2>1, <2>2, GotoKept
<1>5. ASSUME NEW m \in Migrations, Ask(m) \/ MoveStep(m) \/ TargetError(m)
      PROVE  MoveInv'
  BY <1>2, <1>3, <1>4, <1>5, CountKeeps, FetchKeeps, InsertKeeps, VerifyKeeps DEF MoveStep
<1>6. CASE UNCHANGED moveVars
  <2>1. /\ source' = source /\ target' = target /\ config' = config /\ write' = write
        /\ began' = began /\ disturbed' = disturbed /\ move' = move
    BY <1>6 DEF moveVars
  <2> QED
    BY <2>1 DEF MoveInv, MoveTypes, CopiesKept, SwitchedComplete
<1> QED
  BY <1>5, <1>6, BesideKeeps DEF MoveNext

\* While nothing is deleted, every move copies the prefix it counted.
THEOREM MoveInvariant == MoveSpec => []MoveInv
<1> QED
  BY MoveBegins, MoveStepKeeps, PTL DEF MoveSpec

\* A server is switched to PostgreSQL only when every row it had when its rows were counted is
\* there, unless rows were deleted meanwhile: for any number of moves, writers, failures and
\* restarts (db/copy/pipeline.ts, routes/settings.ts).
THEOREM SwitchIsComplete == MoveSpec => []SwitchedComplete
<1>1. MoveInv => SwitchedComplete
  BY DEF MoveInv
<1> QED
  BY <1>1, MoveInvariant, PTL

-----------------------------------------------------------------------------
(* DistillationJobs, for one control call at a time (any number of jobs, records,      *)
(* workers in a chain and calls one after the other).                              *)

\* Nobody resumes a job that is being created, or one whose cancel has not been written.
OneCall == \A c, d \in Controllers : c = d

JobTypes ==
    /\ status \in [Jobs -> Statuses]
    /\ item \in [Jobs -> [AuditRecords -> ItemStatuses]]
    /\ published \in [Jobs -> SUBSET AuditRecords]
    /\ cancelled \subseteq Jobs /\ paused \subseteq Jobs
    /\ worker \in [Jobs -> WorkerSteps]
    /\ waiting \in [Jobs -> Nat]
    /\ batch \in [Jobs -> [AuditRecords -> BatchSteps]]
    /\ accum \in [Jobs -> SUBSET AuditRecords]
    /\ call \in [Controllers -> [op : CallSteps, job : Jobs, chosen : SUBSET AuditRecords]]
    /\ wish \in [Jobs -> {"run", "pause", "cancel"}]
    /\ discarded \subseteq Jobs

Calling(ops, j) == \E c \in Controllers : call[c].op \in ops /\ call[c].job = j
Creating == {"create select", "create insert", "create items"}

\* Only a worker in its loop has a batch, and only items of a batch are being processed.
BatchFits(j) == \A r \in AuditRecords :
    /\ batch[j][r] # "none" => worker[j] = "loop"
    /\ item[j][r] = "processing" => batch[j][r] \in {"analysing", "inserted"}

Settled(j) == \A r \in AuditRecords : item[j][r] \notin {"pending", "processing"}

InPackages(j) == j \notin discarded => \A r \in AuditRecords : item[j][r] = "learned" => r \in published[j]

\* No fragment is lost on its way to the packages.
Gathered(j) == j \notin discarded => \A r \in AuditRecords :
    item[j][r] = "learned" \/ batch[j][r] = "inserted" => r \in accum[j] \cup published[j]

EndFits(j) ==
    /\ worker[j] \in {"publish", "complete"} => Settled(j)
    /\ worker[j] = "complete" => InPackages(j)
    /\ status[j] = "completed" => /\ Settled(j) /\ InPackages(j)
                                  /\ worker[j] \notin {"run", "loop", "publish", "complete"}

\* A job that is being created has no worker and no items yet.
NewFits(j) ==
    /\ status[j] = "none" \/ Calling(Creating, j) =>
           /\ \A r \in AuditRecords : item[j][r] = "none"
           /\ worker[j] = "idle" /\ waiting[j] = 0 /\ wish[j] = "run"
    /\ Calling({"create select", "create insert"}, j) => status[j] = "none"
    /\ Calling({"create items"}, j) => status[j] = "pending"
    /\ Calling({"resume items"}, j) => status[j] # "none"

\* The flag of a cancel is up, or no worker gets past the status of the job.
Stopped(j) ==
    \/ j \in cancelled
    \/ worker[j] = "cancelling"
    \/ /\ status[j] \in Terminal /\ worker[j] \in {"idle", "start", "read"}
       /\ worker[j] = "start" => j \notin paused
    \/ Calling({"cancel write"}, j) /\ worker[j] = "idle" /\ waiting[j] = 0

CancelFits(j) ==
    /\ j \in cancelled => j \in discarded
    /\ Calling({"resume write", "resume items"}, j) => wish[j] = "run"
    /\ wish[j] = "cancel" \/ Calling({"cancel write"}, j) => Stopped(j)

JobFits(j) == BatchFits(j) /\ Gathered(j) /\ EndFits(j) /\ NewFits(j) /\ CancelFits(j)

JobInv == JobTypes /\ \A j \in Jobs : JobFits(j)

LEMMA JobsBegin == JobInit => JobInv
<1> SUFFICES ASSUME JobInit PROVE JobInv
  OBVIOUS
<1> USE DEF JobInit
<1>1. JobTypes
  <2>1. NoCall \in [op : CallSteps, job : Jobs, chosen : SUBSET AuditRecords]
    BY JobsAssumption DEF NoCall, CallSteps
  <2> QED
    BY <2>1 DEF JobTypes, Statuses, ItemStatuses, WorkerSteps, BatchSteps
<1>2. ASSUME NEW j \in Jobs PROVE JobFits(j)
  <2>1. \A ops : "none" \notin ops => ~Calling(ops, j)
    BY DEF Calling, NoCall
  <2>2. BatchFits(j) /\ Gathered(j) /\ EndFits(j)
    BY DEF BatchFits, Gathered, EndFits
  <2>3. NewFits(j)
    BY <2>1 DEF NewFits
  <2>4. CancelFits(j)
    BY <2>1 DEF CancelFits
  <2> QED  BY <2>2, <2>3, <2>4 DEF JobFits
<1> QED
  BY <1>1, <1>2 DEF JobInv

\* What a step leaves of the job k as it was; a call may leave it.
SameJob(k) ==
    /\ status'[k] = status[k] /\ item'[k] = item[k] /\ published'[k] = published[k]
    /\ (k \in cancelled' <=> k \in cancelled) /\ (k \in paused' <=> k \in paused)
    /\ worker'[k] = worker[k] /\ waiting'[k] = waiting[k] /\ batch'[k] = batch[k]
    /\ accum'[k] = accum[k] /\ wish'[k] = wish[k] /\ (k \in discarded' <=> k \in discarded)

LEMMA OthersFit ==
  ASSUME NEW k \in Jobs, JobFits(k), SameJob(k),
         \A c \in Controllers : call'[c].job = k /\ call'[c].op # "none" => call'[c] = call[c],
         \A c \in Controllers : call[c].job = k /\ call[c].op = "cancel write" => call'[c] = call[c]
  PROVE  JobFits(k)'
<1>1. /\ Calling(Creating, k)' => Calling(Creating, k)
      /\ Calling({"create select", "create insert"}, k)' => Calling({"create select", "create insert"}, k)
      /\ Calling({"create items"}, k)' => Calling({"create items"}, k)
      /\ Calling({"resume items"}, k)' => Calling({"resume items"}, k)
      /\ Calling({"resume write", "resume items"}, k)' => Calling({"resume write", "resume items"}, k)
      /\ Calling({"cancel write"}, k)' <=> Calling({"cancel write"}, k)
  BY DEF Calling, Creating
<1>2. BatchFits(k)' /\ Gathered(k)' /\ EndFits(k)'
  BY DEF JobFits, SameJob, BatchFits, Gathered, EndFits, Settled, InPackages
<1>3. NewFits(k)'
  BY <1>1 DEF JobFits, SameJob, NewFits
<1>4. CancelFits(k)'
  BY <1>1 DEF JobFits, SameJob, CancelFits, Stopped
<1> QED
  BY <1>2, <1>3, <1>4 DEF JobFits

\* A step of the worker of j, after which j still fits, keeps all of them.
LEMMA WorkFrame ==
  ASSUME JobInv, NEW j \in Jobs, JobTypes', JobFits(j)', call' = call,
         \A k \in Jobs : k # j => SameJob(k)
  PROVE  JobInv'
<1>1. ASSUME NEW k \in Jobs, k # j PROVE JobFits(k)'
  BY <1>1, OthersFit DEF JobInv
<1> QED
  BY <1>1 DEF JobInv

\* A worker is at work on jobs that are there, and not while they are being created.
LEMMA WorkerIsThere ==
  ASSUME JobInv, NEW j \in Jobs,
         worker[j] # "idle" \/ waiting[j] > 0 \/ \E r \in AuditRecords : batch[j][r] # "none"
  PROVE  status[j] # "none" /\ ~Calling(Creating, j)
<1>1. BatchFits(j) /\ NewFits(j)
  BY DEF JobInv, JobFits
<1>2. waiting[j] \in Nat
  BY DEF JobInv, JobTypes
<1>3. worker[j] # "idle" \/ waiting[j] # 0
  BY <1>1, <1>2 DEF BatchFits
<1> QED
  BY <1>1, <1>3 DEF NewFits

LEMMA NewStays ==
  ASSUME NEW j \in Jobs, call' = call, status[j] # "none", ~Calling(Creating, j),
         status'[j] # "none"
  PROVE  NewFits(j)' /\ \A ops : Calling(ops, j)' <=> Calling(ops, j)
BY DEF NewFits, Calling, Creating

LEMMA TakeCancelFits ==
  ASSUME JobInv, NEW j \in Jobs, TakeCancel(j), worker[j] \in {"start", "loop"},
         \A r \in AuditRecords : batch[j][r] = "none",
         UNCHANGED <<database, waiting, batch, call, history>>
  PROVE  JobInv'
<1>1. /\ JobTypes /\ JobFits(j) /\ j \in cancelled /\ j \in discarded
      /\ status[j] # "none" /\ ~Calling(Creating, j)
  BY WorkerIsThere DEF JobInv, JobFits, CancelFits, TakeCancel
<1>2. /\ cancelled' = cancelled \ {j} /\ paused' = paused \ {j}
      /\ accum' = [accum EXCEPT ![j] = {}] /\ worker' = [worker EXCEPT ![j] = "cancelling"]
      /\ status' = status /\ item' = item /\ published' = published /\ waiting' = waiting
      /\ batch' = batch /\ call' = call /\ wish' = wish /\ discarded' = discarded
  BY DEF TakeCancel, GoesTo, database, history
<1>3. worker'[j] = "cancelling" /\ \A k \in Jobs : k # j => SameJob(k)
  BY <1>1, <1>2 DEF JobTypes, SameJob
<1>4. JobTypes'
  BY <1>1, <1>2 DEF JobTypes, WorkerSteps
<1>5. BatchFits(j)' /\ Gathered(j)'
  BY <1>1, <1>2, <1>3 DEF JobFits, BatchFits, Gathered
<1>6. EndFits(j)'
  BY <1>1, <1>2, <1>3 DEF JobFits, EndFits, Settled, InPackages
<1>7. NewFits(j)' /\ \A ops : Calling(ops, j)' <=> Calling(ops, j)
  BY <1>1, <1>2, NewStays
<1>8. CancelFits(j)'
  BY <1>1, <1>2, <1>3, <1>7 DEF JobFits, CancelFits, Stopped
<1> QED
  BY <1>2, <1>3, <1>4, <1>5, <1>6, <1>7, <1>8, WorkFrame DEF JobFits

LEMMA TakePauseFits ==
  ASSUME JobInv, NEW j \in Jobs, TakePause(j), worker[j] \in {"start", "loop"},
         \A r \in AuditRecords : batch[j][r] = "none",
         UNCHANGED <<database, waiting, batch, call, history>>
  PROVE  JobInv'
<1>1. /\ JobTypes /\ JobFits(j) /\ j \in paused
      /\ status[j] # "none" /\ ~Calling(Creating, j)
  BY WorkerIsThere DEF JobInv, TakePause
<1>2. /\ cancelled' = cancelled /\ paused' = paused \ {j}
      /\ accum' = accum /\ worker' = [worker EXCEPT ![j] = "pausing"]
      /\ status' = status /\ item' = item /\ published' = published /\ waiting' = waiting
      /\ batch' = batch /\ call' = call /\ wish' = wish /\ discarded' = discarded
  BY DEF TakePause, GoesTo, database, history
<1>3. worker'[j] = "pausing" /\ \A k \in Jobs : k # j => SameJob(k)
  BY <1>1, <1>2 DEF JobTypes, SameJob
<1>4. JobTypes'
  BY <1>1, <1>2 DEF JobTypes, WorkerSteps
<1>5. BatchFits(j)' /\ Gathered(j)'
  BY <1>1, <1>2, <1>3 DEF JobFits, BatchFits, Gathered
<1>6. EndFits(j)'
  BY <1>1, <1>2, <1>3 DEF JobFits, EndFits, Settled, InPackages
<1>7. NewFits(j)' /\ \A ops : Calling(ops, j)' <=> Calling(ops, j)
  BY <1>1, <1>2, NewStays
<1>8. CancelFits(j)'
  BY <1>1, <1>2, <1>3, <1>7 DEF JobFits, CancelFits, Stopped
<1> QED
  BY <1>2, <1>3, <1>4, <1>5, <1>6, <1>7, <1>8, WorkFrame DEF JobFits

\* The steps of the worker that only change where it is, and the status.
LEMMA StepFits ==
  ASSUME JobInv, NEW j \in Jobs, NEW w \in WorkerSteps, NEW s \in Statuses, NEW n \in Nat,
         worker[j] # "idle" \/ waiting[j] > 0,
         \A r \in AuditRecords : batch[j][r] = "none",
         worker' = [worker EXCEPT ![j] = w], status' = [status EXCEPT ![j] = s],
         waiting' = [waiting EXCEPT ![j] = n],
         UNCHANGED <<item, published, flags, batch, accum, call, wish, discarded>>,
         s # "none", EndFits(j)', Stopped(j) => Stopped(j)'
  PROVE  JobInv'
<1>1. /\ JobTypes /\ JobFits(j) /\ status[j] # "none" /\ ~Calling(Creating, j)
  BY WorkerIsThere DEF JobInv
<1>2. /\ cancelled' = cancelled /\ paused' = paused /\ accum' = accum
      /\ item' = item /\ published' = published
      /\ batch' = batch /\ call' = call /\ wish' = wish /\ discarded' = discarded
  BY DEF flags
<1>3. /\ status'[j] = s /\ worker'[j] = w /\ waiting'[j] = n
      /\ \A k \in Jobs : k # j => SameJob(k)
  BY <1>1, <1>2 DEF JobTypes, SameJob
<1>4. JobTypes'
  BY <1>1, <1>2 DEF JobTypes
<1>5. BatchFits(j)' /\ Gathered(j)'
  BY <1>1, <1>2, <1>3 DEF JobFits, BatchFits, Gathered
<1>6. NewFits(j)' /\ \A ops : Calling(ops, j)' <=> Calling(ops, j)
  BY <1>1, <1>2, <1>3, NewStays
<1>7. CancelFits(j)'
  BY <1>1, <1>2, <1>6 DEF JobFits, CancelFits
<1> QED
  BY <1>2, <1>3, <1>4, <1>5, <1>6, <1>7, WorkFrame DEF JobFits

LEMMA WorkerSteps1 ==
  ASSUME JobInv, NEW j \in Jobs, Begin(j) \/ ReadJob(j) \/ Run(j) \/ NextWorker(j)
  PROVE  JobInv'
<1>1. /\ JobTypes /\ JobFits(j) /\ worker \in [Jobs -> WorkerSteps] /\ status \in [Jobs -> Statuses]
      /\ waiting \in [Jobs -> Nat] /\ EndFits(j) /\ BatchFits(j)
  BY DEF JobInv, JobTypes, JobFits
<1>2. /\ status = [status EXCEPT ![j] = status[j]] /\ waiting = [waiting EXCEPT ![j] = waiting[j]]
      /\ status[j] \in Statuses /\ waiting[j] \in Nat
  BY <1>1
<1>3. worker[j] # "loop" => \A r \in AuditRecords : batch[j][r] = "none"
  BY <1>1 DEF BatchFits
<1>4. CASE Begin(j)
  <2>1. worker[j] = "start" /\ UNCHANGED <<database, waiting, batch, call, resumes, history>>
    BY <1>4 DEF Begin
  <2>2. CASE TakeCancel(j)
    BY <1>3, <2>1, <2>2, TakeCancelFits
  <2>3. CASE TakePause(j)
    BY <1>3, <2>1, <2>3, TakePauseFits
  <2>4. CASE ~Flagged(j) /\ GoesTo(j, "read") /\ UNCHANGED <<flags, accum>>
    <3>1. /\ worker' = [worker EXCEPT ![j] = "read"] /\ worker'[j] = "read"
          /\ status' = status /\ waiting' = waiting /\ status[j] # "none"
      BY <1>1, <2>1, <2>4, WorkerIsThere DEF GoesTo, database
    <3>2. EndFits(j)'
      BY <1>1, <2>1, <2>4, <3>1 DEF EndFits, Settled, InPackages, database, history
    <3>3. Stopped(j) => Stopped(j)'
      BY <2>1, <2>4, <3>1 DEF Stopped, Flagged, flags, Calling
    <3>4. UNCHANGED <<item, published, flags, batch, accum, call, wish, discarded>>
      BY <2>1, <2>4 DEF database, history
    <3> QED
      BY <1>2, <1>3, <2>1, <3>1, <3>2, <3>3, <3>4, StepFits DEF WorkerSteps
  <2> QED  BY <1>4, <2>2, <2>3, <2>4 DEF Begin
<1>5. CASE ReadJob(j)
  <2> DEFINE w == IF status[j] \in Terminal THEN "idle" ELSE "run"
  <2>1. /\ worker' = [worker EXCEPT ![j] = w] /\ worker'[j] = w /\ worker[j] = "read"
        /\ status' = status /\ waiting' = waiting /\ status[j] # "none"
        /\ UNCHANGED <<item, published, flags, batch, accum, call, wish, discarded>>
    BY <1>1, <1>5, WorkerIsThere DEF ReadJob, GoesTo, database, history
  <2>2. EndFits(j)'
    BY <1>1, <2>1 DEF EndFits, Settled, InPackages, Terminal
  <2>3. Stopped(j) => Stopped(j)'
    <3>1. Stopped(j) => j \in cancelled \/ status[j] \in Terminal
      BY <2>1 DEF Stopped
    <3>2. status[j] \in Terminal => worker'[j] = "idle" /\ status'[j] \in Terminal
      BY <2>1
    <3>3. j \in cancelled => j \in cancelled'
      BY <2>1 DEF flags
    <3> QED  BY <3>1, <3>2, <3>3 DEF Stopped
  <2>4. w \in WorkerSteps
    BY DEF WorkerSteps
  <2> HIDE DEF w
  <2> QED
    BY <1>2, <1>3, <2>1, <2>2, <2>3, <2>4, StepFits
<1>6. CASE Run(j)
  <2>1. /\ worker' = [worker EXCEPT ![j] = "loop"] /\ worker'[j] = "loop" /\ worker[j] = "run"
        /\ status' = [status EXCEPT ![j] = "running"] /\ status'[j] = "running"
        /\ waiting' = waiting
        /\ UNCHANGED <<item, published, flags, batch, accum, call, wish, discarded>>
    BY <1>1, <1>6 DEF Run, GoesTo, history
  <2>2. EndFits(j)'
    BY <2>1 DEF EndFits
  <2>3. Stopped(j) => Stopped(j)'
    BY <2>1 DEF Stopped, flags
  <2> QED
    BY <1>2, <1>3, <2>1, <2>2, <2>3, StepFits DEF WorkerSteps, Statuses, Active
<1>7. CASE NextWorker(j)
  <2> DEFINE w == IF Flagged(j) THEN "idle" ELSE "start"
  <2>1. /\ worker' = [worker EXCEPT ![j] = w] /\ worker'[j] = w /\ worker[j] = "idle"
        /\ waiting' = [waiting EXCEPT ![j] = waiting[j] - 1] /\ waiting[j] > 0
        /\ status' = status
        /\ UNCHANGED <<item, published, flags, batch, accum, call, wish, discarded>>
    BY <1>1, <1>7 DEF NextWorker, GoesTo, database, history
  <2>2. status[j] # "none" /\ waiting[j] - 1 \in Nat
    BY <1>2, <2>1, WorkerIsThere
  <2>3. EndFits(j)'
    BY <1>1, <2>1 DEF EndFits, Settled, InPackages
  <2>4. Stopped(j) => Stopped(j)'
    <3>5. worker[j] = "idle" /\ waiting[j] # 0
      BY <1>2, <2>1
    <3>1. Stopped(j) => j \in cancelled \/ status[j] \in Terminal
      BY <3>5 DEF Stopped
    <3>2. status'[j] = status[j] /\ worker'[j] \in {"idle", "start"}
      BY <2>1
    <3>3. worker'[j] = "start" => j \notin paused
      BY <2>1 DEF Flagged
    <3>4. cancelled' = cancelled /\ paused' = paused
      BY <2>1 DEF flags
    <3> QED  BY <3>1, <3>2, <3>3, <3>4 DEF Stopped
  <2>5. w \in WorkerSteps
    BY DEF WorkerSteps
  <2> HIDE DEF w
  <2> QED
    BY <1>2, <1>3, <2>1, <2>2, <2>3, <2>4, <2>5, StepFits
<1> QED
  BY <1>4, <1>5, <1>6, <1>7

LEMMA WorkerSteps2 ==
  ASSUME JobInv, NEW j \in Jobs,
         EndLoop(j) \/ WritePaused(j) \/ WriteCancelled(j) \/ Publish(j) \/ Complete(j)
  PROVE  JobInv'
<1>1. /\ JobTypes /\ JobFits(j) /\ worker \in [Jobs -> WorkerSteps] /\ status \in [Jobs -> Statuses]
      /\ waiting \in [Jobs -> Nat] /\ EndFits(j) /\ BatchFits(j) /\ Gathered(j)
      /\ published \in [Jobs -> SUBSET AuditRecords] /\ accum \in [Jobs -> SUBSET AuditRecords]
  BY DEF JobInv, JobTypes, JobFits
<1>2. /\ status = [status EXCEPT ![j] = status[j]] /\ waiting = [waiting EXCEPT ![j] = waiting[j]]
      /\ status[j] \in Statuses /\ waiting[j] \in Nat
  BY <1>1
<1>3. worker[j] # "loop" => \A r \in AuditRecords : batch[j][r] = "none"
  BY <1>1 DEF BatchFits
<1>4. CASE EndLoop(j)
  <2>1. /\ worker[j] = "loop" /\ \A r \in AuditRecords : batch[j][r] = "none"
        /\ Flagged(j) \/ Pending(j) = {}
        /\ UNCHANGED <<database, waiting, batch, call, resumes, history>>
    BY <1>4 DEF EndLoop, AtLoop, InBatch
  <2>2. CASE TakeCancel(j)
    BY <2>1, <2>2, TakeCancelFits
  <2>3. CASE TakePause(j)
    BY <2>1, <2>3, TakePauseFits
  <2>4. CASE ~Flagged(j) /\ GoesTo(j, "publish") /\ UNCHANGED <<flags, accum>>
    <3>1. /\ worker' = [worker EXCEPT ![j] = "publish"] /\ worker'[j] = "publish"
          /\ status' = status /\ waiting' = waiting /\ status[j] # "none"
          /\ UNCHANGED <<item, published, flags, batch, accum, call, wish, discarded>>
      BY <1>1, <2>1, <2>4, WorkerIsThere DEF GoesTo, database, history
    <3>2. Settled(j)
      BY <1>1, <2>1, <2>4 DEF Settled, Pending, BatchFits
    <3>3. EndFits(j)'
      BY <1>1, <2>1, <3>1, <3>2 DEF EndFits, Settled
    <3>4. Stopped(j) => Stopped(j)'
      BY <2>1, <2>4 DEF Stopped, Flagged
    <3> QED
      BY <1>2, <2>1, <3>1, <3>3, <3>4, StepFits DEF WorkerSteps
  <2> QED  BY <1>4, <2>2, <2>3, <2>4 DEF EndLoop
<1>5. CASE WritePaused(j)
  <2>1. /\ worker' = [worker EXCEPT ![j] = "idle"] /\ worker'[j] = "idle" /\ worker[j] = "pausing"
        /\ status' = [status EXCEPT ![j] = "paused"] /\ status'[j] = "paused"
        /\ waiting' = waiting
        /\ UNCHANGED <<item, published, flags, batch, accum, call, wish, discarded>>
    BY <1>1, <1>5 DEF WritePaused, GoesTo, history
  <2>2. EndFits(j)'
    BY <2>1 DEF EndFits
  <2>3. Stopped(j) => Stopped(j)'
    BY <2>1 DEF Stopped, flags
  <2> QED
    BY <1>2, <1>3, <2>1, <2>2, <2>3, StepFits DEF WorkerSteps, Statuses, Active
<1>6. CASE WriteCancelled(j)
  <2>1. /\ worker' = [worker EXCEPT ![j] = "idle"] /\ worker'[j] = "idle" /\ worker[j] = "cancelling"
        /\ status' = [status EXCEPT ![j] = "cancelled"] /\ status'[j] = "cancelled"
        /\ waiting' = waiting
        /\ UNCHANGED <<item, published, flags, batch, accum, call, wish, discarded>>
    BY <1>1, <1>6 DEF WriteCancelled, GoesTo, history
  <2>2. EndFits(j)'
    BY <2>1 DEF EndFits
  <2>3. Stopped(j)'
    BY <2>1 DEF Stopped, Terminal
  <2> QED
    BY <1>2, <1>3, <2>1, <2>2, <2>3, StepFits DEF WorkerSteps, Statuses, Terminal
<1>7. CASE Publish(j)
  <2>1. /\ worker' = [worker EXCEPT ![j] = "complete"] /\ worker'[j] = "complete"
        /\ worker[j] = "publish" /\ published' = [published EXCEPT ![j] = @ \cup accum[j]]
        /\ cancelled' = cancelled /\ paused' = paused /\ accum' = accum
        /\ status' = status /\ item' = item /\ waiting' = waiting
        /\ batch' = batch /\ call' = call /\ wish' = wish /\ discarded' = discarded
    BY <1>1, <1>7 DEF Publish, GoesTo, flags, history
  <2>2. /\ published'[j] = published[j] \cup accum[j]
        /\ \A k \in Jobs : k # j => SameJob(k)
    BY <1>1, <2>1 DEF SameJob
  <2>3. JobTypes'
    BY <1>1, <2>1 DEF JobTypes, WorkerSteps
  <2>4. BatchFits(j)' /\ Gathered(j)'
    BY <1>1, <1>3, <2>1, <2>2 DEF BatchFits, Gathered
  <2>5. EndFits(j)'
    BY <1>1, <2>1, <2>2 DEF EndFits, Settled, InPackages, Gathered
  <2>6. NewFits(j)' /\ \A ops : Calling(ops, j)' <=> Calling(ops, j)
    BY <2>1, WorkerIsThere, NewStays
  <2>7. CancelFits(j)'
    BY <1>1, <2>1, <2>6 DEF JobFits, CancelFits, Stopped
  <2> QED
    BY <2>1, <2>2, <2>3, <2>4, <2>5, <2>6, <2>7, WorkFrame DEF JobFits
<1>8. CASE Complete(j)
  <2>1. /\ worker' = [worker EXCEPT ![j] = "idle"] /\ worker'[j] = "idle"
        /\ worker[j] = "complete" /\ accum' = [accum EXCEPT ![j] = {}]
        /\ status' = [status EXCEPT ![j] = "completed"] /\ status'[j] = "completed"
        /\ cancelled' = cancelled /\ paused' = paused /\ published' = published
        /\ item' = item /\ waiting' = waiting
        /\ batch' = batch /\ call' = call /\ wish' = wish /\ discarded' = discarded
    BY <1>1, <1>8 DEF Complete, GoesTo, flags, history
  <2>2. /\ accum'[j] = {} /\ \A k \in Jobs : k # j => SameJob(k)
    BY <1>1, <2>1 DEF SameJob
  <2>3. JobTypes'
    BY <1>1, <2>1 DEF JobTypes, WorkerSteps, Statuses, Terminal
  <2>4. Settled(j) /\ InPackages(j)
    BY <1>1, <2>1 DEF EndFits
  <2>5. BatchFits(j)' /\ Gathered(j)'
    BY <1>1, <1>3, <2>1, <2>2, <2>4 DEF BatchFits, Gathered, InPackages
  <2>6. EndFits(j)'
    BY <2>1, <2>4 DEF EndFits, Settled, InPackages
  <2>7. NewFits(j)' /\ \A ops : Calling(ops, j)' <=> Calling(ops, j)
    BY <2>1, WorkerIsThere, NewStays
  <2>8. CancelFits(j)'
    BY <1>1, <2>1, <2>7 DEF JobFits, CancelFits, Stopped
  <2> QED
    BY <2>1, <2>2, <2>3, <2>5, <2>6, <2>7, <2>8, WorkFrame DEF JobFits
<1> QED
  BY <1>4, <1>5, <1>6, <1>7, <1>8

\* An item of the batch, and the choice of the batch: the worker is in its loop.
LEMMA ItemFits ==
  ASSUME JobInv, NEW j \in Jobs, worker[j] = "loop",
         \A k \in Jobs : k # j => /\ item'[k] = item[k] /\ batch'[k] = batch[k]
                                  /\ accum'[k] = accum[k],
         item' \in [Jobs -> [AuditRecords -> ItemStatuses]],
         batch' \in [Jobs -> [AuditRecords -> BatchSteps]],
         accum' \in [Jobs -> SUBSET AuditRecords],
         UNCHANGED <<status, published, flags, worker, waiting, call, history>>,
         \A r \in AuditRecords : item'[j][r] = "processing" => batch'[j][r] \in {"analysing", "inserted"},
         Gathered(j)'
  PROVE  JobInv'
<1>1. /\ JobTypes /\ JobFits(j) /\ status[j] # "none" /\ ~Calling(Creating, j)
  BY WorkerIsThere DEF JobInv
<1>2. /\ cancelled' = cancelled /\ paused' = paused /\ worker' = worker /\ waiting' = waiting
      /\ status' = status /\ published' = published
      /\ call' = call /\ wish' = wish /\ discarded' = discarded
  BY DEF flags, history
<1>3. JobTypes' /\ \A k \in Jobs : k # j => SameJob(k)
  BY <1>1, <1>2 DEF JobTypes, SameJob
<1>4. BatchFits(j)'
  BY <1>2 DEF BatchFits
<1>5. EndFits(j)'
  BY <1>1, <1>2 DEF JobFits, EndFits
<1>6. NewFits(j)' /\ \A ops : Calling(ops, j)' <=> Calling(ops, j)
  BY <1>1, <1>2, NewStays
<1>7. CancelFits(j)'
  BY <1>1, <1>2, <1>6 DEF JobFits, CancelFits, Stopped
<1> QED
  BY <1>2, <1>3, <1>4, <1>5, <1>6, <1>7, WorkFrame DEF JobFits

LEMMA ItemSteps ==
  ASSUME JobInv, NEW j \in Jobs, SelectBatch(j) \/ \E r \in AuditRecords : Items(j, r)
  PROVE  JobInv'
<1>1. /\ item \in [Jobs -> [AuditRecords -> ItemStatuses]]
      /\ batch \in [Jobs -> [AuditRecords -> BatchSteps]]
      /\ accum \in [Jobs -> SUBSET AuditRecords]
      /\ BatchFits(j) /\ Gathered(j)
  BY DEF JobInv, JobTypes, JobFits
<1>2. CASE SelectBatch(j)
  <2>1. /\ worker[j] = "loop" /\ \A r \in AuditRecords : batch[j][r] = "none"
        /\ item' = item /\ accum' = accum /\ published' = published /\ discarded' = discarded
        /\ UNCHANGED <<status, published, flags, worker, waiting, call, history>>
    BY <1>2 DEF SelectBatch, AtLoop, InBatch, database, history
  <2>2. PICK b \in SUBSET Pending(j) :
          batch' = [batch EXCEPT ![j] = [r \in AuditRecords |-> IF r \in b THEN "chosen" ELSE "none"]]
    BY <1>2 DEF SelectBatch
  <2>3. /\ batch' \in [Jobs -> [AuditRecords -> BatchSteps]]
        /\ \A k \in Jobs : k # j => batch'[k] = batch[k]
        /\ \A r \in AuditRecords : batch'[j][r] \in {"chosen", "none"}
    BY <1>1, <2>2 DEF BatchSteps
  <2>4. Gathered(j)'
    BY <1>1, <2>1, <2>3 DEF Gathered
  <2>5. \A r \in AuditRecords : item'[j][r] # "processing"
    BY <1>1, <2>1 DEF BatchFits
  <2> QED
    BY <1>1, <2>1, <2>3, <2>4, <2>5, ItemFits
<1>3. ASSUME NEW r \in AuditRecords, Items(j, r)
      PROVE  JobInv'
  <2>1. /\ batch[j][r] # "none" /\ published' = published /\ discarded' = discarded
        /\ UNCHANGED <<status, published, flags, worker, waiting, call, history>>
    BY <1>3 DEF Items, ItemBegin, ItemDropped, ItemLearned, ItemMarked, history
  <2>2. worker[j] = "loop"
    BY <1>1, <2>1 DEF BatchFits
  <2>3. CASE ItemBegin(j, r)
    <3>1. CASE Flagged(j)
      <4>1. item' = item /\ accum' = accum /\ batch' = [batch EXCEPT ![j][r] = "none"]
        BY <2>3, <3>1 DEF ItemBegin, ToStep
      <4>2. /\ batch' \in [Jobs -> [AuditRecords -> BatchSteps]]
            /\ \A k \in Jobs : k # j => batch'[k] = batch[k]
            /\ batch'[j] = [batch[j] EXCEPT ![r] = "none"]
        BY <1>1, <4>1 DEF BatchSteps
      <4>3. batch[j] \in [AuditRecords -> BatchSteps] /\ batch[j][r] = "chosen"
        BY <1>1, <2>3 DEF ItemBegin
      <4>4. \A rec \in AuditRecords : item'[j][rec] = "processing" => batch'[j][rec] \in {"analysing", "inserted"}
        BY <1>1, <4>1, <4>2, <4>3 DEF BatchFits
      <4>5. Gathered(j)'
        BY <1>1, <2>1, <4>1, <4>2, <4>3 DEF Gathered
      <4> QED  BY <1>1, <2>1, <2>2, <4>1, <4>2, <4>4, <4>5, ItemFits
    <3>2. CASE ~Flagged(j)
      <4>1. /\ item' = [item EXCEPT ![j][r] = "processing"] /\ accum' = accum
            /\ batch' = [batch EXCEPT ![j][r] = "analysing"]
        BY <2>3, <3>2 DEF ItemBegin, ToStep, Marks
      <4>2. /\ batch' \in [Jobs -> [AuditRecords -> BatchSteps]]
            /\ item' \in [Jobs -> [AuditRecords -> ItemStatuses]]
            /\ \A k \in Jobs : k # j => batch'[k] = batch[k] /\ item'[k] = item[k]
            /\ batch'[j] = [batch[j] EXCEPT ![r] = "analysing"]
            /\ item'[j] = [item[j] EXCEPT ![r] = "processing"]
        BY <1>1, <4>1 DEF BatchSteps, ItemStatuses
      <4>3. batch[j] \in [AuditRecords -> BatchSteps] /\ item[j] \in [AuditRecords -> ItemStatuses]
        BY <1>1
      <4>4. \A rec \in AuditRecords : item'[j][rec] = "processing" => batch'[j][rec] \in {"analysing", "inserted"}
        BY <1>1, <4>2, <4>3 DEF BatchFits
      <4>5. Gathered(j)'
        BY <1>1, <2>1, <4>1, <4>2, <4>3 DEF Gathered
      <4> QED  BY <1>1, <2>1, <2>2, <4>1, <4>2, <4>4, <4>5, ItemFits
    <3> QED  BY <3>1, <3>2
  <2>4. CASE ItemDropped(j, r)
    <3>1. PICK s \in {"skipped", "failed"} : item' = [item EXCEPT ![j][r] = s]
      BY <2>4 DEF ItemDropped, Marks
    <3>2. accum' = accum /\ batch' = [batch EXCEPT ![j][r] = "none"]
      BY <2>4 DEF ItemDropped, ToStep
    <3>3. /\ batch' \in [Jobs -> [AuditRecords -> BatchSteps]]
          /\ item' \in [Jobs -> [AuditRecords -> ItemStatuses]]
          /\ \A k \in Jobs : k # j => batch'[k] = batch[k] /\ item'[k] = item[k]
          /\ batch'[j] = [batch[j] EXCEPT ![r] = "none"]
          /\ item'[j] = [item[j] EXCEPT ![r] = s]
      BY <1>1, <3>1, <3>2 DEF BatchSteps, ItemStatuses
    <3>4. batch[j] \in [AuditRecords -> BatchSteps] /\ item[j] \in [AuditRecords -> ItemStatuses]
      BY <1>1
    <3>5. \A rec \in AuditRecords : item'[j][rec] = "processing" => batch'[j][rec] \in {"analysing", "inserted"}
      BY <1>1, <3>3, <3>4 DEF BatchFits
    <3>6. Gathered(j)'
      BY <1>1, <2>1, <3>2, <3>3, <3>4 DEF Gathered
    <3> QED  BY <1>1, <2>1, <2>2, <3>2, <3>3, <3>5, <3>6, ItemFits
  <2>5. CASE ItemLearned(j, r)
    <3>1. accum' = [accum EXCEPT ![j] = accum[j] \cup {r}]
      BY <1>1, <2>5 DEF ItemLearned
    <3>2. /\ accum' \in [Jobs -> SUBSET AuditRecords] /\ accum'[j] = accum[j] \cup {r}
          /\ \A k \in Jobs : k # j => accum'[k] = accum[k]
      BY <1>1, <3>1
    <3>3. batch[j] \in [AuditRecords -> BatchSteps] /\ item[j] \in [AuditRecords -> ItemStatuses]
      BY <1>1
    <3>4. CASE r \in learned
      <4>1. item' = [item EXCEPT ![j][r] = "failed"] /\ batch' = [batch EXCEPT ![j][r] = "none"]
        BY <2>5, <3>4 DEF ItemLearned, ToStep, Marks
      <4>2. /\ batch' \in [Jobs -> [AuditRecords -> BatchSteps]]
            /\ item' \in [Jobs -> [AuditRecords -> ItemStatuses]]
            /\ \A k \in Jobs : k # j => batch'[k] = batch[k] /\ item'[k] = item[k]
            /\ batch'[j] = [batch[j] EXCEPT ![r] = "none"]
            /\ item'[j] = [item[j] EXCEPT ![r] = "failed"]
        BY <1>1, <4>1 DEF BatchSteps, ItemStatuses
      <4>3. \A rec \in AuditRecords : item'[j][rec] = "processing" => batch'[j][rec] \in {"analysing", "inserted"}
        BY <1>1, <3>3, <4>2 DEF BatchFits
      <4>4. Gathered(j)'
        BY <1>1, <2>1, <3>2, <3>3, <4>2 DEF Gathered
      <4> QED  BY <2>1, <2>2, <3>2, <4>2, <4>3, <4>4, ItemFits
    <3>5. CASE r \notin learned
      <4>1. item' = item /\ batch' = [batch EXCEPT ![j][r] = "inserted"]
        BY <2>5, <3>5 DEF ItemLearned, ToStep
      <4>2. /\ batch' \in [Jobs -> [AuditRecords -> BatchSteps]]
            /\ \A k \in Jobs : k # j => batch'[k] = batch[k]
            /\ batch'[j] = [batch[j] EXCEPT ![r] = "inserted"]
        BY <1>1, <4>1 DEF BatchSteps
      <4>3. \A rec \in AuditRecords : item'[j][rec] = "processing" => batch'[j][rec] \in {"analysing", "inserted"}
        BY <1>1, <3>3, <4>1, <4>2 DEF BatchFits
      <4>4. Gathered(j)'
        BY <1>1, <2>1, <3>2, <3>3, <4>1, <4>2 DEF Gathered
      <4> QED  BY <1>1, <2>1, <2>2, <3>2, <4>1, <4>2, <4>3, <4>4, ItemFits
    <3> QED  BY <3>4, <3>5
  <2>6. CASE ItemMarked(j, r)
    <3>1. /\ item' = [item EXCEPT ![j][r] = "learned"] /\ batch' = [batch EXCEPT ![j][r] = "none"]
          /\ accum' = accum /\ batch[j][r] = "inserted"
      BY <2>6 DEF ItemMarked, ToStep, Marks
    <3>3. /\ batch' \in [Jobs -> [AuditRecords -> BatchSteps]]
          /\ item' \in [Jobs -> [AuditRecords -> ItemStatuses]]
          /\ \A k \in Jobs : k # j => batch'[k] = batch[k] /\ item'[k] = item[k]
          /\ batch'[j] = [batch[j] EXCEPT ![r] = "none"]
          /\ item'[j] = [item[j] EXCEPT ![r] = "learned"]
      BY <1>1, <3>1 DEF BatchSteps, ItemStatuses
    <3>4. batch[j] \in [AuditRecords -> BatchSteps] /\ item[j] \in [AuditRecords -> ItemStatuses]
      BY <1>1
    <3>5. \A rec \in AuditRecords : item'[j][rec] = "processing" => batch'[j][rec] \in {"analysing", "inserted"}
      BY <1>1, <3>3, <3>4 DEF BatchFits
    <3>6. Gathered(j)'
      BY <1>1, <2>1, <3>1, <3>3, <3>4 DEF Gathered
    <3> QED  BY <1>1, <2>1, <2>2, <3>1, <3>3, <3>5, <3>6, ItemFits
  <2> QED  BY <1>3, <2>3, <2>4, <2>5, <2>6 DEF Items
<1> QED
  BY <1>2, <1>3

-----------------------------------------------------------------------------
LEMMA TheCall ==
  ASSUME OneCall, NEW c \in Controllers, NEW j \in Jobs
  PROVE  \A ops : Calling(ops, j) <=> call[c].op \in ops /\ call[c].job = j
BY DEF OneCall, Calling

\* After a step of c, nothing else is being called.
LEMMA NextCall ==
  ASSUME OneCall, NEW c \in Controllers, NEW j \in Jobs
  PROVE  /\ Calling(Creating, j)' <=> call'[c].op \in Creating /\ call'[c].job = j
         /\ Calling({"create select", "create insert"}, j)' <=>
                call'[c].op \in {"create select", "create insert"} /\ call'[c].job = j
         /\ Calling({"create items"}, j)' <=> call'[c].op = "create items" /\ call'[c].job = j
         /\ Calling({"resume items"}, j)' <=> call'[c].op = "resume items" /\ call'[c].job = j
         /\ Calling({"resume write", "resume items"}, j)' <=>
                call'[c].op \in {"resume write", "resume items"} /\ call'[c].job = j
         /\ Calling({"cancel write"}, j)' <=> call'[c].op = "cancel write" /\ call'[c].job = j
BY DEF OneCall, Calling, Creating

\* A step of the call c about j, after which j still fits, keeps all of them.
LEMMA CallFrame ==
  ASSUME JobInv, OneCall, NEW c \in Controllers, NEW j \in Jobs, JobTypes', JobFits(j)',
         call[c].op = "none" \/ call[c].job = j, call'[c].op = "none" \/ call'[c].job = j,
         \A k \in Jobs : k # j => SameJob(k)
  PROVE  JobInv'
<1>1. ASSUME NEW k \in Jobs, k # j PROVE JobFits(k)'
  <2>1. JobFits(k) /\ SameJob(k)
    BY <1>1 DEF JobInv
  <2>2. \A d \in Controllers : d = c
    BY DEF OneCall
  <2> QED  BY <1>1, <2>1, <2>2, OthersFit
<1> QED
  BY <1>1 DEF JobInv

LEMMA CallSteps1 ==
  ASSUME JobInv, OneCall, NEW c \in Controllers, NEW j \in Jobs,
         CreateSelect(c, j) \/ CreateInsert(c, j)
  PROVE  JobInv'
<1>1. /\ JobTypes /\ JobFits(j) /\ BatchFits(j) /\ Gathered(j) /\ EndFits(j) /\ NewFits(j) /\ CancelFits(j)
      /\ call \in [Controllers -> [op : CallSteps, job : Jobs, chosen : SUBSET AuditRecords]]
      /\ status \in [Jobs -> Statuses]
  BY DEF JobInv, JobTypes, JobFits
<1>2. /\ call[c].op \in {"create select", "create insert"} /\ call[c].job = j
      /\ UNCHANGED <<item, published, flags, workerVars, history>>
  BY DEF CreateSelect, CreateInsert, In
<1>3. /\ status[j] = "none" /\ worker[j] = "idle" /\ waiting[j] = 0 /\ wish[j] = "run"
      /\ \A r \in AuditRecords : item[j][r] = "none"
  BY <1>1, <1>2, TheCall DEF NewFits
<1>4. /\ cancelled' = cancelled /\ paused' = paused /\ worker' = worker /\ waiting' = waiting
      /\ item' = item /\ published' = published /\ batch' = batch /\ accum' = accum
      /\ wish' = wish /\ discarded' = discarded
  BY <1>2 DEF flags, workerVars, history
<1>5. NoCall.op = "none" /\ NoCall \in [op : CallSteps, job : Jobs, chosen : SUBSET AuditRecords]
  BY JobsAssumption DEF NoCall, CallSteps
<1>6. ASSUME NEW s \in {"none", "pending", "completed"}, status' = [status EXCEPT ![j] = s],
             call' \in [Controllers -> [op : CallSteps, job : Jobs, chosen : SUBSET AuditRecords]],
             \/ call'[c].op = "none" /\ s = "completed"
             \/ call'[c].op = "create insert" /\ call'[c].job = j /\ s = "none"
             \/ call'[c].op = "create items" /\ call'[c].job = j /\ s = "pending"
      PROVE  JobInv'
  <2>1. status'[j] = s /\ \A k \in Jobs : k # j => SameJob(k)
    BY <1>1, <1>4, <1>6 DEF SameJob
  <2>2. JobTypes'
    BY <1>1, <1>4, <1>6 DEF JobTypes, Statuses, Active, Terminal
  <2>3. BatchFits(j)' /\ Gathered(j)'
    BY <1>1, <1>4 DEF BatchFits, Gathered
  <2>4. EndFits(j)'
    BY <1>1, <1>3, <1>4, <2>1 DEF EndFits, Settled, InPackages
  <2>5. /\ ~Calling({"create items"}, j)' \/ s = "pending"
        /\ ~Calling({"create select", "create insert"}, j)' \/ s = "none"
        /\ ~Calling({"resume items"}, j)'
    BY <1>6, NextCall
  <2>6. NewFits(j)'
    BY <1>3, <1>4, <2>1, <2>5 DEF NewFits
  <2>7. ~Calling({"resume write", "resume items"}, j)' /\ ~Calling({"cancel write"}, j)'
    BY <1>6, NextCall
  <2>8. CancelFits(j)'
    BY <1>1, <1>3, <1>4, <2>7 DEF CancelFits
  <2>9. call[c].job = j /\ (call'[c].op = "none" \/ call'[c].job = j)
    BY <1>2, <1>6
  <2> QED
    BY <2>1, <2>2, <2>3, <2>4, <2>6, <2>8, <2>9, CallFrame DEF JobFits
<1>7. CASE CreateSelect(c, j)
  <2>1. PICK kept \in {learned, {}} :
          call' = [call EXCEPT ![c].op = "create insert", ![c].chosen = AuditRecords \ kept]
    BY <1>7 DEF CreateSelect
  <2>2. /\ call' \in [Controllers -> [op : CallSteps, job : Jobs, chosen : SUBSET AuditRecords]]
        /\ call'[c].op = "create insert" /\ call'[c].job = j
    BY <1>1, <1>2, <2>1 DEF CallSteps
  <2>3. status' = [status EXCEPT ![j] = "none"]
    BY <1>1, <1>3, <1>7 DEF CreateSelect
  <2> QED  BY <1>6, <2>2, <2>3
<1>8. CASE CreateInsert(c, j)
  <2>1. CASE call[c].chosen = {}
    <3>1. status' = [status EXCEPT ![j] = "completed"] /\ call' = [call EXCEPT ![c] = NoCall]
      BY <1>8, <2>1 DEF CreateInsert, Returns
    <3>2. /\ call' \in [Controllers -> [op : CallSteps, job : Jobs, chosen : SUBSET AuditRecords]]
          /\ call'[c].op = "none"
      BY <1>1, <1>5, <3>1
    <3> QED  BY <1>6, <3>1, <3>2
  <2>2. CASE call[c].chosen # {}
    <3>1. status' = [status EXCEPT ![j] = "pending"] /\ call' = [call EXCEPT ![c].op = "create items"]
      BY <1>8, <2>2 DEF CreateInsert
    <3>2. /\ call' \in [Controllers -> [op : CallSteps, job : Jobs, chosen : SUBSET AuditRecords]]
          /\ call'[c].op = "create items" /\ call'[c].job = j
      BY <1>1, <1>2, <3>1 DEF CallSteps
    <3> QED  BY <1>6, <3>1, <3>2
  <2> QED  BY <2>1, <2>2
<1> QED
  BY <1>7, <1>8

\* A worker is started, or chained behind the one that is there.
LEMMA StartsOne ==
  ASSUME JobTypes, NEW j \in Jobs, StartWorker(j)
  PROVE  /\ worker' \in [Jobs -> WorkerSteps] /\ waiting' \in [Jobs -> Nat]
         /\ \A k \in Jobs : k # j => worker'[k] = worker[k] /\ waiting'[k] = waiting[k]
         /\ worker'[j] = worker[j] \/ (worker[j] = "idle" /\ worker'[j] = "start")
<1>1. worker \in [Jobs -> WorkerSteps] /\ waiting \in [Jobs -> Nat]
  BY DEF JobTypes
<1>2. CASE HasWorker(j)
  BY <1>1, <1>2 DEF StartWorker
<1>3. CASE ~HasWorker(j)
  BY <1>1, <1>3 DEF StartWorker, HasWorker, WorkerSteps
<1> QED
  BY <1>2, <1>3

LEMMA NoCallFits ==
  NoCall.op = "none" /\ NoCall \in [op : CallSteps, job : Jobs, chosen : SUBSET AuditRecords]
BY JobsAssumption DEF NoCall, CallSteps

LEMMA CallSteps2 ==
  ASSUME JobInv, OneCall, NEW c \in Controllers,
         Create(c) \/ \E j \in Jobs : CreateItems(c, j) \/ ResumeItems(c, j)
  PROVE  JobInv'
<1>1. /\ JobTypes
      /\ call \in [Controllers -> [op : CallSteps, job : Jobs, chosen : SUBSET AuditRecords]]
      /\ item \in [Jobs -> [AuditRecords -> ItemStatuses]]
  BY DEF JobInv, JobTypes
<1>2. CASE Create(c)
  <2>1. PICK j \in Jobs : status[j] = "none" /\ Goes(c, "create select", j)
    BY <1>2 DEF Create
  <2>2. JobFits(j) /\ BatchFits(j) /\ Gathered(j) /\ EndFits(j) /\ NewFits(j) /\ CancelFits(j)
    BY DEF JobInv, JobFits
  <2>3. /\ cancelled' = cancelled /\ paused' = paused /\ worker' = worker /\ waiting' = waiting
        /\ item' = item /\ published' = published /\ batch' = batch /\ accum' = accum
        /\ wish' = wish /\ discarded' = discarded /\ status' = status /\ call[c].op = "none"
    BY <1>2 DEF Create, Free, database, flags, workerVars, history
  <2>4. /\ call' \in [Controllers -> [op : CallSteps, job : Jobs, chosen : SUBSET AuditRecords]]
        /\ call'[c].op = "create select" /\ call'[c].job = j
    BY <1>1, <2>1 DEF Goes, CallSteps
  <2>5. JobTypes' /\ \A k \in Jobs : k # j => SameJob(k)
    BY <1>1, <2>3, <2>4 DEF JobTypes, SameJob
  <2>6. BatchFits(j)' /\ Gathered(j)' /\ EndFits(j)'
    BY <2>2, <2>3 DEF BatchFits, Gathered, EndFits, Settled, InPackages
  <2>7. ~Calling({"create items"}, j)' /\ ~Calling({"resume items"}, j)'
    BY <2>4, NextCall
  <2>8. NewFits(j)' /\ wish[j] = "run"
    BY <2>1, <2>2, <2>3, <2>7 DEF NewFits
  <2>9. ~Calling({"resume write", "resume items"}, j)' /\ ~Calling({"cancel write"}, j)'
    BY <2>4, NextCall
  <2>10. CancelFits(j)'
    BY <2>2, <2>3, <2>8, <2>9 DEF CancelFits
  <2> QED
    BY <2>3, <2>4, <2>5, <2>6, <2>8, <2>10, CallFrame DEF JobFits
<1>3. ASSUME NEW j \in Jobs, CreateItems(c, j)
      PROVE  JobInv'
  <2>1. JobFits(j) /\ BatchFits(j) /\ Gathered(j) /\ EndFits(j) /\ NewFits(j) /\ CancelFits(j)
    BY DEF JobInv, JobFits
  <2>2. /\ cancelled' = cancelled /\ paused' = paused /\ published' = published
        /\ batch' = batch /\ accum' = accum /\ wish' = wish /\ discarded' = discarded
        /\ status' = status /\ StartWorker(j) /\ call[c].op = "create items" /\ call[c].job = j
        /\ call' = [call EXCEPT ![c] = NoCall]
        /\ item' = [item EXCEPT ![j] =
                       [r \in AuditRecords |-> IF r \in call[c].chosen THEN "pending" ELSE "none"]]
    BY <1>3 DEF CreateItems, In, Returns, flags, history
  <2>3. Calling(Creating, j) /\ Calling({"create items"}, j)
    BY <2>2 DEF Calling, Creating
  <2>4. /\ status[j] = "pending" /\ worker[j] = "idle" /\ waiting[j] = 0 /\ wish[j] = "run"
    BY <2>1, <2>3 DEF NewFits
  <2>5. /\ call' \in [Controllers -> [op : CallSteps, job : Jobs, chosen : SUBSET AuditRecords]]
        /\ call'[c].op = "none"
    BY <1>1, <2>2, NoCallFits
  <2>6. /\ item' \in [Jobs -> [AuditRecords -> ItemStatuses]]
        /\ \A k \in Jobs : k # j => item'[k] = item[k]
        /\ \A r \in AuditRecords : item'[j][r] \in {"pending", "none"}
    BY <1>1, <2>2 DEF ItemStatuses
  <2>7. /\ worker' \in [Jobs -> WorkerSteps] /\ waiting' \in [Jobs -> Nat]
        /\ \A k \in Jobs : k # j => worker'[k] = worker[k] /\ waiting'[k] = waiting[k]
        /\ worker'[j] \in {"idle", "start"}
    BY <1>1, <2>2, <2>4, StartsOne
  <2>8. JobTypes' /\ \A k \in Jobs : k # j => SameJob(k)
    BY <1>1, <2>2, <2>5, <2>6, <2>7 DEF JobTypes, SameJob
  <2>9. \A r \in AuditRecords : batch'[j][r] = "none"
    BY <2>1, <2>2, <2>4 DEF BatchFits
  <2>10. BatchFits(j)' /\ Gathered(j)'
    BY <2>6, <2>9 DEF BatchFits, Gathered
  <2>11. EndFits(j)'
    BY <2>2, <2>4, <2>7 DEF EndFits
  <2>12. /\ ~Calling(Creating, j)' /\ ~Calling({"create select", "create insert"}, j)'
         /\ ~Calling({"create items"}, j)' /\ ~Calling({"resume items"}, j)'
    BY <2>5, NextCall DEF Creating
  <2>13. NewFits(j)'
    BY <2>2, <2>4, <2>12 DEF NewFits
  <2>14. ~Calling({"resume write", "resume items"}, j)' /\ ~Calling({"cancel write"}, j)'
    BY <2>5, NextCall
  <2>15. CancelFits(j)'
    BY <2>1, <2>2, <2>4, <2>14 DEF CancelFits
  <2> QED
    BY <2>2, <2>5, <2>8, <2>10, <2>11, <2>13, <2>15, CallFrame DEF JobFits
<1>4. ASSUME NEW j \in Jobs, ResumeItems(c, j)
      PROVE  JobInv'
  <2>1. JobFits(j) /\ BatchFits(j) /\ Gathered(j) /\ EndFits(j) /\ NewFits(j) /\ CancelFits(j)
    BY DEF JobInv, JobFits
  <2>2. /\ cancelled' = cancelled /\ paused' = paused /\ published' = published
        /\ batch' = batch /\ accum' = accum /\ wish' = wish /\ discarded' = discarded
        /\ status' = status /\ StartWorker(j) /\ call[c].op = "resume items" /\ call[c].job = j
        /\ call' = [call EXCEPT ![c] = NoCall]
        /\ item' = [item EXCEPT ![j] =
                 [r \in AuditRecords |-> IF item[j][r] = "processing" THEN "pending" ELSE item[j][r]]]
    BY <1>1, <1>4 DEF ResumeItems, In, Returns, flags, history
  <2>3. Calling({"resume write", "resume items"}, j) /\ Calling({"resume items"}, j)
    BY <2>2 DEF Calling
  <2>4. status[j] # "none" /\ wish[j] = "run"
    BY <2>1, <2>3 DEF NewFits, CancelFits
  <2>5. /\ call' \in [Controllers -> [op : CallSteps, job : Jobs, chosen : SUBSET AuditRecords]]
        /\ call'[c].op = "none"
    BY <1>1, <2>2, NoCallFits
  <2>6. /\ item' \in [Jobs -> [AuditRecords -> ItemStatuses]]
        /\ \A k \in Jobs : k # j => item'[k] = item[k]
        /\ \A r \in AuditRecords :
              \/ item[j][r] = "processing" /\ item'[j][r] = "pending"
              \/ item[j][r] # "processing" /\ item'[j][r] = item[j][r]
    BY <1>1, <2>2 DEF ItemStatuses
  <2>7. /\ worker' \in [Jobs -> WorkerSteps] /\ waiting' \in [Jobs -> Nat]
        /\ \A k \in Jobs : k # j => worker'[k] = worker[k] /\ waiting'[k] = waiting[k]
        /\ worker'[j] = worker[j] \/ (worker[j] = "idle" /\ worker'[j] = "start")
    BY <1>1, <2>2, StartsOne
  <2>8. JobTypes' /\ \A k \in Jobs : k # j => SameJob(k)
    BY <1>1, <2>2, <2>5, <2>6, <2>7 DEF JobTypes, SameJob
  <2>9. BatchFits(j)'
    BY <2>1, <2>2, <2>6, <2>7 DEF BatchFits
  <2>10. Gathered(j)'
    BY <2>1, <2>2, <2>6 DEF Gathered
  <2>11. Settled(j) => Settled(j)'
    BY <2>6 DEF Settled
  <2>12. InPackages(j) => InPackages(j)'
    BY <2>2, <2>6 DEF InPackages
  <2>13. EndFits(j)'
    BY <2>1, <2>2, <2>7, <2>11, <2>12 DEF EndFits
  <2>14. /\ ~Calling(Creating, j)' /\ ~Calling({"create select", "create insert"}, j)'
         /\ ~Calling({"create items"}, j)' /\ ~Calling({"resume items"}, j)'
    BY <2>5, NextCall DEF Creating
  <2>15. NewFits(j)'
    BY <2>2, <2>4, <2>14 DEF NewFits
  <2>16. ~Calling({"resume write", "resume items"}, j)' /\ ~Calling({"cancel write"}, j)'
    BY <2>5, NextCall
  <2>17. CancelFits(j)'
    BY <2>1, <2>2, <2>4, <2>16 DEF CancelFits
  <2> QED
    BY <2>2, <2>5, <2>8, <2>9, <2>10, <2>13, <2>15, <2>17, CallFrame DEF JobFits
<1> QED
  BY <1>2, <1>3, <1>4

LEMMA CallSteps3 ==
  ASSUME JobInv, OneCall, NEW c \in Controllers, NEW j \in Jobs,
         Pause(c, j) \/ PauseWrite(c, j) \/ Resume(c, j) \/ ResumeWrite(c, j)
  PROVE  JobInv'
<1>1. /\ JobTypes /\ JobFits(j) /\ BatchFits(j) /\ Gathered(j) /\ EndFits(j) /\ NewFits(j) /\ CancelFits(j)
      /\ call \in [Controllers -> [op : CallSteps, job : Jobs, chosen : SUBSET AuditRecords]]
      /\ status \in [Jobs -> Statuses] /\ wish \in [Jobs -> {"run", "pause", "cancel"}]
  BY DEF JobInv, JobTypes, JobFits
<1>2. /\ item' = item /\ published' = published /\ worker' = worker /\ waiting' = waiting
      /\ batch' = batch /\ accum' = accum /\ discarded' = discarded
  BY DEF Pause, PauseWrite, Resume, ResumeWrite, database, workerVars, history
\* What remains to be seen when the call is no longer one that creates or cancels.
<1>3. ASSUME NEW s \in {"pending", "running", "paused"}, status' = [status EXCEPT ![j] = s],
             NEW w \in {"run", "pause", "cancel"}, wish' = [wish EXCEPT ![j] = w],
             call' \in [Controllers -> [op : CallSteps, job : Jobs, chosen : SUBSET AuditRecords]],
             call[c].op = "none" \/ call[c].job = j, call'[c].op = "none" \/ call'[c].job = j,
             call'[c].op \in {"none", "pause write", "resume write", "resume items"},
             call'[c].op \in {"resume write", "resume items"} => w = "run",
             cancelled' \subseteq cancelled, paused' \subseteq paused \cup {j},
             \A k \in Jobs : k # j => /\ k \in cancelled' <=> k \in cancelled
                                      /\ k \in paused' <=> k \in paused,
             w = "cancel" => Stopped(j)'
      PROVE  JobInv'
  <2>1. status'[j] = s /\ wish'[j] = w /\ \A k \in Jobs : k # j => SameJob(k)
    BY <1>1, <1>2, <1>3 DEF SameJob
  <2>2. JobTypes'
    BY <1>1, <1>2, <1>3 DEF JobTypes, Statuses, Active
  <2>3. BatchFits(j)' /\ Gathered(j)'
    BY <1>1, <1>2 DEF BatchFits, Gathered
  <2>4. EndFits(j)'
    BY <1>1, <1>2, <2>1 DEF EndFits, Settled, InPackages
  <2>5. /\ ~Calling(Creating, j)' /\ ~Calling({"create select", "create insert"}, j)'
        /\ ~Calling({"create items"}, j)'
    BY <1>3, NextCall DEF Creating
  <2>6. NewFits(j)'
    BY <2>1, <2>5 DEF NewFits
  <2>7. /\ Calling({"resume write", "resume items"}, j)' => w = "run"
        /\ ~Calling({"cancel write"}, j)'
    BY <1>3, NextCall
  <2>8. CancelFits(j)'
    BY <1>1, <1>2, <1>3, <2>1, <2>7 DEF CancelFits
  <2> QED
    BY <1>3, <2>1, <2>2, <2>3, <2>4, <2>6, <2>8, CallFrame DEF JobFits
<1>4. status = [status EXCEPT ![j] = status[j]] /\ wish = [wish EXCEPT ![j] = wish[j]]
  BY <1>1
<1>5. CASE Pause(c, j)
  <2>1. /\ call[c].op = "none" /\ status[j] \in {"pending", "running"}
        /\ status' = status /\ wish' = wish /\ cancelled' = cancelled
        /\ paused' = paused \cup {j} \/ paused' = paused \ {j}
    BY <1>5 DEF Pause, Free, database, history
  <2>2. /\ call' \in [Controllers -> [op : CallSteps, job : Jobs, chosen : SUBSET AuditRecords]]
        /\ call'[c].op = "pause write" /\ call'[c].job = j
    BY <1>1, <1>5 DEF Pause, Goes, CallSteps
  <2>3. wish[j] = "cancel" => Stopped(j)'
    <3>1. ~Calling({"cancel write"}, j)
      BY <2>1, TheCall
    <3>2. wish[j] = "cancel" => j \in cancelled \/ worker[j] = "cancelling"
      BY <1>1, <2>1, <3>1 DEF CancelFits, Stopped, Terminal
    <3> QED  BY <1>2, <2>1, <3>2 DEF Stopped
  <2>4. /\ paused' \subseteq paused \cup {j}
        /\ \A k \in Jobs : k # j => (k \in paused' <=> k \in paused)
    BY <2>1
  <2>5. wish[j] \in {"run", "pause", "cancel"}
    BY <1>1
  <2> QED
    BY <1>3, <1>4, <2>1, <2>2, <2>3, <2>4, <2>5
<1>6. CASE PauseWrite(c, j)
  <2>1. /\ call[c].job = j /\ status' = [status EXCEPT ![j] = "paused"]
        /\ wish' = [wish EXCEPT ![j] = "pause"]
        /\ cancelled' = cancelled /\ paused' = paused
        /\ call' = [call EXCEPT ![c] = NoCall]
    BY <1>6 DEF PauseWrite, In, Returns, flags
  <2>2. /\ call' \in [Controllers -> [op : CallSteps, job : Jobs, chosen : SUBSET AuditRecords]]
        /\ call'[c].op = "none"
    BY <1>1, <2>1, NoCallFits
  <2> QED
    BY <1>3, <2>1, <2>2
<1>7. CASE Resume(c, j)
  <2>1. /\ call[c].op = "none" /\ status[j] = "paused" /\ status' = status
        /\ wish' = [wish EXCEPT ![j] = "run"]
        /\ cancelled' = cancelled \ {j} /\ paused' = paused \ {j}
    BY <1>7 DEF Resume, Free, database
  <2>2. /\ call' \in [Controllers -> [op : CallSteps, job : Jobs, chosen : SUBSET AuditRecords]]
        /\ call'[c].op = "resume write" /\ call'[c].job = j
    BY <1>1, <1>7 DEF Resume, Goes, CallSteps
  <2>3. /\ cancelled' \subseteq cancelled /\ paused' \subseteq paused \cup {j}
        /\ \A k \in Jobs : k # j => (k \in cancelled' <=> k \in cancelled) /\ (k \in paused' <=> k \in paused)
    BY <2>1
  <2> QED
    BY <1>3, <1>4, <2>1, <2>2, <2>3
<1>8. CASE ResumeWrite(c, j)
  <2>1. /\ call[c].op = "resume write" /\ call[c].job = j
        /\ status' = [status EXCEPT ![j] = "pending"]
        /\ wish' = wish /\ cancelled' = cancelled /\ paused' = paused
    BY <1>8 DEF ResumeWrite, In, flags, history
  <2>2. /\ call' \in [Controllers -> [op : CallSteps, job : Jobs, chosen : SUBSET AuditRecords]]
        /\ call'[c].op = "resume items" /\ call'[c].job = j
    BY <1>1, <1>8 DEF ResumeWrite, Goes, CallSteps
  <2>3. wish[j] = "run"
    BY <1>1, <2>1 DEF CancelFits, Calling
  <2> QED
    BY <1>3, <1>4, <2>1, <2>2, <2>3
<1> QED
  BY <1>5, <1>6, <1>7, <1>8

LEMMA CallSteps4 ==
  ASSUME JobInv, OneCall, NEW c \in Controllers, NEW j \in Jobs, Cancel(c, j) \/ CancelWrite(c, j)
  PROVE  JobInv'
<1>1. /\ JobTypes /\ JobFits(j) /\ BatchFits(j) /\ Gathered(j) /\ EndFits(j) /\ NewFits(j) /\ CancelFits(j)
      /\ call \in [Controllers -> [op : CallSteps, job : Jobs, chosen : SUBSET AuditRecords]]
      /\ status \in [Jobs -> Statuses] /\ waiting \in [Jobs -> Nat]
      /\ accum \in [Jobs -> SUBSET AuditRecords]
  BY DEF JobInv, JobTypes, JobFits
<1>2. /\ item' = item /\ published' = published /\ worker' = worker /\ waiting' = waiting
      /\ batch' = batch
  BY DEF Cancel, CancelWrite, database, workerVars
<1>3. CASE Cancel(c, j)
  <2>1. /\ call[c].op = "none" /\ status[j] \in Active
        /\ status' = status /\ wish' = wish /\ paused' = paused \ {j}
        /\ cancelled' = IF HasWorker(j) THEN cancelled \cup {j} ELSE cancelled \ {j}
        /\ discarded' = discarded \cup {j}
    BY <1>3 DEF Cancel, Free, database
  <2>2. /\ call' \in [Controllers -> [op : CallSteps, job : Jobs, chosen : SUBSET AuditRecords]]
        /\ call'[c].op = "cancel write" /\ call'[c].job = j
    BY <1>1, <1>3 DEF Cancel, Goes, CallSteps
  <2>3. /\ accum' \in [Jobs -> SUBSET AuditRecords] /\ \A k \in Jobs : k # j => accum'[k] = accum[k]
    BY <1>1, <1>3 DEF Cancel
  <2>4. \A k \in Jobs : k # j => SameJob(k)
    BY <1>2, <2>1, <2>3 DEF SameJob
  <2>5. JobTypes'
    BY <1>1, <1>2, <2>1, <2>2, <2>3 DEF JobTypes
  <2>6. BatchFits(j)' /\ Gathered(j)'
    BY <1>1, <1>2, <2>1 DEF BatchFits, Gathered
  <2>7. EndFits(j)'
    BY <1>1, <1>2, <2>1 DEF EndFits, Settled, InPackages
  <2>8. /\ ~Calling(Creating, j)' /\ ~Calling({"create select", "create insert"}, j)'
        /\ ~Calling({"create items"}, j)' /\ ~Calling({"resume items"}, j)'
        /\ ~Calling({"resume write", "resume items"}, j)' /\ Calling({"cancel write"}, j)'
    BY <2>2, NextCall DEF Creating
  <2>9. NewFits(j)'
    BY <2>1, <2>8 DEF NewFits, Active
  <2>10. ASSUME HasWorker(j) PROVE Stopped(j)'
    BY <2>1, <2>10 DEF Stopped
  <2>11. ASSUME ~HasWorker(j) PROVE Stopped(j)'
    <3>1. worker'[j] = "idle" /\ waiting'[j] = 0
      BY <1>1, <1>2, <2>11 DEF HasWorker
    <3> QED  BY <2>8, <3>1 DEF Stopped
  <2>12. CancelFits(j)'
    <3>1. Stopped(j)'
      BY <2>10, <2>11
    <3>2. j \in discarded'
      BY <2>1
    <3> QED  BY <2>8, <3>1, <3>2 DEF CancelFits
  <2> QED
    BY <2>1, <2>2, <2>4, <2>5, <2>6, <2>7, <2>9, <2>12, CallFrame DEF JobFits
<1>4. CASE CancelWrite(c, j)
  <2>1. /\ call[c].op = "cancel write" /\ call[c].job = j
        /\ status' = [status EXCEPT ![j] = "cancelled"] /\ wish' = [wish EXCEPT ![j] = "cancel"]
        /\ cancelled' = cancelled /\ paused' = paused /\ accum' = accum /\ discarded' = discarded
        /\ call' = [call EXCEPT ![c] = NoCall]
    BY <1>4 DEF CancelWrite, In, Returns, flags, workerVars
  <2>2. /\ call' \in [Controllers -> [op : CallSteps, job : Jobs, chosen : SUBSET AuditRecords]]
        /\ call'[c].op = "none"
    BY <1>1, <2>1, NoCallFits
  <2>3. status'[j] = "cancelled" /\ \A k \in Jobs : k # j => SameJob(k)
    BY <1>1, <1>2, <2>1 DEF JobTypes, SameJob
  <2>4. JobTypes'
    BY <1>1, <1>2, <2>1, <2>2 DEF JobTypes, Statuses, Terminal
  <2>5. BatchFits(j)' /\ Gathered(j)'
    BY <1>1, <1>2, <2>1 DEF BatchFits, Gathered
  <2>6. EndFits(j)'
    BY <1>1, <1>2, <2>1, <2>3 DEF EndFits, Settled, InPackages
  <2>7. /\ ~Calling(Creating, j)' /\ ~Calling({"create select", "create insert"}, j)'
        /\ ~Calling({"create items"}, j)' /\ ~Calling({"resume items"}, j)'
        /\ ~Calling({"resume write", "resume items"}, j)'
    BY <2>2, NextCall DEF Creating
  <2>8. NewFits(j)'
    BY <2>3, <2>7 DEF NewFits
  <2>9. Stopped(j)'
    <3>1. Stopped(j)
      BY <1>1, <2>1 DEF CancelFits, Calling
    <3>2. status'[j] \in Terminal
      BY <2>3 DEF Terminal
    <3>3. /\ j \in cancelled => j \in cancelled'
          /\ worker'[j] = worker[j] /\ (j \notin paused => j \notin paused')
      BY <1>2, <2>1
    <3>4. \/ j \in cancelled \/ worker[j] = "cancelling"
          \/ worker[j] \in {"idle", "start", "read"} /\ (worker[j] = "start" => j \notin paused)
      BY <3>1 DEF Stopped
    <3> QED  BY <3>2, <3>3, <3>4 DEF Stopped
  <2>10. CancelFits(j)'
    BY <1>1, <2>1, <2>7, <2>9 DEF CancelFits
  <2> QED
    BY <2>1, <2>2, <2>3, <2>4, <2>5, <2>6, <2>8, <2>10, CallFrame DEF JobFits
<1> QED
  BY <1>3, <1>4

LEMMA JobStep == ASSUME JobInv, OneCall, [JobNext]_jobVars PROVE JobInv'
<1>1. CASE UNCHANGED jobVars
  <2>1. /\ status' = status /\ item' = item /\ published' = published
        /\ cancelled' = cancelled /\ paused' = paused /\ worker' = worker /\ waiting' = waiting
        /\ batch' = batch /\ accum' = accum /\ call' = call /\ wish' = wish /\ discarded' = discarded
    BY <1>1 DEF jobVars, database, flags, workerVars, history
  <2>2. JobTypes'
    BY <2>1 DEF JobInv, JobTypes
  <2>3. ASSUME NEW k \in Jobs PROVE JobFits(k)'
    <3>1. JobFits(k) /\ SameJob(k)
      BY <2>1 DEF JobInv, SameJob
    <3> QED  BY <2>1, <3>1, OthersFit
  <2> QED  BY <2>2, <2>3 DEF JobInv
<1>2. ASSUME NEW c \in Controllers, Create(c) PROVE JobInv'
  BY <1>2, CallSteps2
<1>3. ASSUME NEW c \in Controllers, NEW j \in Jobs, Control(c, j) PROVE JobInv'
  <2>1. CASE CreateSelect(c, j) \/ CreateInsert(c, j)
    BY <2>1, CallSteps1
  <2>2. CASE CreateItems(c, j) \/ ResumeItems(c, j)
    BY <2>2, CallSteps2
  <2>3. CASE Pause(c, j) \/ PauseWrite(c, j) \/ Resume(c, j) \/ ResumeWrite(c, j)
    BY <2>3, CallSteps3
  <2>4. CASE Cancel(c, j) \/ CancelWrite(c, j)
    BY <2>4, CallSteps4
  <2> QED  BY <1>3, <2>1, <2>2, <2>3, <2>4 DEF Control
<1>4. ASSUME NEW j \in Jobs, Work(j) PROVE JobInv'
  BY <1>4, WorkerSteps1, WorkerSteps2, ItemSteps DEF Work
<1> QED
  BY <1>1, <1>2, <1>3, <1>4 DEF JobNext

\* With one control call at a time, a job, its items, its worker and the calls about it stay in
\* step: only a worker in its loop has a batch, no fragment is lost on its way to the packages,
\* and after a cancel the flag is up or no worker gets past the status of the job.
THEOREM JobInvariant == ASSUME OneCall PROVE JobSpec => []JobInv
<1>1. OneCall
  OBVIOUS
<1>2. JobInv /\ OneCall /\ [JobNext]_jobVars => JobInv'
  BY JobStep
<1> QED
  BY JobsBegin, <1>1, <1>2, PTL DEF JobSpec

\* CompletedIsPublished, for all sets of jobs, records and callers: a completed job has no item
\* left to do, and unless it was cancelled its packages hold every fragment it learned.
THEOREM CompletedArePublished == ASSUME OneCall PROVE JobSpec => []CompletedIsPublished
<1>1. JobInv => CompletedIsPublished
  <2> SUFFICES ASSUME JobInv, NEW j \in Jobs, status[j] = "completed",
                      NEW r \in AuditRecords
               PROVE  /\ item[j][r] \notin {"pending", "processing"}
                      /\ item[j][r] = "learned" /\ j \notin discarded => r \in published[j]
    BY DEF CompletedIsPublished
  <2>1. Settled(j) /\ InPackages(j)
    BY DEF JobInv, JobFits, EndFits
  <2> QED
    BY <2>1 DEF Settled, InPackages
<1>2. JobSpec => []JobInv
  BY JobInvariant
<1> QED
  BY <1>1, <1>2, PTL

\* CancelledStops: after a cancel call has returned no further item of the job is analysed,
\* whatever worker was running or chained.
THEOREM CancelledJobsStop == ASSUME OneCall PROVE JobSpec => CancelledStops
<1>1. ASSUME JobInv, [JobNext]_jobVars, NEW j \in Jobs, BeginsItem(j)
      PROVE  wish[j] # "cancel"
  <2>1. /\ batch \in [Jobs -> [AuditRecords -> BatchSteps]] /\ BatchFits(j) /\ CancelFits(j)
    BY <1>1 DEF JobInv, JobTypes, JobFits
  <2>2. PICK r \in AuditRecords : batch[j][r] = "chosen" /\ batch'[j][r] = "analysing"
    BY <1>1 DEF BeginsItem
  <2>3. batch' # batch
    BY <2>2
  <2>4. PICK k \in Jobs : SelectBatch(k) \/ \E rec \in AuditRecords : Items(k, rec)
    <3>1. JobNext
      BY <1>1, <2>3 DEF jobVars, workerVars
    <3>2. ASSUME NEW c \in Controllers, Create(c) PROVE batch' = batch
      BY <3>2 DEF Create, workerVars
    <3>3. ASSUME NEW c \in Controllers, NEW k \in Jobs, Control(c, k) PROVE batch' = batch
      BY <3>3 DEF Control, CreateSelect, CreateInsert, CreateItems, Pause, PauseWrite, Resume,
                  ResumeWrite, ResumeItems, Cancel, CancelWrite, workerVars
    <3>4. ASSUME NEW k \in Jobs, Work(k)
          PROVE  batch' = batch \/ SelectBatch(k) \/ \E rec \in AuditRecords : Items(k, rec)
      BY <3>4 DEF Work, Begin, ReadJob, Run, EndLoop, WritePaused, WriteCancelled, Publish,
                  Complete, NextWorker
    <3> QED  BY <2>3, <3>1, <3>2, <3>3, <3>4 DEF JobNext
  <2>5. CASE SelectBatch(k)
    <3>1. PICK b \in SUBSET Pending(k) : batch' = [batch EXCEPT ![k] =
              [rec \in AuditRecords |-> IF rec \in b THEN "chosen" ELSE "none"]]
      BY <2>5 DEF SelectBatch
    <3> QED  BY <2>1, <2>2, <3>1
  <2>6. ASSUME NEW rec \in AuditRecords, Items(k, rec)
        PROVE  wish[j] # "cancel"
    <3>1. k = j /\ rec = r /\ ItemBegin(j, r) /\ ~Flagged(j)
      <4>1. CASE ItemBegin(k, rec)
        BY <2>1, <2>2, <4>1 DEF ItemBegin, ToStep
      <4>2. CASE ~ItemBegin(k, rec)
        <5>1. PICK s \in {"none", "inserted"} : batch' = [batch EXCEPT ![k][rec] = s]
          BY <2>6, <4>2 DEF Items, ItemDropped, ItemLearned, ItemMarked, ToStep
        <5> QED  BY <2>1, <2>2, <5>1
      <4> QED  BY <4>1, <4>2
    <3>2. worker[j] = "loop"
      BY <2>1, <2>2 DEF BatchFits
    <3>3. ~Stopped(j)
      BY <3>1, <3>2 DEF Stopped, Flagged
    <3> QED  BY <2>1, <3>3 DEF CancelFits
  <2> QED
    BY <2>4, <2>5, <2>6
<1>2. JobInv /\ [JobNext]_jobVars => [\A j \in Jobs : BeginsItem(j) => wish[j] # "cancel"]_jobVars
  BY <1>1
<1>3. JobSpec => []JobInv
  BY JobInvariant
<1> QED
  BY <1>2, <1>3, PTL DEF JobSpec, CancelledStops

----------------------------------------------------------------------------
(* StoredValues                                                              *)

\* What a server can mean by a value of a mode
Meant(mode, v) ==
    \/ v = Null
    \/ mode = "boolean" /\ (v = Bool(TRUE) \/ v = Bool(FALSE))
    \/ mode = "integer" /\ \E n \in Nat : v = Num(n)
    \/ mode = "real" /\ (v = Num(1) \/ v = Broken(1))
    \/ mode = "timestamp" /\ \E s \in Nat : v = Instant(s)
    \/ mode = "text" /\ v = Words

\* The value as the copy hands it to PostgreSQL
Copied(v, type) == EncodeValue(DecodeValue(v, type), type)

LateDate(v) == v.js = "Date" /\ v.seconds > MillisFrom

\* A meaning survives storing, on either database, and a move.
Keeps(mode, type, pg, v) ==
    /\ MapFromDriver(mode, MapToDriver(mode, v)) = v
    /\ PgAccepts(pg, MapToDriver(mode, v)) =>
         MapFromDriver(mode, PgReturns(pg, MapToDriver(mode, v))) = v
    /\ PgAccepts(pg, Copied(MapToDriver(mode, v), type)) =>
         \/ MapFromDriver(mode, PgReturns(pg, Copied(MapToDriver(mode, v), type))) = v
         \/ LateDate(v)
    /\ ~PgAccepts(pg, Copied(MapToDriver(mode, v), type)) =>
         pg = "integer" /\ MapToDriver(mode, v).n > LargestInteger

\* The kinds of values do not meet.
LEMMA Distinct ==
  /\ \A n : /\ Num(n).js = "number" /\ Num(n).n = n /\ Num(n).half = FALSE
            /\ Numeral(n).js = "numeral" /\ Numeral(n).n = n
            /\ Broken(n).js = "number" /\ Broken(n).n = n /\ Broken(n).half = TRUE
            /\ Instant(n).js = "Date" /\ Instant(n).seconds = n
  /\ \A b : Bool(b).js = "boolean"
  /\ Null.js = "null" /\ Words.js = "string"
BY DEF Num, Numeral, Instant, Broken, Bool, Null, Words

\* A truth value as JavaScript has it
LEMMA TruthOf ==
  /\ \A x, S : Bool(x \in S) = IF x \in S THEN Bool(TRUE) ELSE Bool(FALSE)
  /\ \A x, y : Bool(x # y) = IF x = y THEN Bool(FALSE) ELSE Bool(TRUE)
<1>1. ASSUME NEW x, NEW S PROVE Bool(x \in S) = IF x \in S THEN Bool(TRUE) ELSE Bool(FALSE)
  <2>1. ASSUME x \in S PROVE (x \in S) = TRUE
    BY <2>1
  <2>2. ASSUME x \notin S PROVE (x \in S) = FALSE
    BY <2>2
  <2> QED  BY <2>1, <2>2
<1>2. ASSUME NEW x, NEW y PROVE Bool(x # y) = IF x = y THEN Bool(FALSE) ELSE Bool(TRUE)
  <2>1. ASSUME x # y PROVE (x # y) = TRUE
    BY <2>1
  <2>2. ASSUME x = y PROVE (x # y) = FALSE
    BY <2>2
  <2> QED  BY <2>1, <2>2
<1> QED
  BY <1>1, <1>2

\* Null stays null everywhere.
LEMMA NullKept == ASSUME NEW mode, NEW type, NEW pg PROVE Keeps(mode, type, pg, Null)
BY DEF Keeps, MapToDriver, MapFromDriver, PgAccepts, PgReturns, Copied, DecodeValue, EncodeValue

\* A number stays the number it is, where PostgreSQL has room for it.
LEMMA NumberKept == ASSUME NEW n \in Nat PROVE Keeps("integer", "int", "integer", Num(n))
<1> DEFINE v == Num(n)
<1>1. v.js = "number" /\ v.n = n /\ v.half = FALSE /\ v # Null /\ Num(v.n) = v
  BY Distinct
<1>2. MapToDriver("integer", v) = v /\ MapFromDriver("integer", v) = v
  BY <1>1 DEF MapToDriver, MapFromDriver
<1>3. DecodeValue(v, "int") = v /\ EncodeValue(v, "int") = v
  BY <1>1 DEF DecodeValue, EncodeValue
<1>4. PgReturns("integer", v) = v
  <2>1. ASSUME NEW half PROVE [[js |-> "number", n |-> n, half |-> half] EXCEPT !.js = "number"]
                               = [js |-> "number", n |-> n, half |-> half]
    OBVIOUS
  <2>2. [v EXCEPT !.js = "number"] = v
    BY <2>1 DEF Num
  <2> QED  BY <1>1, <2>2 DEF PgReturns
<1>5. ~PgAccepts("integer", v) => n > LargestInteger
  BY <1>1 DEF PgAccepts, LargestInteger
<1> HIDE DEF v
<1>6. Keeps("integer", "int", "integer", v)
  BY <1>1, <1>2, <1>3, <1>4, <1>5 DEF Keeps, Copied
<1> QED
  BY <1>6 DEF v

\* A number with digits behind the point
LEMMA RealKept ==
  ASSUME NEW v, v = Num(1) \/ v = Broken(1) PROVE Keeps("real", "real", "double precision", v)
<1>1. v.js = "number" /\ v # Null
  BY Distinct
<1>2. MapToDriver("real", v) = v /\ MapFromDriver("real", v) = v
  BY <1>1 DEF MapToDriver, MapFromDriver
<1>3. DecodeValue(v, "real") = v /\ EncodeValue(v, "real") = v
  BY <1>1 DEF DecodeValue, EncodeValue
<1>4. PgReturns("double precision", v) = v
  <2>1. [v EXCEPT !.js = "number"] = v
    BY DEF Num, Broken
  <2> QED  BY <1>1, <2>1 DEF PgReturns
<1>5. PgAccepts("double precision", v)
  BY <1>1 DEF PgAccepts
<1> QED
  BY <1>2, <1>3, <1>4, <1>5 DEF Keeps, Copied

\* What the server keeps as text
LEMMA TextKept ==
  ASSUME NEW type \in {"text", "json_text"} PROVE Keeps("text", type, "text", Words)
<1>1. Words.js # "number" /\ Words # Null
  BY Distinct
<1>2. MapToDriver("text", Words) = Words /\ MapFromDriver("text", Words) = Words
  BY <1>1 DEF MapToDriver, MapFromDriver
<1>3. DecodeValue(Words, type) = Words /\ EncodeValue(Words, type) = Words
  BY <1>1 DEF DecodeValue, EncodeValue
<1>4. PgReturns("text", Words) = Words /\ PgAccepts("text", Words)
  BY <1>1 DEF PgReturns, PgAccepts
<1> QED
  BY <1>2, <1>3, <1>4 DEF Keeps, Copied

\* An instant is seconds, unless the copy takes it for milliseconds.
LEMMA TimeKept ==
  ASSUME NEW s \in Nat
  PROVE  Keeps("timestamp", "unix_seconds", "bigint", Instant(s))
<1> DEFINE v == Instant(s)
           d == Num(s)
<1>1. /\ v.js = "Date" /\ v.seconds = s /\ v # Null /\ d # Null /\ d.n = s /\ d.js = "number"
      /\ d.half = FALSE /\ Numeral(s) # Null /\ Numeral(s).n = s
  BY Distinct
<1>2. /\ MapToDriver("timestamp", v) = d /\ MapFromDriver("timestamp", d) = v
      /\ MapFromDriver("timestamp", Numeral(s)) = v
  BY <1>1 DEF MapToDriver, MapFromDriver
<1>3. PgReturns("bigint", d) = Numeral(s) /\ PgAccepts("bigint", d)
  BY <1>1 DEF PgReturns, PgAccepts
<1>4. Copied(d, "unix_seconds") = IF s > MillisFrom THEN Num(s \div 1000) ELSE d
  <2>1. DecodeValue(d, "unix_seconds") = Num(IF s > MillisFrom THEN s \div 1000 ELSE s)
    BY <1>1 DEF DecodeValue
  <2>2. \A n : EncodeValue(Num(n), "unix_seconds") = Num(n)
    BY Distinct DEF EncodeValue
  <2> QED  BY <2>1, <2>2 DEF Copied
<1>5. PgAccepts("bigint", Num(s \div 1000))
  BY Distinct DEF PgAccepts
<1> HIDE DEF v, d
<1>6. Keeps("timestamp", "unix_seconds", "bigint", v)
  BY <1>1, <1>2, <1>3, <1>4, <1>5 DEF Keeps, LateDate
<1> QED
  BY <1>6 DEF v

\* A truth value is a number in SQLite and none in PostgreSQL.
LEMMA TruthKept ==
  ASSUME NEW b \in BOOLEAN PROVE Keeps("boolean", "bool", "boolean", Bool(b))
<1> DEFINE yes == Bool(TRUE)
           no == Bool(FALSE)
           truths == {yes, Num(1), Numeral(1)}
<1>1. /\ yes # no /\ yes # Null /\ no # Null /\ Num(0) # Null /\ Num(1) # Null /\ Num(0) # Num(1)
      /\ yes # Num(0) /\ no # Num(0) /\ no # Num(1) /\ no # Numeral(1) /\ Num(0) # Numeral(1)
  <2>1. yes.b = TRUE /\ no.b = FALSE
    BY DEF Bool
  <2>2. yes # no
    BY <2>1, Zenon
  <2> HIDE DEF yes, no
  <2>3. yes.js = "boolean" /\ no.js = "boolean"
    BY Distinct DEF yes, no
  <2> QED  BY <2>2, <2>3, Distinct
<1>2. MapToDriver("boolean", yes) = Num(1) /\ MapToDriver("boolean", no) = Num(0)
  <2>1. (IF yes.b THEN 1 ELSE 0) = 1 /\ (IF no.b THEN 1 ELSE 0) = 0
    BY DEF Bool
  <2> HIDE DEF yes, no
  <2> QED  BY <1>1, <2>1 DEF MapToDriver
<1> HIDE DEF truths
<1>3. /\ yes \in truths /\ Num(1) \in truths /\ no \notin truths /\ Num(0) \notin truths
  BY <1>1 DEF truths
<1>4. \A x : x # Null => MapFromDriver("boolean", x) = IF x \in truths THEN yes ELSE no
  BY TruthOf DEF MapFromDriver, truths
<1>5. \A x : x # Null => PgReturns("boolean", x) = IF x \in truths THEN yes ELSE no
  BY TruthOf DEF PgReturns, truths
<1>6. \A x : x # Null => DecodeValue(x, "bool") = IF x = Num(0) THEN no ELSE yes
  BY TruthOf DEF DecodeValue
<1>7. \A x : x # Null => EncodeValue(x, "bool") = IF x = no THEN no ELSE yes
  BY TruthOf DEF EncodeValue
<1>8. Bool(b) = yes \/ Bool(b) = no
  OBVIOUS
<1>9. PgAccepts("boolean", yes) /\ PgAccepts("boolean", no)
  BY DEF PgAccepts
<1> HIDE DEF yes, no
<1>10. Copied(Num(1), "bool") = yes /\ Copied(Num(0), "bool") = no
  BY <1>1, <1>6, <1>7 DEF Copied
<1>11. Keeps("boolean", "bool", "boolean", yes)
  BY <1>1, <1>2, <1>3, <1>4, <1>5, <1>9, <1>10 DEF Keeps
<1>12. Keeps("boolean", "bool", "boolean", no)
  BY <1>1, <1>2, <1>3, <1>4, <1>5, <1>9, <1>10 DEF Keeps
<1> QED
  BY <1>8, <1>11, <1>12

\* Whatever the column: its kind is one of the tables'.
LEMMA EveryKindKeeps ==
  ASSUME NEW mode, NEW type, NEW pg, <<mode, type, pg>> \in Kinds, NEW v, Meant(mode, v)
  PROVE  Keeps(mode, type, pg, v)
<1>1. \/ mode = "boolean" /\ type = "bool" /\ pg = "boolean"
      \/ mode = "integer" /\ type = "int" /\ pg = "integer"
      \/ mode = "real" /\ type = "real" /\ pg = "double precision"
      \/ mode = "timestamp" /\ type = "unix_seconds" /\ pg = "bigint"
      \/ mode = "text" /\ type \in {"text", "json_text"} /\ pg = "text"
  BY DEF Kinds
<1>2. CASE v = Null
  BY <1>2, NullKept
<1>3. CASE mode = "boolean" /\ (v = Bool(TRUE) \/ v = Bool(FALSE))
  BY <1>1, <1>3, TruthKept
<1>4. CASE mode = "integer" /\ \E n \in Nat : v = Num(n)
  BY <1>1, <1>4, NumberKept
<1>5. CASE mode = "real" /\ (v = Num(1) \/ v = Broken(1))
  BY <1>1, <1>5, RealKept
<1>6. CASE mode = "timestamp" /\ \E s \in Nat : v = Instant(s)
  BY <1>1, <1>6, TimeKept
<1>7. CASE mode = "text" /\ v = Words
  BY <1>1, <1>7, TextKept
<1> QED
  BY <1>2, <1>3, <1>4, <1>5, <1>6, <1>7 DEF Meant

-----------------------------------------------------------------------------
\* Where the value is, it is what was meant: the invariant.
Here == LogicalType(place[1], place[2])
Late == handed = "moved" /\ LateDate(meaning)

OnSqlite ==
    \/ cell = MapToDriver(Mode, meaning)
    \/ /\ seeded /\ handed = "no" /\ Mode = "timestamp"
       /\ meaning = Instant(Now) /\ cell = Num(1000 * Now)

StoredInv ==
    /\ engine \in {"sqlite", "postgres"} /\ place \in UNION {{t} \X Columns(t) : t \in DOMAIN SqliteSchema}
    /\ Meant(Mode, meaning)
    /\ engine = "sqlite" => OnSqlite
    /\ engine = "postgres" => (MapFromDriver(Mode, cell) = meaning \/ Late)
    /\ handed = "refused" =>
          engine = "sqlite" /\ PgType = "integer" /\ cell.n > LargestInteger

\* A column of a table is described by one of the kinds.
LEMMA PlaceKind ==
  ASSUME place \in UNION {{t} \X Columns(t) : t \in DOMAIN SqliteSchema}
  PROVE  <<Mode, Here, PgType>> \in Kinds
<1>1. PICK t \in DOMAIN SqliteSchema : place \in {t} \X Columns(t)
  OBVIOUS
<1>2. place[1] = t /\ place[2] \in Columns(t)
  BY <1>1
<1> QED
  BY <1>1, <1>2, TablesAgree DEF Mode, Here, PgType

\* What the server stores, it means.
LEMMA MeaningsMeant == ASSUME NEW mode, NEW v \in Meanings(mode),
                              mode \in {"boolean", "integer", "real", "timestamp", "text"}
                       PROVE  Meant(mode, v)
BY ValueAssumption DEF Meanings, Meant

\* The copy divides the times migration 25 left.
LEMMA SeededCopied == Copied(Num(1000 * Now), "unix_seconds") = Num(Now)
<1>1. 1000 * Now > MillisFrom /\ (1000 * Now) \div 1000 = Now
  BY DEF Now, MillisFrom
<1> DEFINE m == 1000 * Now
<1>2. Num(m).n = m /\ Num(m) # Null /\ m > MillisFrom /\ m \div 1000 = Now
  BY <1>1, Distinct
<1> HIDE DEF m
<1>3. DecodeValue(Num(m), "unix_seconds") = Num(Now)
  BY <1>2 DEF DecodeValue
<1>4. EncodeValue(Num(Now), "unix_seconds") = Num(Now)
  BY Distinct DEF EncodeValue
<1> QED
  BY <1>3, <1>4 DEF Copied, m

\* A value is stored.
LEMMA StoreKeeps ==
  ASSUME StoredInv, NEW v \in Meanings(Mode), Store(v) PROVE StoredInv'
<1> DEFINE d == MapToDriver(Mode, v)
<1>1. /\ engine = "postgres" => PgAccepts(PgType, d)
      /\ cell' = (IF engine = "postgres" THEN PgReturns(PgType, d) ELSE d)
      /\ meaning' = v /\ handed' = (IF handed = "refused" THEN "no" ELSE handed)
      /\ UNCHANGED <<engine, place>>
  BY DEF Store
<1>2. <<Mode, Here, PgType>> \in Kinds
  BY PlaceKind DEF StoredInv
<1>3. Mode \in {"boolean", "integer", "real", "timestamp", "text"}
  BY <1>2 DEF Kinds
<1>4. Meant(Mode, v)
  BY <1>3, MeaningsMeant
<1>5. Keeps(Mode, Here, PgType, v)
  BY <1>2, <1>4, EveryKindKeeps
<1>6. PgAccepts(PgType, d) => MapFromDriver(Mode, PgReturns(PgType, d)) = v
  BY <1>5 DEF Keeps
<1>7. Mode' = Mode
  BY <1>1 DEF Mode
<1>8. engine' = "sqlite" => OnSqlite'
  BY <1>1, <1>7 DEF OnSqlite
<1> HIDE DEF d
<1>9. engine' = "postgres" => MapFromDriver(Mode, cell)' = v
  <2>1. ASSUME engine = "postgres" PROVE MapFromDriver(Mode, cell') = v
    BY <1>1, <1>6, <2>1
  <2> QED  BY <1>1, <1>7, <2>1 DEF MapFromDriver
<1>10. Meant(Mode, meaning)'
  BY <1>1, <1>4, <1>7 DEF Meant
<1>11. handed' # "refused" /\ engine' \in {"sqlite", "postgres"}
  BY <1>1 DEF StoredInv
<1>12. (place \in UNION {{t} \X Columns(t) : t \in DOMAIN SqliteSchema})'
  BY <1>1 DEF StoredInv
<1> QED
  BY <1>1, <1>8, <1>9, <1>10, <1>11, <1>12 DEF StoredInv

\* Migration 25 is about two columns that hold times.
LEMMA MillisKeeps == ASSUME StoredInv, StoreMillis PROVE StoredInv'
<1>1. /\ engine = "sqlite" /\ place \in {"provider_api_keys"} \X {"createdAt", "updatedAt"}
      /\ cell' = Num(1000 * Now) /\ meaning' = Instant(Now) /\ seeded' = TRUE
      /\ handed = "no" /\ UNCHANGED <<engine, place, handed>>
  BY DEF StoreMillis
<1>2. Mode = "timestamp"
  BY <1>1, TablesAgree DEF Mode
<1>3. Mode' = Mode
  BY <1>1 DEF Mode
<1>4. OnSqlite'
  BY <1>1, <1>2, <1>3 DEF OnSqlite
<1>5. Now \in Nat
  BY DEF Now
<1>6. Meant(Mode, meaning)'
  BY <1>1, <1>2, <1>3, <1>5 DEF Meant
<1>7. (place \in UNION {{t} \X Columns(t) : t \in DOMAIN SqliteSchema})'
  BY <1>1 DEF StoredInv
<1> QED
  BY <1>1, <1>4, <1>6, <1>7 DEF StoredInv

\* The copy hands the value over as it was meant, or leaves the server where it is.
LEMMA MoveKeeps == ASSUME StoredInv, MoveValue PROVE StoredInv'
<1> DEFINE type == LogicalType(place[1], place[2])
           value == Copied(cell, type)
<1>1. /\ engine = "sqlite" /\ handed = "no" /\ UNCHANGED <<place, meaning, seeded>>
      /\ IF PgAccepts(PgType, value)
         THEN cell' = PgReturns(PgType, value) /\ engine' = "postgres" /\ handed' = "moved"
         ELSE handed' = "refused" /\ UNCHANGED <<cell, engine>>
  BY DEF MoveValue, Copied
<1>2. <<Mode, Here, PgType>> \in Kinds /\ type = Here
  BY PlaceKind DEF StoredInv, Here
<1>3. Keeps(Mode, Here, PgType, meaning)
  BY <1>2, EveryKindKeeps DEF StoredInv
<1>4. OnSqlite
  BY <1>1 DEF StoredInv
<1>5. Mode' = Mode /\ PgType' = PgType
  BY <1>1 DEF Mode, PgType
<1>6. PgAccepts(PgType, value) =>
        MapFromDriver(Mode, PgReturns(PgType, value)) = meaning \/ LateDate(meaning)
  <2>1. CASE cell = MapToDriver(Mode, meaning)
    BY <1>2, <1>3, <2>1 DEF Keeps
  <2>2. CASE Mode = "timestamp" /\ meaning = Instant(Now) /\ cell = Num(1000 * Now)
    <3>1. type = "unix_seconds" /\ PgType = "bigint"
      BY <1>2, <2>2 DEF Kinds
    <3>2. Copied(cell, "unix_seconds") = Num(Now)
      BY <2>2, SeededCopied
    <3>3. MapFromDriver("timestamp", PgReturns("bigint", Num(Now))) = Instant(Now)
      BY Distinct DEF MapFromDriver, PgReturns
    <3> QED  BY <2>2, <3>1, <3>2, <3>3
  <2> QED  BY <1>4, <2>1, <2>2 DEF OnSqlite
<1>7. ~PgAccepts(PgType, value) => PgType = "integer" /\ cell.n > LargestInteger
  <2>1. CASE cell = MapToDriver(Mode, meaning)
    BY <1>2, <1>3, <2>1 DEF Keeps
  <2>2. CASE Mode = "timestamp" /\ meaning = Instant(Now) /\ cell = Num(1000 * Now)
    <3>1. type = "unix_seconds" /\ PgType = "bigint"
      BY <1>2, <2>2 DEF Kinds
    <3>2. Copied(cell, "unix_seconds") = Num(Now)
      BY <2>2, SeededCopied
    <3>3. PgAccepts("bigint", Num(Now))
      BY Distinct DEF PgAccepts
    <3> QED  BY <3>1, <3>2, <3>3
  <2> QED  BY <1>4, <2>1, <2>2 DEF OnSqlite
<1>8. Meant(Mode, meaning)'
  BY <1>1, <1>5 DEF StoredInv, Meant
<1>9. (place \in UNION {{t} \X Columns(t) : t \in DOMAIN SqliteSchema})'
  BY <1>1 DEF StoredInv
<1> HIDE DEF type, value
<1>10. CASE PgAccepts(PgType, value)
  <2>1. MapFromDriver(Mode, cell') = meaning \/ LateDate(meaning)
    BY <1>1, <1>6, <1>10
  <2>2. MapFromDriver(Mode, cell)' = MapFromDriver(Mode, cell') /\ LateDate(meaning)' = LateDate(meaning)
    BY <1>1, <1>5 DEF MapFromDriver, LateDate
  <2> QED  BY <1>1, <1>8, <1>9, <1>10, <2>1, <2>2 DEF StoredInv, Late
<1>11. CASE ~PgAccepts(PgType, value)
  <2>1. OnSqlite'
    <3>1. CASE cell = MapToDriver(Mode, meaning)
      BY <1>1, <1>5, <1>11, <3>1 DEF OnSqlite
    <3>2. CASE Mode = "timestamp"
      <4>1. PgType = "bigint"
        BY <1>2, <3>2 DEF Kinds
      <4> QED  BY <1>7, <1>11, <4>1
    <3> QED  BY <1>4, <3>1, <3>2 DEF OnSqlite
  <2> QED  BY <1>1, <1>5, <1>7, <1>8, <1>9, <1>11, <2>1 DEF StoredInv
<1> QED
  BY <1>10, <1>11

\* The database begins without the value.
LEMMA ValueStarts == ASSUME ValueInit PROVE StoredInv
<1>1. Meant(Mode, meaning) /\ cell = MapToDriver(Mode, meaning)
  BY DEF ValueInit, Meant, MapToDriver
<1>2. engine = "sqlite" => OnSqlite
  BY <1>1 DEF OnSqlite
<1>3. MapFromDriver(Mode, cell) = meaning
  BY DEF ValueInit, MapFromDriver
<1> QED
  BY <1>1, <1>2, <1>3 DEF ValueInit, StoredInv

\* Where the value is read it is what was meant.
LEMMA ReadAsMeant == ASSUME StoredInv PROVE ValuesKept
<1>1. CASE engine = "sqlite" /\ cell = MapToDriver(Mode, meaning)
  <2>1. <<Mode, Here, PgType>> \in Kinds /\ Meant(Mode, meaning)
    BY PlaceKind DEF StoredInv
  <2>2. Keeps(Mode, Here, PgType, meaning)
    BY <2>1, EveryKindKeeps
  <2>3. MapFromDriver(Mode, cell) = meaning
    BY <1>1, <2>2 DEF Keeps
  <2> QED  BY <2>3 DEF StoredInv, ValuesKept
<1>2. CASE engine = "sqlite" /\ seeded
  BY <1>2 DEF StoredInv, ValuesKept
<1>3. CASE engine = "postgres"
  BY <1>3 DEF StoredInv, ValuesKept, Late, LateDate
<1> QED
  BY <1>1, <1>2, <1>3 DEF StoredInv, OnSqlite

\* On SQLite the value is held as a column of its mode holds what was meant, but for the times
\* migration 25 left; on PostgreSQL it is read as it was meant, but for a late instant moved.
THEOREM StoredInvariant == ValueSpec => []StoredInv
<1>1. ValueInit => StoredInv
  BY ValueStarts
<1>2. StoredInv /\ [ValueNext]_valueVars => StoredInv'
  <2> SUFFICES ASSUME StoredInv, [ValueNext]_valueVars PROVE StoredInv'
    OBVIOUS
  <2>1. CASE \E v \in Meanings(Mode) : Store(v)
    BY <2>1, StoreKeeps
  <2>2. CASE StoreMillis
    BY <2>2, MillisKeeps
  <2>3. CASE MoveValue
    BY <2>3, MoveKeeps
  <2>4. CASE UNCHANGED valueVars
    <3>1. UNCHANGED <<engine, place, cell, meaning, seeded, handed>>
      BY <2>4 DEF valueVars
    <3>2. Mode' = Mode /\ PgType' = PgType
      BY <3>1 DEF Mode, PgType
    <3>3. OnSqlite' <=> OnSqlite
      BY <3>1, <3>2 DEF OnSqlite
    <3>4. Meant(Mode, meaning)' <=> Meant(Mode, meaning)
      BY <3>1, <3>2 DEF Meant
    <3>5. Late' <=> Late
      BY <3>1 DEF Late, LateDate
    <3>6. (MapFromDriver(Mode, cell) = meaning)' <=> MapFromDriver(Mode, cell) = meaning
      BY <3>1, <3>2 DEF MapFromDriver
    <3> QED  BY <3>1, <3>2, <3>3, <3>4, <3>5, <3>6 DEF StoredInv
  <2> QED  BY <2>1, <2>2, <2>3, <2>4 DEF ValueNext
<1> QED
  BY <1>1, <1>2, PTL DEF ValueSpec

\* A value is read as it was meant on either database and after a move, in every column of
\* every table, and a move is refused for nothing but a number too large.
THEOREM ValuesAreKept == ValueSpec => []ValuesKept
BY StoredInvariant, ReadAsMeant, PTL

-----------------------------------------------------------------------------
(* SessionQueue: mutual exclusion of the session locks, for any callers, sessions, queue    *)
(* capacity and number of queues, and whenever the clean-up runs.  The counters alone do     *)
(* not give it: a session has one lock only as long as everybody who waits for it or holds   *)
(* it is in the queue that the map names.  The clean-up keeps that because a queue whose     *)
(* counter is zero and whose line is empty has nobody in it, which is what Accounts says.     *)

Waiters(i) == {c \in Callers : caller[c].step \in {"waiting", "timedOut"} /\ Joined(c) = i}
Occupants(i) == {c \in Callers : caller[c].step \in {"lapsing", "holding"} /\ Joined(c) = i}

QueueRecords == [limit : Int, active : Int, waiting : Seq(Callers)]

SessionTypes ==
    /\ queue \in Seq(QueueRecords)
    /\ madeFor \in Seq(Sessions) /\ Len(madeFor) = Len(queue)
    /\ current \in [Sessions -> 0..Len(queue)]
    /\ caller \in [Callers -> [step : CallerSteps, queue : 0..Len(queue)]]

\* The counter and the line of a queue are those of a lock, and tell who is in it.
LockOK(i) ==
    /\ Accounts(queue[i], Waiters(i), Occupants(i)) /\ Served(queue[i])
    /\ queue[i].limit = 1 /\ queue[i].active <= 1

\* A session is never split in two.
Together ==
    /\ \A s \in Sessions : current[s] # 0 => madeFor[current[s]] = s
    /\ \A c \in Callers :
          caller[c].step # "away" => Joined(c) # 0 /\ current[madeFor[Joined(c)]] = Joined(c)

SessionInv == SessionTypes /\ (\A i \in Queues : LockOK(i)) /\ Together

LEMMA SessionInitInv == SessionInit => SessionInv
  BY DEF SessionInit, SessionInv, SessionTypes, Together, Queues, Away, CallerSteps, Joined

LEMMA InvFields ==
  ASSUME SessionInv
  PROVE  /\ Len(queue) \in Nat /\ \A i \in Queues : queue[i] \in QueueRecords
         /\ \A i \in Queues : madeFor[i] \in Sessions
         /\ \A c \in Callers : caller[c] \in [step : CallerSteps, queue : 0..Len(queue)]
         /\ \A c \in Callers : caller[c].step # "away" => Joined(c) \in Queues
  BY DEF SessionInv, SessionTypes, Together, Queues, Joined

\* A step that moves callers of one queue, and changes no other, is judged by that queue alone.
LEMMA OneLockMoves ==
  ASSUME SessionInv, NEW i \in Queues, NEW lock \in QueueRecords,
         queue' = [queue EXCEPT ![i] = lock],
         caller' \in [Callers -> [step : CallerSteps, queue : 0..Len(queue)]],
         \A c \in Callers : \/ caller'[c] = caller[c]
                            \/ Joined(c) = i /\ caller'[c] = Away
                            \/ Joined(c) = i /\ caller'[c].queue = i /\ caller[c].step # "away",
         UNCHANGED <<madeFor, current>>,
         LockOK(i)'
  PROVE  SessionInv'
<1>1. /\ Len(queue') = Len(queue) /\ queue' \in Seq(QueueRecords) /\ Queues' = Queues
      /\ \A j \in Queues : j # i => queue'[j] = queue[j]
  BY DEF SessionInv, SessionTypes, Queues
<1>2. SessionTypes'
  BY <1>1 DEF SessionInv, SessionTypes
<1>3. ASSUME NEW j \in Queues, j # i PROVE LockOK(j)'
  <2>1. LockOK(j)
    BY DEF SessionInv
  <2>2. queue'[j] = queue[j]
    BY <1>1, <1>3
  <2>3. Waiters(j)' = Waiters(j) /\ Occupants(j)' = Occupants(j)
    BY <1>3, InvFields DEF Waiters, Occupants, Joined, Away
  <2> QED
    BY <2>1, <2>2, <2>3 DEF LockOK
<1>4. Together'
  BY DEF SessionInv, Together, Joined, Away
<1> QED
  BY <1>1, <1>2, <1>3, <1>4 DEF SessionInv

\* What processQueue() of queue i does once its record is r and its callers are those of p:
\* the callers it starts are waiters, and get the lock or lapse.
LEMMA DrainedLock ==
  ASSUME SessionInv, NEW i \in Queues, NEW r, NEW p,
         p \in [Callers -> [step : CallerSteps, queue : 0..Len(queue)]],
         \A c \in Callers : p[c] = caller[c] \/ (Joined(c) = i /\ p[c] = Away),
         DrainedInto(i, r, p), UNCHANGED <<madeFor, current>>,
         r.limit = 1, r.active <= 1,
         Accounts(r, Waiters(i), {c \in Occupants(i) : p[c] = caller[c]}),
         \A c \in Waiters(i) : p[c] = caller[c]
  PROVE  SessionInv'
<1> DEFINE S == Started(r)
           O == {c \in Occupants(i) : p[c] = caller[c]}
<1>1. /\ Accounts(Drained(r), Waiters(i) \ S, O \cup S)
      /\ Served(Drained(r)) /\ Drained(r).limit = 1 /\ S \subseteq Waiters(i)
  BY DrainAccounts
<1>2. Drained(r).active <= 1
  BY StartedCount, AccountsFields DEF Drained
<1>3. Drained(r) \in QueueRecords
  <2>1. Drained(r) \in [limit : Int, active : Int, waiting : Seq(Waiters(i) \ S)]
    BY <1>1 DEF Accounts
  <2>2. Waiters(i) \ S \subseteq Callers
    BY DEF Waiters
  <2> HIDE DEF S
  <2> QED
    BY <2>1, <2>2 DEF QueueRecords
<1>4. /\ queue' = [queue EXCEPT ![i] = Drained(r)]
      /\ \A c \in Callers : caller'[c] = IF c \in S THEN [p[c] EXCEPT !.step = StartedStep(@)]
                                                    ELSE p[c]
      /\ DOMAIN caller' = Callers
  BY DEF DrainedInto
<1>5. \A c \in S : /\ c \in Callers /\ p[c] = caller[c] /\ Joined(c) = i
                   /\ caller[c].step \in {"waiting", "timedOut"}
  BY <1>1 DEF Waiters
<1>6. \A c \in S : /\ caller'[c] \in [step : CallerSteps, queue : 0..Len(queue)]
                   /\ caller'[c].queue = i /\ caller'[c].step \in {"lapsing", "holding"}
  <2>1. SUFFICES ASSUME NEW c \in S
                 PROVE  /\ caller'[c] \in [step : CallerSteps, queue : 0..Len(queue)]
                        /\ caller'[c].queue = i /\ caller'[c].step \in {"lapsing", "holding"}
    OBVIOUS
  <2>2. caller'[c] = [p[c] EXCEPT !.step = StartedStep(p[c].step)]
    BY <1>4, <1>5
  <2>3. p[c] \in [step : CallerSteps, queue : 0..Len(queue)] /\ p[c].queue = i
    BY <1>5 DEF Joined
  <2>4. StartedStep(p[c].step) \in {"lapsing", "holding"}
    BY DEF StartedStep
  <2> HIDE DEF S
  <2> QED
    BY <2>2, <2>3, <2>4 DEF CallerSteps
<1>7. caller' \in [Callers -> [step : CallerSteps, queue : 0..Len(queue)]]
  <2>1. \A c \in Callers : caller'[c] \in [step : CallerSteps, queue : 0..Len(queue)]
    BY <1>4, <1>6
  <2> QED
    BY <2>1, <1>4 DEF DrainedInto
<1>8. \A c \in Callers : \/ caller'[c] = caller[c]
                         \/ Joined(c) = i /\ caller'[c] = Away
                         \/ Joined(c) = i /\ caller'[c].queue = i /\ caller[c].step # "away"
  BY <1>4, <1>5, <1>6
<1>9. Waiters(i)' = Waiters(i) \ S
  <2>1. ASSUME NEW c \in Callers
        PROVE  c \in Waiters(i)' <=> c \in Waiters(i) \ S
    <3> HIDE DEF S
    <3> QED
      BY <1>4, <1>5, <1>6 DEF Waiters, Joined, Away
  <2> QED
    BY <2>1 DEF Waiters
<1>10. Occupants(i)' = O \cup S
  <2>1. ASSUME NEW c \in Callers
        PROVE  c \in Occupants(i)' <=> c \in O \cup S
    <3> HIDE DEF S
    <3> QED
      BY <1>4, <1>5, <1>6 DEF Occupants, Joined, Away
  <2>2. S \subseteq Callers /\ O \subseteq Callers
    BY <1>5 DEF Occupants
  <2> QED
    BY <2>1, <2>2 DEF Occupants
<1>11. queue'[i] = Drained(r)
  BY <1>4 DEF Queues, SessionInv, SessionTypes
<1>12. LockOK(i)'
  <2> HIDE DEF S, O
  <2> QED
    BY <1>1, <1>2, <1>9, <1>10, <1>11 DEF LockOK
<1> HIDE DEF S, O
<1> QED
  BY <1>3, <1>4, <1>7, <1>8, <1>12, OneLockMoves

\* A caller that gives up the slot of its queue, whether it held the lock or lapsed
LEMMA LeaverInv ==
  ASSUME SessionInv, NEW c \in Callers, caller[c].step \in {"lapsing", "holding"},
         DrainedInto(Joined(c), Freed(queue[Joined(c)]), Left(c)),
         UNCHANGED <<madeFor, current>>
  PROVE  SessionInv'
<1> DEFINE i == Joined(c)
           r == Freed(queue[i])
           p == Left(c)
<1>1. i \in Queues
  BY InvFields
<1>2. Accounts(queue[i], Waiters(i), Occupants(i)) /\ queue[i].limit = 1 /\ queue[i].active <= 1
  BY <1>1 DEF SessionInv, LockOK
<1>3. c \in Occupants(i)
  BY DEF Occupants
<1>4. Accounts(r, Waiters(i), Occupants(i) \ {c}) /\ r.limit = 1
  BY <1>2, <1>3, FreeAccounts
<1>5. r.active <= 1
  BY <1>2, AccountsFields DEF Freed
<1>6. \A d \in Callers : p[d] = IF d = c THEN Away ELSE caller[d]
  BY InvFields DEF Left, SessionInv, SessionTypes
<1>7. p \in [Callers -> [step : CallerSteps, queue : 0..Len(queue)]]
  BY InvFields DEF Left, SessionInv, SessionTypes, Away, CallerSteps
<1>8. Occupants(i) \ {c} = {d \in Occupants(i) : p[d] = caller[d]}
  BY <1>6 DEF Occupants, Away
<1>9. \A d \in Waiters(i) : p[d] = caller[d]
  BY <1>6 DEF Waiters
<1>10. \A d \in Callers : p[d] = caller[d] \/ (Joined(d) = i /\ p[d] = Away)
  BY <1>6
<1> HIDE DEF i, r, p
<1>11. DrainedInto(i, r, p)
  BY DEF i, r, p
<1> QED
  BY <1>1, <1>4, <1>5, <1>7, <1>8, <1>9, <1>10, <1>11, DrainedLock

\* A waiter whose timer fires stays in the line.
LEMMA TimeOutInv == ASSUME SessionInv, NEW c \in Callers, TimeOut(c) PROVE SessionInv'
<1>1. caller' = [caller EXCEPT ![c].step = "timedOut"] /\ caller[c].step = "waiting"
      /\ UNCHANGED <<queue, madeFor, current>>
  BY DEF TimeOut
<1>2. /\ caller' \in [Callers -> [step : CallerSteps, queue : 0..Len(queue)]]
      /\ \A d \in Callers : caller'[d].queue = caller[d].queue
      /\ \A d \in Callers : d # c => caller'[d] = caller[d]
      /\ caller'[c].step = "timedOut"
  BY <1>1 DEF SessionInv, SessionTypes, CallerSteps
<1>3. \A i \in Queues : Waiters(i)' = Waiters(i) /\ Occupants(i)' = Occupants(i)
  BY <1>1, <1>2 DEF Waiters, Occupants, Joined
<1>4. Queues' = Queues /\ \A i \in Queues : LockOK(i)'
  BY <1>1, <1>3 DEF SessionInv, LockOK, Queues
<1>5. SessionTypes' /\ Together'
  BY <1>1, <1>2 DEF SessionInv, SessionTypes, Together, Joined
<1> QED
  BY <1>4, <1>5 DEF SessionInv

\* The clean-up takes a queue off the map only when nobody is in it.
LEMMA CleanUpInv == ASSUME SessionInv, CleanUp PROVE SessionInv'
<1>1. /\ UNCHANGED <<queue, madeFor, caller>>
      /\ current' = [s \in Sessions |->
                        IF current[s] \in idle /\ Unused(current[s]) THEN 0 ELSE current[s]]
  BY DEF CleanUp
<1>2. SessionTypes' /\ \A s \in Sessions : current'[s] # 0 => current'[s] = current[s]
  BY <1>1 DEF SessionInv, SessionTypes
<1>3. Queues' = Queues /\ \A i \in Queues : LockOK(i)'
  BY <1>1 DEF SessionInv, LockOK, Waiters, Occupants, Joined, Queues
<1>4. ASSUME NEW c \in Callers, caller[c].step # "away" PROVE ~Unused(Joined(c))
  <2>1. Joined(c) \in Queues /\ caller[c].step \in CallerSteps
    BY <1>4, InvFields
  <2>2. c \in Waiters(Joined(c)) \/ c \in Occupants(Joined(c))
    BY <1>4, <2>1 DEF Waiters, Occupants, CallerSteps
  <2>3. Accounts(queue[Joined(c)], Waiters(Joined(c)), Occupants(Joined(c)))
    BY <2>1 DEF SessionInv, LockOK
  <2>4. CASE c \in Waiters(Joined(c))
    <3>1. \E i \in 1..Len(queue[Joined(c)].waiting) : queue[Joined(c)].waiting[i] = c
      BY <2>3, <2>4 DEF Accounts
    <3>2. queue[Joined(c)].waiting # <<>>
      BY <3>1
    <3> QED
      BY <3>2 DEF Unused
  <2>5. CASE c \in Occupants(Joined(c))
    <3>1. queue[Joined(c)].active # 0
      BY <2>3, <2>5, FS_EmptySet DEF Accounts
    <3> QED
      BY <3>1 DEF Unused
  <2> QED
    BY <2>2, <2>4, <2>5
<1>5. Together'
  <2>1. ASSUME NEW c \in Callers, caller[c].step # "away"
        PROVE  current'[madeFor[Joined(c)]] = current[madeFor[Joined(c)]]
    <3>1. Joined(c) \in Queues /\ madeFor[Joined(c)] \in Sessions
      BY <2>1, InvFields
    <3>2. current[madeFor[Joined(c)]] = Joined(c)
      BY <2>1 DEF SessionInv, Together
    <3> QED
      BY <1>1, <1>4, <2>1, <3>1, <3>2
  <2> QED
    BY <1>1, <1>2, <2>1 DEF SessionInv, Together, Joined
<1> QED
  BY <1>2, <1>3, <1>5 DEF SessionInv

\* The entry a caller finds or makes for its session: a lock like the others, and the one that
\* everybody of that session is in.
LEMMA FoundLock ==
  ASSUME SessionInv, NEW s \in Sessions, NEW i \in 1..(Len(queue) + 1), FindQueue(s, i)
  PROVE  /\ Found(i) \in Seq(QueueRecords) /\ Len(Found(i)) \in Nat
         /\ i \in 1..Len(Found(i)) /\ Len(queue) <= Len(Found(i))
         /\ madeFor' \in Seq(Sessions) /\ Len(madeFor') = Len(Found(i))
         /\ current' \in [Sessions -> 0..Len(Found(i))]
         /\ \A j \in 1..Len(Found(i)) :
               /\ Accounts(Found(i)[j], Waiters(j), Occupants(j)) /\ Served(Found(i)[j])
               /\ Found(i)[j].limit = 1 /\ Found(i)[j].active <= 1
         /\ madeFor'[i] = s /\ current'[s] = i
         /\ \A z \in Sessions : current'[z] # 0 => madeFor'[current'[z]] = z
         /\ \A c \in Callers :
               caller[c].step # "away" => Joined(c) # 0 /\ current'[madeFor'[Joined(c)]] = Joined(c)
<1> DEFINE n == Len(queue)
<1>1. /\ queue \in Seq(QueueRecords) /\ n \in Nat
      /\ madeFor \in Seq(Sessions) /\ Len(madeFor) = n
      /\ current \in [Sessions -> 0..n]
      /\ Queues = 1..n
  BY DEF SessionInv, SessionTypes, Queues
<1>2. /\ \A j \in 1..n : /\ Accounts(queue[j], Waiters(j), Occupants(j)) /\ Served(queue[j])
                         /\ queue[j].limit = 1 /\ queue[j].active <= 1
      /\ \A z \in Sessions : current[z] # 0 => madeFor[current[z]] = z
      /\ \A c \in Callers : caller[c].step # "away" =>
             /\ Joined(c) \in 1..n /\ madeFor[Joined(c)] \in Sessions
             /\ current[madeFor[Joined(c)]] = Joined(c)
  BY <1>1, InvFields DEF SessionInv, LockOK, Together
<1>3. CASE current[s] # 0
  <2>1. i = current[s] /\ current' = current /\ madeFor' = madeFor /\ Found(i) = queue
    BY <1>1, <1>3 DEF FindQueue, Found
  <2> QED
    BY <1>1, <1>2, <1>3, <2>1
<1>4. CASE current[s] = 0
  <2> DEFINE Q == Append(queue, NewQueue(1))
  <2>1. /\ i = n + 1 /\ madeFor' = Append(madeFor, s)
        /\ current' = [current EXCEPT ![s] = i] /\ Found(i) = Q
    BY <1>1, <1>4 DEF FindQueue, Found
  <2>2. NewQueue(1) \in QueueRecords /\ NewQueue(1).active = 0
    BY DEF NewQueue, QueueRecords
  <2>3. /\ Q \in Seq(QueueRecords) /\ Len(Q) = n + 1
        /\ \A j \in 1..n : Q[j] = queue[j]
        /\ Q[i] = NewQueue(1)
    BY <1>1, <2>1, <2>2
  <2>4. /\ madeFor' \in Seq(Sessions) /\ Len(madeFor') = n + 1
        /\ \A j \in 1..n : madeFor'[j] = madeFor[j]
        /\ madeFor'[i] = s
    BY <1>1, <2>1
  <2>5. /\ current' \in [Sessions -> 0..(n + 1)] /\ current'[s] = i
        /\ \A z \in Sessions : z # s => current'[z] = current[z]
    BY <1>1, <2>1
  <2>6. Waiters(i) = {} /\ Occupants(i) = {}
    BY <1>1, <1>2, <2>1 DEF Waiters, Occupants
  <2>7. /\ Accounts(Q[i], Waiters(i), Occupants(i)) /\ Served(Q[i])
        /\ Q[i].limit = 1 /\ Q[i].active <= 1
    BY <2>2, <2>3, <2>6, FreshAccounts
  <2> HIDE DEF Q
  <2>8. \A j \in 1..Len(Q) : /\ Accounts(Q[j], Waiters(j), Occupants(j)) /\ Served(Q[j])
                             /\ Q[j].limit = 1 /\ Q[j].active <= 1
    <3>1. SUFFICES ASSUME NEW j \in 1..Len(Q)
                   PROVE  /\ Accounts(Q[j], Waiters(j), Occupants(j)) /\ Served(Q[j])
                          /\ Q[j].limit = 1 /\ Q[j].active <= 1
      OBVIOUS
    <3>2. j \in 1..n \/ j = i
      BY <1>1, <2>1, <2>3
    <3> QED
      BY <1>2, <2>3, <2>7, <3>2
  <2>9. ASSUME NEW z \in Sessions, current'[z] # 0 PROVE madeFor'[current'[z]] = z
    <3>1. CASE z = s
      BY <2>4, <2>5, <3>1
    <3>2. CASE z # s
      <4>1. current'[z] = current[z] /\ current[z] \in 1..n
        BY <1>1, <2>5, <2>9, <3>2
      <4> QED
        BY <1>2, <2>4, <2>9, <4>1
    <3> QED
      BY <3>1, <3>2
  <2>10. ASSUME NEW c \in Callers, caller[c].step # "away"
         PROVE  Joined(c) # 0 /\ current'[madeFor'[Joined(c)]] = Joined(c)
    <3>1. /\ Joined(c) \in 1..n /\ madeFor[Joined(c)] \in Sessions
          /\ current[madeFor[Joined(c)]] = Joined(c)
      BY <1>2, <2>10
    <3>2. madeFor'[Joined(c)] = madeFor[Joined(c)] /\ Joined(c) # 0
      BY <1>1, <2>4, <3>1
    <3>3. madeFor[Joined(c)] # s
      BY <1>4, <3>1, <3>2
    <3> QED
      BY <2>5, <3>1, <3>2, <3>3
  <2>11. i \in 1..(n + 1) /\ n <= n + 1 /\ n + 1 \in Nat
    BY <1>1, <2>1
  <2> HIDE DEF n
  <2>12. Found(i) \in Seq(QueueRecords) /\ Len(Found(i)) = n + 1
    BY <2>1, <2>3
  <2>13. \A j \in 1..Len(Found(i)) :
           /\ Accounts(Found(i)[j], Waiters(j), Occupants(j)) /\ Served(Found(i)[j])
           /\ Found(i)[j].limit = 1 /\ Found(i)[j].active <= 1
    BY <2>1, <2>8
  <2> QED
    BY <2>4, <2>5, <2>9, <2>10, <2>11, <2>12, <2>13 DEF n
<1> QED
  BY <1>3, <1>4

LEMMA AcquireInv ==
  ASSUME SessionInv, NEW c \in Callers, NEW s \in Sessions, Acquire(c, s)
  PROVE  SessionInv'
<1>1. caller[c].step = "away"
  BY DEF Acquire
<1>2. PICK i \in 1..(Len(queue) + 1) :
        /\ FindQueue(s, i)
        /\ LET lock == Found(i)[i] IN
           IF Full(lock)
           THEN queue' = Found(i) /\ UNCHANGED caller
           ELSE /\ queue' = [Found(i) EXCEPT ![i] = Added(lock, c)]
                /\ caller' = [caller EXCEPT ![c] =
                       [step |-> IF HasRoom(lock) THEN "holding" ELSE "waiting", queue |-> i]]
  BY DEF Acquire
<1> DEFINE Q == Found(i)
           m == Len(Q)
<1>3. /\ Q \in Seq(QueueRecords) /\ m \in Nat /\ i \in 1..m /\ Len(queue) <= m
      /\ madeFor' \in Seq(Sessions) /\ Len(madeFor') = m
      /\ current' \in [Sessions -> 0..m]
      /\ \A j \in 1..m : /\ Accounts(Q[j], Waiters(j), Occupants(j)) /\ Served(Q[j])
                         /\ Q[j].limit = 1 /\ Q[j].active <= 1
      /\ madeFor'[i] = s /\ current'[s] = i
      /\ \A z \in Sessions : current'[z] # 0 => madeFor'[current'[z]] = z
      /\ \A d \in Callers :
            caller[d].step # "away" => Joined(d) # 0 /\ current'[madeFor'[Joined(d)]] = Joined(d)
  BY <1>2, FoundLock
<1>4. Len(queue) \in Nat /\ caller \in [Callers -> [step : CallerSteps, queue : 0..m]]
  <2>1. Len(queue) \in Nat /\ caller \in [Callers -> [step : CallerSteps, queue : 0..Len(queue)]]
    BY DEF SessionInv, SessionTypes
  <2>2. 0..Len(queue) \subseteq 0..m
    BY <1>3, <2>1
  <2> HIDE DEF m
  <2> QED
    BY <2>1, <2>2
<1> HIDE DEF Q, m
<1>5. CASE Full(Q[i])
  <2>1. queue' = Q /\ caller' = caller
    BY <1>2, <1>5 DEF Q
  <2>2. \A j \in 1..m : Waiters(j)' = Waiters(j) /\ Occupants(j)' = Occupants(j)
    BY <2>1 DEF Waiters, Occupants, Joined
  <2>3. Queues' = 1..m
    BY <2>1 DEF Queues, m
  <2>4. SessionTypes'
    BY <1>3, <1>4, <2>1 DEF SessionTypes, m
  <2>5. \A j \in Queues' : LockOK(j)'
    BY <1>3, <2>1, <2>2, <2>3 DEF LockOK
  <2>6. Together'
    BY <1>3, <2>1 DEF Together, Joined
  <2> QED
    BY <2>4, <2>5, <2>6 DEF SessionInv
<1>6. CASE ~Full(Q[i])
  <2> DEFINE a == Added(Q[i], c)
             x == [step |-> IF HasRoom(Q[i]) THEN "holding" ELSE "waiting", queue |-> i]
  <2>1. queue' = [Q EXCEPT ![i] = a] /\ caller' = [caller EXCEPT ![c] = x]
    BY <1>2, <1>6 DEF Q
  <2>2. c \notin Waiters(i) /\ c \notin Occupants(i)
    BY <1>1 DEF Waiters, Occupants
  <2>3. /\ HasRoom(Q[i]) => Accounts(a, Waiters(i), Occupants(i) \cup {c})
        /\ ~HasRoom(Q[i]) => Accounts(a, Waiters(i) \cup {c}, Occupants(i))
        /\ Served(a) /\ a.limit = 1
    <3>1. Accounts(Q[i], Waiters(i), Occupants(i)) /\ Served(Q[i]) /\ Q[i].limit = 1
      BY <1>3
    <3> DEFINE lock == Q[i]
               W == Waiters(i)
               O == Occupants(i)
    <3>2. Accounts(lock, W, O) /\ Served(lock) /\ c \notin W /\ c \notin O /\ lock.limit = 1
      BY <2>2, <3>1
    <3> HIDE DEF lock, W, O
    <3>3. /\ HasRoom(lock) => Accounts(Added(lock, c), W, O \cup {c})
          /\ ~HasRoom(lock) => Accounts(Added(lock, c), W \cup {c}, O)
          /\ Served(Added(lock, c)) /\ Added(lock, c).limit = 1
      BY <3>2, AddAccounts
    <3> QED
      BY <3>3 DEF lock, W, O
  <2>4. a.active <= 1 /\ a \in QueueRecords
    <3>1. Q[i] \in QueueRecords
      BY <1>3 DEF m
    <3>2. Q[i].active <= 1 /\ Q[i].limit = 1
      BY <1>3
    <3>3. CASE HasRoom(Q[i])
      <4>1. a = [Q[i] EXCEPT !.active = @ + 1]
        BY <3>3 DEF Added
      <4> QED
        BY <3>1, <3>2, <3>3, <4>1 DEF QueueRecords, HasRoom
    <3>4. CASE ~HasRoom(Q[i])
      <4>1. a = [Q[i] EXCEPT !.waiting = Append(@, c)]
        BY <3>4 DEF Added
      <4>2. Append(Q[i].waiting, c) \in Seq(Callers)
        BY <3>1 DEF QueueRecords
      <4> QED
        BY <3>1, <3>2, <4>1, <4>2 DEF QueueRecords
    <3> QED
      BY <3>3, <3>4
  <2>5. x \in [step : CallerSteps, queue : 0..m] /\ x.queue = i /\ x.step \in {"holding", "waiting"}
        /\ (x.step = "holding" <=> HasRoom(Q[i]))
    BY <1>3 DEF CallerSteps
  <2> HIDE DEF a, x
  <2>6. /\ caller' \in [Callers -> [step : CallerSteps, queue : 0..m]]
        /\ \A d \in Callers : caller'[d] = IF d = c THEN x ELSE caller[d]
    BY <1>4, <2>1, <2>5
  <2>7. /\ queue' \in Seq(QueueRecords) /\ Len(queue') = m /\ queue'[i] = a
        /\ \A j \in 1..m : j # i => queue'[j] = Q[j]
    BY <1>3, <2>1, <2>4 DEF m
  <2>8. Queues' = 1..m /\ SessionTypes'
    BY <1>3, <2>6, <2>7 DEF SessionTypes, Queues
  <2>9. ASSUME NEW j \in 1..m, j # i PROVE LockOK(j)'
    <3>1. Waiters(j)' = Waiters(j) /\ Occupants(j)' = Occupants(j)
      BY <1>1, <2>5, <2>6, <2>9 DEF Waiters, Occupants, Joined
    <3> QED
      BY <1>3, <2>7, <2>9, <3>1 DEF LockOK
  <2>10. LockOK(i)'
    <3>1. CASE HasRoom(Q[i])
      <4>1. Waiters(i)' = Waiters(i) /\ Occupants(i)' = Occupants(i) \cup {c}
        BY <1>1, <2>5, <2>6, <3>1 DEF Waiters, Occupants, Joined
      <4> QED
        BY <2>3, <2>4, <2>7, <3>1, <4>1 DEF LockOK
    <3>2. CASE ~HasRoom(Q[i])
      <4>1. Waiters(i)' = Waiters(i) \cup {c} /\ Occupants(i)' = Occupants(i)
        BY <1>1, <2>5, <2>6, <3>2 DEF Waiters, Occupants, Joined
      <4> QED
        BY <2>3, <2>4, <2>7, <3>2, <4>1 DEF LockOK
    <3> QED
      BY <3>1, <3>2
  <2>11. Together'
    BY <1>3, <2>5, <2>6 DEF Together, Joined
  <2> QED
    BY <2>8, <2>9, <2>10, <2>11 DEF SessionInv
<1> QED
  BY <1>5, <1>6

LEMMA SessionNextInv == SessionInv /\ [SessionNext]_sessionVars => SessionInv'
<1> SUFFICES ASSUME SessionInv, [SessionNext]_sessionVars PROVE SessionInv'
  OBVIOUS
<1>1. ASSUME NEW c \in Callers, NEW s \in Sessions, Acquire(c, s) PROVE SessionInv'
  BY <1>1, AcquireInv
<1>2. ASSUME NEW c \in Callers, TimeOut(c) PROVE SessionInv'
  BY <1>2, TimeOutInv
<1>3. ASSUME NEW c \in Callers, Lapse(c) PROVE SessionInv'
  BY <1>3, LeaverInv DEF Lapse
<1>4. ASSUME NEW c \in Callers, ReleaseLock(c) PROVE SessionInv'
  BY <1>4, LeaverInv DEF ReleaseLock
<1>5. ASSUME UNCHANGED <<queue, madeFor, current, caller>> PROVE SessionInv'
  BY <1>5 DEF SessionInv, SessionTypes, Together, LockOK, Waiters, Occupants, Joined, Queues
<1>6. ASSUME NEW i \in Queues, TtlPasses(i) PROVE SessionInv'
  BY <1>5, <1>6 DEF TtlPasses
<1>7. CASE CleanUp
  BY <1>7, CleanUpInv
<1>8. CASE UNCHANGED sessionVars
  BY <1>5, <1>8 DEF sessionVars
<1> QED
  BY <1>1, <1>2, <1>3, <1>4, <1>6, <1>7, <1>8 DEF SessionNext, CallerNext

\* The locks' inductive invariant: the counter and the line of every queue tell who is in it
\* (sessionQueueManager.ts over asyncQueue.ts), and the map names the queue everybody of a
\* session is in.
THEOREM LocksInvariant == SessionSpec => []SessionInv
  BY SessionInitInv, SessionNextInv, PTL DEF SessionSpec

\* At most one request of a session is in its critical section, and all requests of a session
\* meet in one queue, for every number of callers and sessions: acquireLock, release and the
\* timer against cleanupIdleQueues.
THEOREM SessionsAreExclusive == SessionSpec => []OneHolder
<1>1. SessionInv => OneHolder
  <2> SUFFICES ASSUME SessionInv PROVE OneHolder
    OBVIOUS
  <2>1. ASSUME NEW s \in Sessions, NEW c \in Callers, NEW d \in Callers, Holds(c, s), Holds(d, s)
        PROVE  c = d
    <3> DEFINE i == Joined(c)
    <3>1. i \in Queues /\ i = Joined(d)
      BY <2>1, InvFields DEF Holds, SessionInv, Together
    <3>2. c \in Occupants(i) /\ d \in Occupants(i)
      BY <2>1, <3>1 DEF Holds, Occupants
    <3>3. Accounts(queue[i], Waiters(i), Occupants(i)) /\ queue[i].active <= 1
      BY <3>1 DEF SessionInv, LockOK
    <3> QED
      BY <3>2, <3>3, OneSlot
  <2> QED
    BY <2>1 DEF OneHolder, SessionInv, Together
<1> QED
  BY <1>1, LocksInvariant, PTL

-----------------------------------------------------------------------------
(* AsyncQueue, for any limits, when tasks call hold() at most once.  Every action that  *)
(* frees a slot or moves the limit ends with the drain of processQueue(), so the        *)
(* argument is one lemma about the drain (what it starts, what it leaves, and that it   *)
(* keeps counter and slots in step) and one short step per action.                      *)

QueueType == [limit : Limits, active : Int, waiting : Seq(Tasks)]
PCType == [Tasks -> {"new", "queued", "running", "settled"}]
CountType == [Tasks -> Nat]

LEMMA LimitsPositive == \A n \in Limits : n \in Nat /\ n > 0
BY LimitsAssumption

LEMMA NumStartedBounds ==
  ASSUME NEW r \in QueueType
  PROVE  /\ NumStarted(r) \in 0..Len(r.waiting)
         /\ NumStarted(r) > 0 => r.active + NumStarted(r) <= r.limit
         /\ NumStarted(r) < Len(r.waiting) => r.active + NumStarted(r) >= r.limit
<1>1. r.limit \in Int /\ r.active \in Int /\ Len(r.waiting) \in Nat
  BY LimitsPositive DEF QueueType
<1> QED
  BY <1>1 DEF NumStarted, HasRoom

LEMMA DrainedFields ==
  ASSUME NEW r \in QueueType
  PROVE  /\ Drained(r) \in QueueType
         /\ Drained(r).limit = r.limit
         /\ Drained(r).active = r.active + NumStarted(r)
         /\ Drained(r).waiting = SubSeq(r.waiting, NumStarted(r) + 1, Len(r.waiting))
         /\ Len(Drained(r).waiting) = Len(r.waiting) - NumStarted(r)
         /\ \A i \in 1..Len(Drained(r).waiting) :
               /\ i + NumStarted(r) \in 1..Len(r.waiting)
               /\ Drained(r).waiting[i] = r.waiting[i + NumStarted(r)]
         /\ Drained(r).waiting # <<>> => ~HasRoom(Drained(r))
<1> DEFINE n == NumStarted(r)
           w == r.waiting
           v == SubSeq(w, n + 1, Len(w))
<1>1. n \in 0..Len(w) /\ (n < Len(w) => r.active + n >= r.limit)
  BY NumStartedBounds
<1>2. w \in Seq(Tasks) /\ Len(w) \in Nat /\ r.active \in Int /\ r.limit \in Limits
  BY DEF QueueType
<1>3. v \in Seq(Tasks) /\ Len(v) = Len(w) - n
  BY <1>1, <1>2
<1>4. \A i \in 1..Len(v) : i + n \in 1..Len(w) /\ v[i] = w[i + n]
  <2>1. n \in Nat /\ n <= Len(w)
    BY <1>1, <1>2
  <2>2. \A i \in 1..Len(v) : i + n \in 1..Len(w)
    BY <1>2, <1>3, <2>1
  <2>3. \A i \in 1..Len(v) : v[i] = w[i + n]
    BY <1>2, <1>3, <2>1
  <2> QED
    BY <2>2, <2>3
<1>5. Drained(r) = [limit |-> r.limit, active |-> r.active + n, waiting |-> v]
  BY DEF Drained, QueueType
<1>6. r.active + n \in Int
  BY <1>1, <1>2
<1>7. v # <<>> => ~(r.active + n < r.limit)
  <2>1. SUFFICES ASSUME v # <<>> PROVE ~(r.active + n < r.limit)
    OBVIOUS
  <2>2. Len(v) # 0
    BY <2>1, <1>3
  <2>3. r.limit \in Int
    BY <1>2, LimitsPositive
  <2> QED
    BY <2>2, <2>3, <1>1, <1>2, <1>3
<1>8. /\ Drained(r).limit = r.limit
      /\ Drained(r).active = r.active + n
      /\ Drained(r).waiting = v
      /\ Drained(r) \in QueueType
  <2> HIDE DEF v, n
  <2> QED
    BY <1>2, <1>3, <1>5, <1>6 DEF QueueType
<1>9. v # <<>> => ~HasRoom(Drained(r))
  BY <1>7, <1>8 DEF HasRoom
<1>10. Drained(r).waiting = SubSeq(r.waiting, NumStarted(r) + 1, Len(r.waiting))
  BY <1>8
<1> HIDE DEF v
<1> QED
  BY <1>3, <1>4, <1>8, <1>9, <1>10

\* The drain as a whole: see the head of the module.
LEMMA DrainKeepsAccounts ==
  ASSUME NEW r \in QueueType, NEW p \in PCType,
         NEW h \in CountType, NEW u \in CountType,
         Matches(r, p), HoldsOK(p, h, u),
         r.active = Cardinality(OccupiersOf(p, h, u))
  PROVE  /\ StartedIn(r, p) \in PCType
         /\ Matches(Drained(r), StartedIn(r, p))
         /\ HoldsOK(StartedIn(r, p), h, u)
         /\ Drained(r).active = Cardinality(OccupiersOf(StartedIn(r, p), h, u))
         /\ OccupiersOf(StartedIn(r, p), h, u)
               = OccupiersOf(p, h, u) \cup {r.waiting[i] : i \in 1..NumStarted(r)}
<1> DEFINE n == NumStarted(r)
           w == r.waiting
           S == Started(r)
           p1 == StartedIn(r, p)
           Occ == OccupiersOf(p, h, u)
<1>1. n \in 0..Len(w) /\ w \in Seq(Tasks) /\ Len(w) \in Nat
  BY NumStartedBounds DEF QueueType
<1>2. S = {w[i] : i \in 1..n} /\ S \subseteq Tasks
  BY <1>1 DEF Started
<1>3. \A t \in S : p[t] = "queued" /\ h[t] = 0 /\ u[t] = 0
  BY <1>1, <1>2 DEF Matches, HoldsOK, CountType
<1>4. p1 \in PCType /\ \A t \in Tasks : p1[t] = IF t \in S THEN "running" ELSE p[t]
  BY DEF StartedIn, PCType
<1>5. OccupiersOf(p1, h, u) = Occ \cup S
  BY <1>2, <1>3, <1>4 DEF OccupiersOf
<1>6. Occ \cap S = {}
  BY <1>3 DEF OccupiersOf
<1>7. IsFiniteSet(S) /\ Cardinality(S) = n
  <2> DEFINE f == [i \in 1..n |-> w[i]]
  <2>1. f \in Bijection(1..n, S)
    BY <1>1, <1>2 DEF Bijection, Injection, Surjection, IsInjective, Matches
  <2>2. IsFiniteSet(1..n) /\ Cardinality(1..n) = n
    BY <1>1, FS_Interval
  <2> QED
    BY <2>1, <2>2, FS_Bijection DEF ExistsBijection
<1>8. IsFiniteSet(Occ)
  BY TasksAssumption, FS_Subset DEF OccupiersOf
<1>9. Cardinality(Occ \cup S) = r.active + n
  <2>1. Cardinality(Occ \cap S) = 0
    BY <1>6, FS_EmptySet
  <2>2. Cardinality(Occ \cup S) = Cardinality(Occ) + Cardinality(S) - Cardinality(Occ \cap S)
    BY <1>7, <1>8, FS_Union
  <2>3. Cardinality(Occ) = r.active /\ r.active \in Int /\ n \in Nat
    BY <1>1 DEF QueueType
  <2> HIDE DEF Occ, S, n
  <2> QED
    BY <2>1, <2>2, <2>3, <1>7
<1>10. Matches(Drained(r), p1)
  <2> DEFINE v == Drained(r).waiting
  <2>1. /\ Len(v) = Len(w) - n
        /\ \A i \in 1..Len(v) : i + n \in 1..Len(w) /\ v[i] = w[i + n]
    BY DrainedFields
  <2>2. \A i, j \in 1..Len(v) : v[i] = v[j] => i = j
    <3>1. SUFFICES ASSUME NEW i \in 1..Len(v), NEW j \in 1..Len(v), v[i] = v[j]
                   PROVE  i = j
      OBVIOUS
    <3>2. i + n = j + n
      BY <3>1, <2>1 DEF Matches
    <3> QED
      BY <3>2, <1>1, <2>1
  <2>3. ASSUME NEW t \in Tasks, p1[t] = "queued"
        PROVE  \E i \in 1..Len(v) : v[i] = t
    <3>1. p[t] = "queued" /\ t \notin S
      BY <2>3, <1>4
    <3>2. PICK k \in 1..Len(w) : w[k] = t
      BY <3>1 DEF Matches
    <3>3. k > n
      BY <3>1, <3>2, <1>1, <1>2
    <3>4. k - n \in 1..Len(v) /\ (k - n) + n = k
      BY <3>3, <1>1, <2>1
    <3> QED
      BY <3>2, <3>4, <2>1
  <2>4. ASSUME NEW t \in Tasks, NEW i \in 1..Len(v), v[i] = t
        PROVE  p1[t] = "queued"
    <3>1. i + n \in 1..Len(w) /\ w[i + n] = t
      BY <2>4, <2>1
    <3>2. p[t] = "queued"
      BY <3>1 DEF Matches
    <3>3. t \notin S
      <4>1. SUFFICES ASSUME NEW j \in 1..n, w[j] = t PROVE FALSE
        BY <1>2
      <4>2. j = i + n
        BY <4>1, <3>1, <1>1 DEF Matches
      <4> QED
        BY <4>2, <1>1, <2>1
    <3> QED
      BY <3>2, <3>3, <1>4
  <2> QED
    BY <2>2, <2>3, <2>4 DEF Matches
<1>11. HoldsOK(p1, h, u)
  BY <1>4 DEF HoldsOK
<1>12. Drained(r).active = r.active + n
  BY DrainedFields
<1> HIDE DEF n, S, p1, Occ
<1> QED
  BY <1>2, <1>4, <1>5, <1>9, <1>10, <1>11, <1>12 DEF n, S, p1, Occ

-----------------------------------------------------------------------------
\* A fresh queue satisfies the invariant.
LEMMA InitIInv == QueueInit => IInv
<1> SUFFICES ASSUME QueueInit PROVE IInv
  OBVIOUS
<1>1. PICK n \in Limits : q = NewQueue(n)
  BY DEF QueueInit
<1>2. /\ q = [limit |-> n, active |-> 0, waiting |-> <<>>]
      /\ pc = [t \in Tasks |-> "new"]
      /\ holds = [t \in Tasks |-> 0]
      /\ unreleased = [t \in Tasks |-> 0]
  BY <1>1 DEF QueueInit, NewQueue
<1>3. QueueTypeOK
  BY <1>2 DEF QueueTypeOK
<1>4. Occupiers = {}
  BY <1>2 DEF Occupiers, OccupiersOf
<1> QED
  BY <1>2, <1>3, <1>4, FS_EmptySet
     DEF IInv, QueueMatches, Matches, NoIdleSlot, ActiveIsOccupancy, HoldsOK

\* Any step that is a drain of an accounted-for queue keeps the invariant.
LEMMA ProcessQueueIInv ==
  ASSUME NEW r \in QueueType, NEW p \in PCType,
         holds' \in CountType, unreleased' \in CountType,
         Matches(r, p), HoldsOK(p, holds', unreleased'),
         r.active = Cardinality(OccupiersOf(p, holds', unreleased')),
         ProcessQueue(r, p)
  PROVE  IInv'
<1>1. q' = Drained(r) /\ pc' = StartedIn(r, p)
  BY DEF ProcessQueue
<1>2. /\ pc' \in PCType
      /\ Matches(q', pc')
      /\ HoldsOK(pc', holds', unreleased')
      /\ q'.active = Cardinality(OccupiersOf(pc', holds', unreleased'))
  BY <1>1, DrainKeepsAccounts
<1>3. q' \in QueueType /\ (q'.waiting # <<>> => ~HasRoom(q'))
  BY <1>1, DrainedFields
<1>4. QueueTypeOK'
  BY <1>2, <1>3 DEF QueueTypeOK, QueueType, PCType, CountType
<1>5. Occupiers' = OccupiersOf(pc', holds', unreleased')
  BY DEF Occupiers
<1> QED
  BY <1>2, <1>3, <1>4, <1>5
     DEF IInv, QueueMatches, NoIdleSlot, ActiveIsOccupancy

LEMMA IInvTypes ==
  ASSUME IInv
  PROVE  /\ q \in QueueType /\ pc \in PCType
         /\ holds \in CountType /\ unreleased \in CountType
         /\ Matches(q, pc) /\ HoldsOK(pc, holds, unreleased)
         /\ q.active = Cardinality(OccupiersOf(pc, holds, unreleased))
         /\ IsFiniteSet(OccupiersOf(pc, holds, unreleased))
         /\ (q.waiting # <<>> => ~HasRoom(q))
<1>1. IsFiniteSet(OccupiersOf(pc, holds, unreleased))
  BY TasksAssumption, FS_Subset DEF OccupiersOf
<1> QED
  BY <1>1 DEF IInv, QueueTypeOK, QueueMatches, NoIdleSlot, ActiveIsOccupancy,
              Occupiers, QueueType, PCType, CountType

\* The queue after activeCount-- has the same line and limit.
LEMMA FreedFields ==
  ASSUME NEW r \in QueueType
  PROVE  /\ Freed(r) \in QueueType
         /\ Freed(r).limit = r.limit
         /\ Freed(r).waiting = r.waiting
         /\ Freed(r).active = r.active - 1
BY DEF Freed, QueueType

\* Taking one task out of a slot lowers the number of slots in use by one.
LEMMA OneOccupierLess ==
  ASSUME NEW p \in PCType, NEW h \in CountType, NEW u \in CountType,
         NEW p1 \in PCType, NEW u1 \in CountType, NEW t,
         t \in OccupiersOf(p, h, u),
         OccupiersOf(p1, h, u1) = OccupiersOf(p, h, u) \ {t}
  PROVE  Cardinality(OccupiersOf(p1, h, u1)) = Cardinality(OccupiersOf(p, h, u)) - 1
<1>1. IsFiniteSet(OccupiersOf(p, h, u))
  BY TasksAssumption, FS_Subset DEF OccupiersOf
<1> QED
  BY <1>1, FS_RemoveElement

LEMMA AddIInv == ASSUME IInv, NEW t \in Tasks, Add(t) PROVE IInv'
<1> USE IInvTypes
<1>1. pc[t] = "new" /\ holds[t] = 0 /\ unreleased[t] = 0
  BY DEF Add, HoldsOK, PCType, CountType
<1>2. holds' = holds /\ unreleased' = unreleased
  BY DEF Add
<1>3. CASE HasRoom(q)
  <2>1. q.waiting = <<>>
    BY <1>3
  <2>2. /\ q' = [q EXCEPT !.active = @ + 1]
        /\ pc' = [pc EXCEPT ![t] = "running"]
    BY <1>3 DEF Add, Added
  <2>3. /\ q'.limit = q.limit /\ q'.waiting = <<>> /\ q'.active = q.active + 1
        /\ q' \in QueueType /\ pc' \in PCType
    BY <2>1, <2>2 DEF QueueType, PCType
  <2>4. \A v \in Tasks : pc'[v] = IF v = t THEN "running" ELSE pc[v]
    BY <2>2 DEF PCType
  <2>5. Matches(q', pc')
    BY <2>1, <2>3, <2>4 DEF Matches
  <2>6. HoldsOK(pc', holds, unreleased)
    BY <2>4 DEF HoldsOK
  <2>7. OccupiersOf(pc', holds, unreleased)
           = OccupiersOf(pc, holds, unreleased) \cup {t}
    BY <1>1, <2>4 DEF OccupiersOf
  <2>8. t \notin OccupiersOf(pc, holds, unreleased)
    BY <1>1 DEF OccupiersOf
  <2>9. q'.active = Cardinality(OccupiersOf(pc', holds, unreleased))
    BY <2>3, <2>7, <2>8, FS_AddElement
  <2> QED
    BY <1>2, <2>3, <2>5, <2>6, <2>9
       DEF IInv, QueueTypeOK, QueueMatches, NoIdleSlot, ActiveIsOccupancy,
           Occupiers, QueueType, PCType, CountType
<1>4. CASE ~HasRoom(q)
  <2> DEFINE w == q.waiting
             k == Len(w) + 1
  <2>1. /\ q' = [q EXCEPT !.waiting = Append(w, t)]
        /\ pc' = [pc EXCEPT ![t] = "queued"]
    BY <1>4 DEF Add, Added
  <2>2. w \in Seq(Tasks) /\ Len(w) \in Nat
    BY DEF QueueType
  <2>3. /\ q'.limit = q.limit /\ q'.waiting = Append(w, t) /\ q'.active = q.active
        /\ q' \in QueueType /\ pc' \in PCType
    <3>1. Append(w, t) \in Seq(Tasks)
      BY <2>2
    <3> HIDE DEF w
    <3> QED
      BY <2>1, <3>1 DEF QueueType, PCType
  <2>4. \A v \in Tasks : pc'[v] = IF v = t THEN "queued" ELSE pc[v]
    BY <2>1 DEF PCType
  <2>5. /\ Len(q'.waiting) = k
        /\ \A i \in 1..Len(w) : q'.waiting[i] = w[i]
        /\ q'.waiting[k] = t
    BY <2>2, <2>3
  <2>6. \A i \in 1..Len(w) : w[i] # t
    BY <1>1 DEF Matches
  <2>7. 1..k = (1..Len(w)) \cup {k} /\ k \notin 1..Len(w)
    BY <2>2
  <2>8. Matches(q', pc')
    <3> HIDE DEF k, w
    <3>1. \A i, j \in 1..Len(q'.waiting) : q'.waiting[i] = q'.waiting[j] => i = j
      BY <2>5, <2>6, <2>7 DEF Matches, w
    <3>2. \A v \in Tasks :
             (pc'[v] = "queued") <=> \E i \in 1..Len(q'.waiting) : q'.waiting[i] = v
      BY <2>4, <2>5, <2>6, <2>7 DEF Matches, w
    <3> QED
      BY <3>1, <3>2 DEF Matches
  <2>9. HoldsOK(pc', holds, unreleased)
    BY <1>1, <2>4 DEF HoldsOK
  <2>10. OccupiersOf(pc', holds, unreleased) = OccupiersOf(pc, holds, unreleased)
    BY <1>1, <2>4 DEF OccupiersOf
  <2>11. ~HasRoom(q')
    BY <1>4, <2>3 DEF HasRoom
  <2> QED
    BY <1>2, <2>3, <2>8, <2>9, <2>10, <2>11
       DEF IInv, QueueTypeOK, QueueMatches, NoIdleSlot, ActiveIsOccupancy,
           Occupiers, QueueType, PCType, CountType
<1> QED
  BY <1>3, <1>4

LEMMA HoldIInv ==
  ASSUME IInv, HoldsPerTask = 1, NEW t \in Tasks, Hold(t) PROVE IInv'
<1> USE IInvTypes
<1>1. /\ pc[t] = "running" /\ holds[t] = 0 /\ unreleased[t] = 0
      /\ q' = q /\ pc' = pc
      /\ holds' = [holds EXCEPT ![t] = @ + 1]
      /\ unreleased' = [unreleased EXCEPT ![t] = @ + 1]
  BY DEF Hold, HoldsOK, CountType
<1>2. \A v \in Tasks : /\ holds'[v] = IF v = t THEN 1 ELSE holds[v]
                       /\ unreleased'[v] = IF v = t THEN 1 ELSE unreleased[v]
  BY <1>1 DEF CountType
<1>3. holds' \in CountType /\ unreleased' \in CountType
  BY <1>1 DEF CountType
<1>4. HoldsOK(pc, holds', unreleased')
  BY <1>1, <1>2 DEF HoldsOK
<1>5. OccupiersOf(pc, holds', unreleased') = OccupiersOf(pc, holds, unreleased)
  BY <1>1, <1>2 DEF OccupiersOf
<1> QED
  BY <1>1, <1>3, <1>4, <1>5
     DEF IInv, QueueTypeOK, QueueMatches, NoIdleSlot, ActiveIsOccupancy,
         Occupiers, QueueType, PCType, CountType

\* A release that has an effect frees the slot of a task that held one.
LEMMA ReleaseFacts ==
  ASSUME IInv, NEW t \in Tasks, Release(t), unreleased[t] > 0
  PROVE  /\ ProcessQueue(Freed(q), pc)
         /\ holds' = holds /\ unreleased' \in CountType
         /\ HoldsOK(pc, holds', unreleased')
         /\ t \in OccupiersOf(pc, holds, unreleased)
         /\ OccupiersOf(pc, holds', unreleased')
               = OccupiersOf(pc, holds, unreleased) \ {t}
<1> USE IInvTypes
<1>1. /\ ProcessQueue(Freed(q), pc) /\ holds' = holds
      /\ unreleased' = [unreleased EXCEPT ![t] = @ - 1]
  BY DEF Release
<1>2. unreleased[t] = 1 /\ holds[t] = 1
  BY DEF HoldsOK, CountType
<1>3. \A v \in Tasks : unreleased'[v] = IF v = t THEN 0 ELSE unreleased[v]
  BY <1>1, <1>2 DEF CountType
<1>4. unreleased' \in CountType
  BY <1>1, <1>2 DEF CountType
<1> QED
  BY <1>1, <1>2, <1>3, <1>4 DEF HoldsOK, OccupiersOf, CountType

LEMMA ReleaseIInv == ASSUME IInv, NEW t \in Tasks, Release(t) PROVE IInv'
<1>1. CASE unreleased[t] > 0
  <2> USE IInvTypes
  <2>1. Freed(q) \in QueueType /\ Matches(Freed(q), pc)
    BY FreedFields DEF Matches
  <2>2. Freed(q).active = Cardinality(OccupiersOf(pc, holds', unreleased'))
    BY <1>1, ReleaseFacts, FreedFields, OneOccupierLess
  <2> QED
    BY <1>1, <2>1, <2>2, ReleaseFacts, ProcessQueueIInv
<1>2. CASE ~(unreleased[t] > 0)
  <2>1. UNCHANGED queueVars
    BY <1>2 DEF Release
  <2> QED
    BY <2>1 DEF queueVars, IInv, QueueTypeOK, QueueMatches, NoIdleSlot, ActiveIsOccupancy,
                Occupiers
<1> QED
  BY <1>1, <1>2

\* What a task leaves when it settles.
LEMMA SettleFacts ==
  ASSUME IInv, NEW t \in Tasks, Settle(t)
  PROVE  LET p == [pc EXCEPT ![t] = "settled"]
         IN  /\ p \in PCType /\ Matches(q, p)
             /\ HoldsOK(p, holds, unreleased)
             /\ holds' = holds /\ unreleased' = unreleased
             /\ \/ /\ ProcessQueue(Freed(q), p)
                   /\ t \in OccupiersOf(pc, holds, unreleased)
                   /\ OccupiersOf(p, holds, unreleased)
                         = OccupiersOf(pc, holds, unreleased) \ {t}
                \/ /\ pc' = p /\ q' = q
                   /\ OccupiersOf(p, holds, unreleased)
                         = OccupiersOf(pc, holds, unreleased)
<1> USE IInvTypes
<1> DEFINE p == [pc EXCEPT ![t] = "settled"]
<1>1. pc[t] = "running" /\ holds' = holds /\ unreleased' = unreleased
  BY DEF Settle
<1>2. p \in PCType /\ \A v \in Tasks : p[v] = IF v = t THEN "settled" ELSE pc[v]
  BY DEF PCType
<1>3. Matches(q, p) /\ HoldsOK(p, holds, unreleased)
  BY <1>1, <1>2 DEF Matches, HoldsOK
<1>4. CASE holds[t] = 0
  <2>1. ProcessQueue(Freed(q), p)
    BY <1>4 DEF Settle
  <2>2. unreleased[t] = 0
    BY <1>4 DEF HoldsOK, CountType
  <2>3. /\ t \in OccupiersOf(pc, holds, unreleased)
        /\ OccupiersOf(p, holds, unreleased)
              = OccupiersOf(pc, holds, unreleased) \ {t}
    BY <1>1, <1>2, <1>4, <2>2 DEF OccupiersOf
  <2> QED
    BY <1>1, <1>2, <1>3, <2>1, <2>3
<1>5. CASE holds[t] # 0
  <2>1. pc' = p /\ q' = q
    BY <1>5 DEF Settle
  <2>2. OccupiersOf(p, holds, unreleased) = OccupiersOf(pc, holds, unreleased)
    BY <1>1, <1>2, <1>5 DEF OccupiersOf
  <2> QED
    BY <1>1, <1>2, <1>3, <2>1, <2>2
<1> QED
  BY <1>4, <1>5

LEMMA SettleIInv == ASSUME IInv, NEW t \in Tasks, Settle(t) PROVE IInv'
<1> USE IInvTypes
<1> DEFINE p == [pc EXCEPT ![t] = "settled"]
<1>1. /\ p \in PCType /\ Matches(q, p) /\ HoldsOK(p, holds, unreleased)
      /\ holds' = holds /\ unreleased' = unreleased
  BY SettleFacts
<1>2. CASE /\ ProcessQueue(Freed(q), p)
           /\ t \in OccupiersOf(pc, holds, unreleased)
           /\ OccupiersOf(p, holds, unreleased)
                 = OccupiersOf(pc, holds, unreleased) \ {t}
  <2> HIDE DEF p
  <2>1. Freed(q) \in QueueType /\ Matches(Freed(q), p)
    BY <1>1, FreedFields DEF Matches
  <2>2. Cardinality(OccupiersOf(p, holds, unreleased))
           = Cardinality(OccupiersOf(pc, holds, unreleased)) - 1
    BY <1>2, FS_RemoveElement
  <2>3. Freed(q).active = Cardinality(OccupiersOf(p, holds', unreleased'))
    BY <1>1, <2>2, FreedFields
  <2> QED
    BY <1>1, <1>2, <2>1, <2>3, ProcessQueueIInv
<1>3. CASE /\ pc' = p /\ q' = q
           /\ OccupiersOf(p, holds, unreleased)
                 = OccupiersOf(pc, holds, unreleased)
  <2> HIDE DEF p
  <2> QED
    BY <1>1, <1>3
       DEF IInv, QueueTypeOK, QueueMatches, NoIdleSlot, ActiveIsOccupancy,
           Occupiers, QueueType, PCType, CountType
<1> QED
  BY <1>2, <1>3, SettleFacts

LEMMA SetConcurrencyIInv ==
  ASSUME IInv, NEW n \in Limits, SetConcurrency(n) PROVE IInv'
<1> USE IInvTypes
<1>1. /\ Resized(q, n) \in QueueType
      /\ Resized(q, n).waiting = q.waiting
      /\ Resized(q, n).active = q.active
  BY DEF Resized, QueueType
<1>2. Matches(Resized(q, n), pc)
  BY <1>1 DEF Matches
<1>3. ProcessQueue(Resized(q, n), pc) /\ holds' = holds /\ unreleased' = unreleased
  BY DEF SetConcurrency
<1> QED
  BY <1>1, <1>2, <1>3, ProcessQueueIInv

LEMMA NextIInv == HoldsPerTask = 1 /\ IInv /\ [QueueNext]_queueVars => IInv'
<1> SUFFICES ASSUME HoldsPerTask = 1, IInv, [QueueNext]_queueVars PROVE IInv'
  OBVIOUS
<1>1. ASSUME NEW t \in Tasks, Add(t) PROVE IInv'
  BY <1>1, AddIInv
<1>2. ASSUME NEW t \in Tasks, Hold(t) PROVE IInv'
  BY <1>2, HoldIInv
<1>3. ASSUME NEW t \in Tasks, Release(t) PROVE IInv'
  BY <1>3, ReleaseIInv
<1>4. ASSUME NEW t \in Tasks, Settle(t) PROVE IInv'
  BY <1>4, SettleIInv
<1>5. ASSUME NEW n \in Limits, SetConcurrency(n) PROVE IInv'
  BY <1>5, SetConcurrencyIInv
<1>6. CASE UNCHANGED queueVars
  BY <1>6 DEF queueVars, IInv, QueueTypeOK, QueueMatches, NoIdleSlot, ActiveIsOccupancy,
              Occupiers
<1> QED
  BY <1>1, <1>2, <1>3, <1>4, <1>5, <1>6 DEF QueueNext

\* The queue's invariant, for any tasks and limits: fields and task states stay
\* of their types, the queue holds exactly the tasks that wait, no slot idles
\* while somebody waits, and the counter is the number of slots in use.
THEOREM QueueInvariant == HoldsPerTask = 1 /\ QueueSpec => []IInv
<1> SUFFICES ASSUME HoldsPerTask = 1 PROVE QueueSpec => []IInv
  OBVIOUS
<1>1. IInv /\ [QueueNext]_queueVars => IInv'
  BY NextIInv
<1> QED
  BY <1>1, InitIInv, PTL DEF QueueSpec

\* activeCount never drifts from the slots really in use (asyncQueue.ts 33-66).
THEOREM SlotAccounting == HoldsPerTask = 1 /\ QueueSpec => []ActiveIsOccupancy
<1>1. IInv => ActiveIsOccupancy
  BY DEF IInv
<1> QED
  BY <1>1, QueueInvariant, PTL

\* No closure waits in the queue while a slot is free (asyncQueue.ts 76-84).
THEOREM WorkConservation == HoldsPerTask = 1 /\ QueueSpec => []NoIdleSlot
<1>1. IInv => NoIdleSlot
  BY DEF IInv
<1> QED
  BY <1>1, QueueInvariant, PTL

-----------------------------------------------------------------------------
\* A drain that starts anybody ends within the limit.
LEMMA DrainStartsWithinLimit ==
  ASSUME NEW r \in QueueType, NEW p \in PCType,
         \A t \in Tasks : p[t] = "running" => pc[t] = "running",
         ProcessQueue(r, p),
         NEW t \in Tasks, pc[t] # "running", pc'[t] = "running"
  PROVE  q'.active <= q'.limit
<1>1. t \in Started(r)
  BY DEF ProcessQueue, StartedIn
<1>2. NumStarted(r) > 0
  BY <1>1, NumStartedBounds DEF Started
<1> QED
  BY <1>2, NumStartedBounds, DrainedFields DEF ProcessQueue

LEMMA StepStartsWithinLimit ==
  ASSUME IInv, IInv', [QueueNext]_queueVars,
         NEW t \in Tasks, pc[t] # "running", pc'[t] = "running"
  PROVE  Cardinality(Occupiers') <= q'.limit
<1> USE IInvTypes
<1>1. SUFFICES q'.active <= q'.limit
  BY DEF IInv, ActiveIsOccupancy
<1>2. ASSUME NEW u \in Tasks, Add(u) PROVE q'.active <= q'.limit
  <2>1. u = t /\ HasRoom(q)
    BY <1>2 DEF Add, PCType
  <2>2. q'.active = q.active + 1 /\ q'.limit = q.limit
    BY <1>2, <2>1 DEF Add, Added, QueueType
  <2>3. q.limit \in Int /\ q.active \in Int
    BY LimitsPositive DEF QueueType
  <2> QED
    BY <2>1, <2>2, <2>3 DEF HasRoom
<1>3. ASSUME NEW u \in Tasks, Hold(u) PROVE q'.active <= q'.limit
  BY <1>3 DEF Hold
<1>4. ASSUME NEW u \in Tasks, Release(u) PROVE q'.active <= q'.limit
  <2>1. ProcessQueue(Freed(q), pc)
    BY <1>4 DEF Release, queueVars
  <2>2. Freed(q) \in QueueType
    BY FreedFields
  <2> QED
    BY <2>1, <2>2, DrainStartsWithinLimit
<1>5. ASSUME NEW u \in Tasks, Settle(u) PROVE q'.active <= q'.limit
  <2> DEFINE p == [pc EXCEPT ![u] = "settled"]
  <2>1. p \in PCType /\ \A v \in Tasks : p[v] = "running" => pc[v] = "running"
    BY DEF PCType
  <2>2. ProcessQueue(Freed(q), p)
    BY <1>5, <2>1 DEF Settle
  <2>3. Freed(q) \in QueueType
    BY FreedFields
  <2> HIDE DEF p
  <2> QED
    BY <2>1, <2>2, <2>3, DrainStartsWithinLimit
<1>6. ASSUME NEW n \in Limits, SetConcurrency(n) PROVE q'.active <= q'.limit
  <2>1. ProcessQueue(Resized(q, n), pc) /\ Resized(q, n) \in QueueType
    BY <1>6 DEF SetConcurrency, Resized, QueueType
  <2> QED
    BY <2>1, DrainStartsWithinLimit
<1>7. CASE UNCHANGED queueVars
  BY <1>7 DEF queueVars
<1> QED
  BY <1>2, <1>3, <1>4, <1>5, <1>6, <1>7 DEF QueueNext

\* Whatever the limit was and became, a task is started only into a free slot.
THEOREM StartsRespectLimit == HoldsPerTask = 1 /\ QueueSpec => StartsWithinLimit
<1> SUFFICES ASSUME HoldsPerTask = 1 PROVE QueueSpec => StartsWithinLimit
  OBVIOUS
<1>1. IInv /\ IInv' /\ [QueueNext]_queueVars =>
        [(\E t \in Tasks : pc[t] # "running" /\ pc'[t] = "running")
            => Cardinality(Occupiers') <= q'.limit]_queueVars
  BY StepStartsWithinLimit
<1>2. QueueSpec => []IInv
  BY QueueInvariant
<1> QED
  BY <1>1, <1>2, PTL DEF QueueSpec, StartsWithinLimit

-----------------------------------------------------------------------------
\* The instance of SlotPool counts with its own copy of Cardinality.
LEMMA PoolCardinality == \A S : Pool!Cardinality(S) = Cardinality(S)
BY DEF Pool!Cardinality, Cardinality, Pool!IsFiniteSet, IsFiniteSet

\* Every drain lets in the front of the line as the pool of slots prescribes.
LEMMA DrainLetsIn ==
  ASSUME NEW r \in QueueType, NEW p \in PCType,
         holds' \in CountType, unreleased' \in CountType,
         Matches(r, p), HoldsOK(p, holds', unreleased'),
         r.active = Cardinality(OccupiersOf(p, holds', unreleased')),
         ProcessQueue(r, p)
  PROVE  Pool!LetIn(OccupiersOf(p, holds', unreleased'), r.waiting, r.limit)
<1> DEFINE n == NumStarted(r)
           H == OccupiersOf(p, holds', unreleased')
<1>1. q' = Drained(r) /\ pc' = StartedIn(r, p)
  BY DEF ProcessQueue
<1>2. Occupiers' = H \cup {r.waiting[i] : i \in 1..n}
  BY <1>1, DrainKeepsAccounts DEF Occupiers
<1>3. /\ q'.waiting = SubSeq(r.waiting, n + 1, Len(r.waiting))
      /\ q'.limit = r.limit
  BY <1>1, DrainedFields
<1>4. /\ n \in 0..Len(r.waiting)
      /\ n > 0 => Cardinality(H) + n <= r.limit
      /\ n < Len(r.waiting) => Cardinality(H) + n >= r.limit
  BY NumStartedBounds
<1> HIDE DEF n, H
<1> USE DEF Pool!LetIn
<1>5. n \in 0..Len(r.waiting)
  BY <1>4
<1> WITNESS n \in 0..Len(r.waiting)
<1> QED
  BY <1>2, <1>3, <1>4, PoolCardinality DEF H

LEMMA AddArrives == ASSUME IInv, NEW t \in Tasks, Add(t) PROVE Pool!Arrive(t)
<1> USE IInvTypes
<1> DEFINE w == q.waiting
           l == Append(w, t)
<1>1. pc[t] = "new" /\ holds[t] = 0 /\ unreleased[t] = 0
  BY DEF Add, HoldsOK, PCType, CountType
<1>2. t \notin Occupiers /\ \A i \in 1..Len(w) : w[i] # t
  BY <1>1 DEF Occupiers, OccupiersOf, Matches
<1>3. w \in Seq(Tasks) /\ Len(w) \in Nat /\ l \in Seq(Tasks) /\ Len(l) = Len(w) + 1
  BY DEF QueueType
<1>4. holds' = holds /\ unreleased' = unreleased
  BY DEF Add
<1>5. q.active = Cardinality(Occupiers) /\ q.active \in Int /\ q.limit \in Int
  BY LimitsPositive DEF Occupiers, QueueType
<1>6. CASE HasRoom(q)
  <2>1. w = <<>>
    BY <1>6
  <2>2. /\ q' = [q EXCEPT !.active = @ + 1]
        /\ pc' = [pc EXCEPT ![t] = "running"]
    BY <1>6 DEF Add, Added
  <2>3. q'.limit = q.limit /\ q'.waiting = <<>>
    BY <2>1, <2>2 DEF QueueType
  <2>4. \A v \in Tasks : pc'[v] = IF v = t THEN "running" ELSE pc[v]
    BY <2>2 DEF PCType
  <2>5. l = <<t>>
    BY <2>1
  <2>6. Occupiers' = Occupiers \cup {l[i] : i \in 1..1}
    BY <1>1, <1>4, <2>4, <2>5 DEF Occupiers, OccupiersOf
  <2>7. 1 \in 0..Len(l) /\ ~(1 < Len(l)) /\ SubSeq(l, 1 + 1, Len(l)) = <<>>
    BY <2>5
  <2>8. Cardinality(Occupiers) + 1 <= q.limit
    BY <1>5, <1>6 DEF HasRoom
  <2>9. Pool!LetIn(Occupiers, l, q.limit)
    <3> HIDE DEF l
    <3> USE DEF Pool!LetIn
    <3>1. 1 \in 0..Len(l)
      BY <2>7
    <3> WITNESS 1 \in 0..Len(l)
    <3> QED
      BY <2>3, <2>6, <2>7, <2>8, PoolCardinality
  <2> QED
    BY <1>2, <2>9 DEF Pool!Arrive
<1>7. CASE ~HasRoom(q)
  <2>1. /\ q' = [q EXCEPT !.waiting = Append(w, t)]
        /\ pc' = [pc EXCEPT ![t] = "queued"]
    BY <1>7 DEF Add, Added
  <2>2. q'.limit = q.limit /\ q'.waiting = l
    BY <2>1 DEF QueueType
  <2>3. \A v \in Tasks : pc'[v] = IF v = t THEN "queued" ELSE pc[v]
    BY <2>1 DEF PCType
  <2>4. Occupiers' = Occupiers \cup {l[i] : i \in 1..0}
    BY <1>1, <1>4, <2>3 DEF Occupiers, OccupiersOf
  <2>5. 0 \in 0..Len(l) /\ SubSeq(l, 0 + 1, Len(l)) = l
    BY <1>3
  <2>6. Cardinality(Occupiers) + 0 >= q.limit
    BY <1>5, <1>7 DEF HasRoom
  <2>7. Pool!LetIn(Occupiers, l, q.limit)
    <3> HIDE DEF l
    <3> USE DEF Pool!LetIn
    <3> WITNESS 0 \in 0..Len(l)
    <3> QED
      BY <2>2, <2>4, <2>5, <2>6, PoolCardinality
  <2> QED
    BY <1>2, <2>7 DEF Pool!Arrive
<1> QED
  BY <1>6, <1>7

LEMMA ReleaseLeaves ==
  ASSUME IInv, NEW t \in Tasks, Release(t), unreleased[t] > 0
  PROVE  Pool!Leave(t)
<1> USE IInvTypes
<1>1. Freed(q) \in QueueType /\ Matches(Freed(q), pc)
  BY FreedFields DEF Matches
<1>2. Freed(q).active = Cardinality(OccupiersOf(pc, holds', unreleased'))
  BY ReleaseFacts, FreedFields, OneOccupierLess
<1>3. Pool!LetIn(OccupiersOf(pc, holds', unreleased'), Freed(q).waiting, Freed(q).limit)
  BY <1>1, <1>2, ReleaseFacts, DrainLetsIn
<1>4. t \in Occupiers /\ OccupiersOf(pc, holds', unreleased') = Occupiers \ {t}
  BY ReleaseFacts DEF Occupiers
<1> QED
  BY <1>3, <1>4, FreedFields DEF Pool!Leave

LEMMA SettleLeaves ==
  ASSUME IInv, NEW t \in Tasks, Settle(t)
  PROVE  Pool!Leave(t) \/ UNCHANGED <<Occupiers, q.waiting, q.limit>>
<1> USE IInvTypes
<1> DEFINE p == [pc EXCEPT ![t] = "settled"]
<1>1. /\ p \in PCType /\ Matches(q, p) /\ HoldsOK(p, holds, unreleased)
      /\ holds' = holds /\ unreleased' = unreleased
  BY SettleFacts
<1>2. CASE /\ ProcessQueue(Freed(q), p)
           /\ t \in OccupiersOf(pc, holds, unreleased)
           /\ OccupiersOf(p, holds, unreleased)
                 = OccupiersOf(pc, holds, unreleased) \ {t}
  <2> HIDE DEF p
  <2>1. Freed(q) \in QueueType /\ Matches(Freed(q), p)
    BY <1>1, FreedFields DEF Matches
  <2>2. Cardinality(OccupiersOf(p, holds, unreleased))
           = Cardinality(OccupiersOf(pc, holds, unreleased)) - 1
    BY <1>2, FS_RemoveElement
  <2>3. Freed(q).active = Cardinality(OccupiersOf(p, holds', unreleased'))
    BY <1>1, <2>2, FreedFields
  <2>4. Pool!LetIn(OccupiersOf(p, holds', unreleased'), Freed(q).waiting, Freed(q).limit)
    BY <1>1, <1>2, <2>1, <2>3, DrainLetsIn
  <2>5. t \in Occupiers /\ OccupiersOf(p, holds', unreleased') = Occupiers \ {t}
    BY <1>1, <1>2 DEF Occupiers
  <2> QED
    BY <2>4, <2>5, FreedFields DEF Pool!Leave
<1>3. CASE /\ pc' = p /\ q' = q
           /\ OccupiersOf(p, holds, unreleased)
                 = OccupiersOf(pc, holds, unreleased)
  <2> HIDE DEF p
  <2> QED
    BY <1>1, <1>3 DEF Occupiers
<1> QED
  BY <1>2, <1>3, SettleFacts

LEMMA HoldIsInvisible ==
  ASSUME IInv, HoldsPerTask = 1, NEW t \in Tasks, Hold(t)
  PROVE  UNCHANGED <<Occupiers, q.waiting, q.limit>>
<1> USE IInvTypes
<1>1. /\ pc[t] = "running" /\ holds[t] = 0 /\ unreleased[t] = 0
      /\ q' = q /\ pc' = pc
      /\ holds' = [holds EXCEPT ![t] = @ + 1]
      /\ unreleased' = [unreleased EXCEPT ![t] = @ + 1]
  BY DEF Hold, HoldsOK, CountType
<1>2. \A v \in Tasks : /\ holds'[v] = IF v = t THEN 1 ELSE holds[v]
                       /\ unreleased'[v] = IF v = t THEN 1 ELSE unreleased[v]
  BY <1>1 DEF CountType
<1> QED
  BY <1>1, <1>2 DEF Occupiers, OccupiersOf

LEMMA SetConcurrencyResizes ==
  ASSUME IInv, NEW n \in Limits, SetConcurrency(n) PROVE Pool!Resize(n)
<1> USE IInvTypes
<1>1. /\ Resized(q, n) \in QueueType
      /\ Resized(q, n).waiting = q.waiting
      /\ Resized(q, n).active = q.active
      /\ Resized(q, n).limit = n
  BY DEF Resized, QueueType
<1>2. Matches(Resized(q, n), pc)
  BY <1>1 DEF Matches
<1>3. ProcessQueue(Resized(q, n), pc) /\ holds' = holds /\ unreleased' = unreleased
  BY DEF SetConcurrency
<1>4. Pool!LetIn(OccupiersOf(pc, holds', unreleased'),
                 Resized(q, n).waiting, Resized(q, n).limit)
  BY <1>1, <1>2, <1>3, DrainLetsIn
<1> QED
  BY <1>1, <1>3, <1>4 DEF Pool!Resize, Occupiers

\* AsyncQueue's counter, closures and one-shot release functions implement the
\* pool of slots: a set of holders, a line, and nobody let in out of turn.
THEOREM QueueImplementsPool == HoldsPerTask = 1 /\ QueueSpec => ImplementsSlotPool
<1> SUFFICES ASSUME HoldsPerTask = 1 PROVE QueueSpec => ImplementsSlotPool
  OBVIOUS
<1>1. QueueInit => Pool!PoolInit
  <2> SUFFICES ASSUME QueueInit PROVE Pool!PoolInit
    OBVIOUS
  <2>1. Occupiers = {}
    BY DEF QueueInit, Occupiers, OccupiersOf
  <2>2. q.waiting = <<>> /\ q.limit \in Limits
    BY DEF QueueInit, NewQueue
  <2> QED
    BY <2>1, <2>2 DEF Pool!PoolInit
<1>2. IInv /\ [QueueNext]_queueVars => [Pool!PoolNext]_(Pool!poolVars)
  <2> SUFFICES ASSUME IInv, [QueueNext]_queueVars PROVE [Pool!PoolNext]_(Pool!poolVars)
    OBVIOUS
  <2>1. ASSUME NEW t \in Tasks, Add(t) PROVE Pool!PoolNext
    BY <2>1, AddArrives DEF Pool!PoolNext
  <2>2. ASSUME NEW t \in Tasks, Hold(t) PROVE UNCHANGED Pool!poolVars
    BY <2>2, HoldIsInvisible DEF Pool!poolVars
  <2>3. ASSUME NEW t \in Tasks, Release(t)
        PROVE  Pool!PoolNext \/ UNCHANGED Pool!poolVars
    <3>1. CASE unreleased[t] > 0
      BY <2>3, <3>1, ReleaseLeaves DEF Pool!PoolNext
    <3>2. CASE ~(unreleased[t] > 0)
      BY <2>3, <3>2 DEF Release, queueVars, Pool!poolVars, Occupiers
    <3> QED
      BY <3>1, <3>2
  <2>4. ASSUME NEW t \in Tasks, Settle(t)
        PROVE  Pool!PoolNext \/ UNCHANGED Pool!poolVars
    BY <2>4, SettleLeaves DEF Pool!PoolNext, Pool!poolVars
  <2>5. ASSUME NEW n \in Limits, SetConcurrency(n) PROVE Pool!PoolNext
    BY <2>5, SetConcurrencyResizes DEF Pool!PoolNext
  <2>6. CASE UNCHANGED queueVars
    BY <2>6 DEF queueVars, Pool!poolVars, Occupiers
  <2> QED
    BY <2>1, <2>2, <2>3, <2>4, <2>5, <2>6 DEF QueueNext
<1>3. QueueSpec => []IInv
  BY QueueInvariant
<1> QED
  BY <1>1, <1>2, <1>3, PTL DEF QueueSpec, ImplementsSlotPool, Pool!PoolSpec

=============================================================================
