------------------------- MODULE GatewaySlotsProofs -------------------------
(***************************************************************************)
(* The slots of the gateway for any requests, keys, providers and limits, and *)
(* any number of attempts, cycles and changes of the limits.                *)
(*                                                                         *)
(* A step of the gateway is a composition of the operators on sys: several   *)
(* queues are drained one after the other, and in between the counters and    *)
(* the places of the requests are out of step.  The invariant is therefore    *)
(* stated for any record s, with the places of sys and four sets that tell     *)
(* how far a step has got: the requests that hold a slot of the global, key    *)
(* and provider queues beyond their stay in it, and the requests which the     *)
(* global queue has started and which have not entered their key's queue yet.  *)
(* Between two steps the first three are the requests with held, the last is   *)
(* empty.                                                                  *)
(***************************************************************************)
EXTENDS GatewaySlots, AsyncQueueOpsProofs

KeyPlaces == {"loop", "chosen", "in p line", "fetch", "got"}
GlobalPlaces == KeyPlaces \cup {"in u line", "left"}
Lines == {"in g line", "in u line", "in p line"}

SysType == [g : Queues, u : [Keys -> Queues], p : [Providers -> Queues],
            pc : [Requests -> Places]]

WaitG(s) == {r \in Requests : s.pc[r] = "in g line"}
WaitU(s, k) == {r \in Requests : s.pc[r] = "in u line" /\ KeyOf[r] = k}
WaitP(s, w, v) == {r \in Requests : s.pc[r] = "in p line" /\ w[r] = v}

InG(s, G) == {r \in Requests : s.pc[r] \in GlobalPlaces \/ r \in G}
InU(s, U, k) == {r \in Requests : KeyOf[r] = k /\ (s.pc[r] \in KeyPlaces \/ r \in U)}
InP(s, P, w, v) == {r \in Requests : w[r] = v /\ (s.pc[r] = "fetch" \/ r \in P)}

\* Counters and lines in step with the places: w is prov, E has been started by the global queue.
SysAccounts(s, E, G, U, P, w) ==
    /\ s \in SysType
    /\ Accounts(s.g, WaitG(s) \ E, InG(s, G) \cup E)
    /\ \A k \in Keys : Accounts(s.u[k], WaitU(s, k), InU(s, U, k))
    /\ \A v \in Providers : Accounts(s.p[v], WaitP(s, w, v), InP(s, P, w, v))

AllServed(s) ==
    /\ Served(s.g)
    /\ \A k \in Keys : Served(s.u[k])
    /\ \A v \in Providers : Served(s.p[v])

SysOK(s, E, G, U, P, w) == SysAccounts(s, E, G, U, P, w) /\ AllServed(s)

\* A drain only moves requests out of lines.
Moves(s, t) ==
    \A r \in Requests : \/ t.pc[r] = s.pc[r]
                        \/ s.pc[r] \in Lines /\ t.pc[r] \in {"in u line", "loop", "fetch"}

WithinLimits(s) ==
    /\ s.g.active <= s.g.limit
    /\ \A k \in Keys : s.u[k].active <= s.u[k].limit
    /\ \A v \in Providers : s.p[v].active <= s.p[v].limit

\* The limits are those of s, and are kept if s keeps them.
Keeps(s, t) ==
    /\ t.g.limit = s.g.limit
    /\ \A k \in Keys : t.u[k].limit = s.u[k].limit
    /\ \A v \in Providers : t.p[v].limit = s.p[v].limit
    /\ WithinLimits(s) => WithinLimits(t)

-----------------------------------------------------------------------------
(* Records and their updates.                                              *)

LEMMA LimitsAreNumbers == \A n \in Limits : n \in Int /\ n > 0
  BY SlotLimitsAssumption

LEMMA QueueTyped ==
  ASSUME NEW q, NEW W, NEW O, Accounts(q, W, O), W \subseteq Requests, q.limit \in Limits
  PROVE  q \in Queues
<1>1. /\ q.active \in Nat /\ q.waiting \in Seq(W)
      /\ q = [limit |-> q.limit, active |-> q.active, waiting |-> q.waiting]
  BY AccountsFields
<1>2. q.waiting \in Seq(Requests)
  BY <1>1
<1> QED
  BY <1>1, <1>2 DEF Queues

LEMMA WithKeyQueue ==
  ASSUME NEW s \in SysType, NEW k \in Keys, NEW q \in Queues
  PROVE  LET t == [s EXCEPT !.u[k] = q] IN
         /\ t \in SysType /\ t.g = s.g /\ t.p = s.p /\ t.pc = s.pc /\ t.u[k] = q
         /\ \A j \in Keys : j # k => t.u[j] = s.u[j]
  BY DEF SysType

LEMMA WithProviderQueue ==
  ASSUME NEW s \in SysType, NEW v \in Providers, NEW q \in Queues
  PROVE  LET t == [s EXCEPT !.p[v] = q] IN
         /\ t \in SysType /\ t.g = s.g /\ t.u = s.u /\ t.pc = s.pc /\ t.p[v] = q
         /\ \A j \in Providers : j # v => t.p[j] = s.p[j]
  BY DEF SysType

LEMMA WithGlobalQueue ==
  ASSUME NEW s \in SysType, NEW q \in Queues
  PROVE  LET t == [s EXCEPT !.g = q] IN
         t \in SysType /\ t.g = q /\ t.u = s.u /\ t.p = s.p /\ t.pc = s.pc
  BY DEF SysType

LEMMA WithPlace ==
  ASSUME NEW s \in SysType, NEW r \in Requests, NEW x \in Places
  PROVE  /\ At(s, r, x) \in SysType
         /\ At(s, r, x).g = s.g /\ At(s, r, x).u = s.u /\ At(s, r, x).p = s.p
         /\ \A z \in Requests : At(s, r, x).pc[z] = IF z = r THEN x ELSE s.pc[z]
  BY DEF SysType, At

LEMMA WithPlaces ==
  ASSUME NEW s \in SysType, NEW R, NEW x \in Places
  PROVE  /\ AllAt(s, R, x) \in SysType
         /\ AllAt(s, R, x).g = s.g /\ AllAt(s, R, x).u = s.u /\ AllAt(s, R, x).p = s.p
         /\ \A z \in Requests : AllAt(s, R, x).pc[z] = IF z \in R THEN x ELSE s.pc[z]
  BY DEF SysType, AllAt

-----------------------------------------------------------------------------
(* The queues of keys and of providers.                                    *)

LEMMA KeyDrain ==
  ASSUME NEW s, NEW E, NEW G, NEW U, NEW P, NEW w, NEW k \in Keys,
         SysAccounts(s, E, G, U, P, w),
         Served(s.g), \A j \in Keys : j # k => Served(s.u[j]), \A v \in Providers : Served(s.p[v])
  PROVE  /\ SysOK(KeyDrained(s, k), E, G, U, P, w)
         /\ Moves(s, KeyDrained(s, k)) /\ Keeps(s, KeyDrained(s, k))
<1> DEFINE q == s.u[k]
           S == Started(q)
           s1 == [s EXCEPT !.u[k] = Drained(q)]
           t == KeyDrained(s, k)
<1>1. /\ s \in SysType /\ Accounts(q, WaitU(s, k), InU(s, U, k))
      /\ q \in Queues /\ q.limit \in Limits
  BY DEF SysAccounts, SysType, Queues
<1>2. /\ Accounts(Drained(q), WaitU(s, k) \ S, InU(s, U, k) \cup S)
      /\ Served(Drained(q)) /\ Drained(q).limit = q.limit /\ S \subseteq WaitU(s, k)
  BY <1>1, DrainAccounts
<1>3. Drained(q) \in Queues
  <2>1. WaitU(s, k) \ S \subseteq Requests
    BY DEF WaitU
  <2> QED
    BY <1>1, <1>2, <2>1, QueueTyped
<1>4. t = AllAt(s1, S, "loop")
  BY DEF KeyDrained
<1>5. /\ s1 \in SysType /\ s1.g = s.g /\ s1.p = s.p /\ s1.pc = s.pc /\ s1.u[k] = Drained(q)
      /\ \A j \in Keys : j # k => s1.u[j] = s.u[j]
  BY <1>1, <1>3, WithKeyQueue
<1> HIDE DEF q, S, s1, t
<1>6. /\ t \in SysType /\ t.g = s.g /\ t.p = s.p /\ t.u[k] = Drained(q)
      /\ \A j \in Keys : j # k => t.u[j] = s.u[j]
      /\ \A r \in Requests : t.pc[r] = IF r \in S THEN "loop" ELSE s.pc[r]
  <2>1. "loop" \in Places
    BY DEF Places
  <2>2. /\ AllAt(s1, S, "loop") \in SysType
        /\ AllAt(s1, S, "loop").g = s1.g
        /\ AllAt(s1, S, "loop").u = s1.u
        /\ AllAt(s1, S, "loop").p = s1.p
        /\ \A z \in Requests : AllAt(s1, S, "loop").pc[z] = IF z \in S THEN "loop" ELSE s1.pc[z]
    BY <1>5, <2>1, WithPlaces
  <2> QED
    BY <1>4, <1>5, <2>2
<1>7. \A r \in S : r \in Requests /\ s.pc[r] = "in u line" /\ KeyOf[r] = k
  BY <1>2 DEF WaitU
<1>8. WaitG(t) = WaitG(s) /\ InG(t, G) = InG(s, G)
  BY <1>6, <1>7 DEF WaitG, InG, GlobalPlaces, KeyPlaces
<1>9. ASSUME NEW j \in Keys, j # k
      PROVE  WaitU(t, j) = WaitU(s, j) /\ InU(t, U, j) = InU(s, U, j)
  <2>1. \A r \in Requests : KeyOf[r] = j => t.pc[r] = s.pc[r]
    BY <1>6, <1>7, <1>9
  <2> QED
    BY <2>1 DEF WaitU, InU
<1>10. WaitU(t, k) = WaitU(s, k) \ S /\ InU(t, U, k) = InU(s, U, k) \cup S
  BY <1>6, <1>7 DEF WaitU, InU, KeyPlaces
<1>11. \A v \in Providers : WaitP(t, w, v) = WaitP(s, w, v) /\ InP(t, P, w, v) = InP(s, P, w, v)
  BY <1>6, <1>7 DEF WaitP, InP
<1>12. SysAccounts(t, E, G, U, P, w)
  BY <1>2, <1>6, <1>8, <1>9, <1>10, <1>11 DEF SysAccounts
<1>13. AllServed(t)
  BY <1>2, <1>6 DEF AllServed
<1>14. Moves(s, t)
  BY <1>6, <1>7 DEF Moves, Lines
<1>15. Keeps(s, t)
  <2>1. q.active <= q.limit => Drained(q).active <= Drained(q).limit
    BY <1>1, StaysWithin
  <2> QED
    BY <1>2, <1>6, <2>1 DEF Keeps, WithinLimits, q
<1> QED
  BY <1>12, <1>13, <1>14, <1>15 DEF SysOK, t

LEMMA ProviderDrain ==
  ASSUME NEW s, NEW E, NEW G, NEW U, NEW P, NEW w, NEW v \in Providers,
         SysAccounts(s, E, G, U, P, w),
         Served(s.g), \A k \in Keys : Served(s.u[k]),
         \A j \in Providers : j # v => Served(s.p[j])
  PROVE  /\ SysOK(ProviderDrained(s, v), E, G, U, P, w)
         /\ Moves(s, ProviderDrained(s, v)) /\ Keeps(s, ProviderDrained(s, v))
<1> DEFINE q == s.p[v]
           S == Started(q)
           s1 == [s EXCEPT !.p[v] = Drained(q)]
           t == ProviderDrained(s, v)
<1>1. /\ s \in SysType /\ Accounts(q, WaitP(s, w, v), InP(s, P, w, v))
      /\ q \in Queues /\ q.limit \in Limits
  BY DEF SysAccounts, SysType, Queues
<1>2. /\ Accounts(Drained(q), WaitP(s, w, v) \ S, InP(s, P, w, v) \cup S)
      /\ Served(Drained(q)) /\ Drained(q).limit = q.limit /\ S \subseteq WaitP(s, w, v)
  BY <1>1, DrainAccounts
<1>3. Drained(q) \in Queues
  <2>1. WaitP(s, w, v) \ S \subseteq Requests
    BY DEF WaitP
  <2> QED
    BY <1>1, <1>2, <2>1, QueueTyped
<1>4. t = AllAt(s1, S, "fetch")
  BY DEF ProviderDrained
<1>5. /\ s1 \in SysType /\ s1.g = s.g /\ s1.u = s.u /\ s1.pc = s.pc /\ s1.p[v] = Drained(q)
      /\ \A j \in Providers : j # v => s1.p[j] = s.p[j]
  BY <1>1, <1>3, WithProviderQueue
<1> HIDE DEF q, S, s1, t
<1>6. /\ t \in SysType /\ t.g = s.g /\ t.u = s.u /\ t.p[v] = Drained(q)
      /\ \A j \in Providers : j # v => t.p[j] = s.p[j]
      /\ \A r \in Requests : t.pc[r] = IF r \in S THEN "fetch" ELSE s.pc[r]
  <2>1. "fetch" \in Places
    BY DEF Places
  <2>2. /\ AllAt(s1, S, "fetch") \in SysType
        /\ AllAt(s1, S, "fetch").g = s1.g
        /\ AllAt(s1, S, "fetch").u = s1.u
        /\ AllAt(s1, S, "fetch").p = s1.p
        /\ \A z \in Requests : AllAt(s1, S, "fetch").pc[z] = IF z \in S THEN "fetch" ELSE s1.pc[z]
    BY <1>5, <2>1, WithPlaces
  <2> QED
    BY <1>4, <1>5, <2>2
<1>7. \A r \in S : r \in Requests /\ s.pc[r] = "in p line" /\ w[r] = v
  BY <1>2 DEF WaitP
<1>8. WaitG(t) = WaitG(s) /\ InG(t, G) = InG(s, G)
  BY <1>6, <1>7 DEF WaitG, InG, GlobalPlaces, KeyPlaces
<1>9. \A k \in Keys : WaitU(t, k) = WaitU(s, k) /\ InU(t, U, k) = InU(s, U, k)
  BY <1>6, <1>7 DEF WaitU, InU, KeyPlaces
<1>10. WaitP(t, w, v) = WaitP(s, w, v) \ S /\ InP(t, P, w, v) = InP(s, P, w, v) \cup S
  BY <1>6, <1>7 DEF WaitP, InP
<1>11. ASSUME NEW j \in Providers, j # v
       PROVE  WaitP(t, w, j) = WaitP(s, w, j) /\ InP(t, P, w, j) = InP(s, P, w, j)
  <2>1. \A r \in Requests : w[r] = j => t.pc[r] = s.pc[r]
    BY <1>6, <1>7, <1>11
  <2> QED
    BY <2>1 DEF WaitP, InP
<1>12. SysAccounts(t, E, G, U, P, w)
  BY <1>2, <1>6, <1>8, <1>9, <1>10, <1>11 DEF SysAccounts
<1>13. AllServed(t)
  BY <1>2, <1>6 DEF AllServed
<1>14. Moves(s, t)
  BY <1>6, <1>7 DEF Moves, Lines
<1>15. Keeps(s, t)
  <2>1. q.active <= q.limit => Drained(q).active <= Drained(q).limit
    BY <1>1, StaysWithin
  <2> QED
    BY <1>2, <1>6, <2>1 DEF Keeps, WithinLimits, q
<1> QED
  BY <1>12, <1>13, <1>14, <1>15 DEF SysOK, t

\* The drain that follows another change of a key's queue, which may free a slot of U.
LEMMA KeyChange ==
  ASSUME NEW s, NEW E, NEW G, NEW U, NEW V, NEW P, NEW w, NEW k \in Keys, NEW q,
         SysOK(s, E, G, U, P, w),
         Accounts(q, WaitU(s, k), InU(s, V, k)), q.limit \in Limits,
         \A j \in Keys : j # k => InU(s, V, j) = InU(s, U, j)
  PROVE  LET t == KeyDrained([s EXCEPT !.u[k] = q], k) IN
         /\ SysOK(t, E, G, V, P, w) /\ Moves(s, t)
         /\ q.limit = s.u[k].limit /\ (s.u[k].active <= s.u[k].limit => q.active <= q.limit)
              => Keeps(s, t)
<1> DEFINE s1 == [s EXCEPT !.u[k] = q]
           t == KeyDrained(s1, k)
<1>1. s \in SysType /\ SysAccounts(s, E, G, U, P, w) /\ AllServed(s)
  BY DEF SysOK, SysAccounts
<1>2. q \in Queues
  <2>1. WaitU(s, k) \subseteq Requests
    BY DEF WaitU
  <2> QED
    BY <2>1, QueueTyped
<1>3. /\ s1 \in SysType /\ s1.g = s.g /\ s1.p = s.p /\ s1.pc = s.pc /\ s1.u[k] = q
      /\ \A j \in Keys : j # k => s1.u[j] = s.u[j]
  BY <1>1, <1>2, WithKeyQueue
<1> HIDE DEF s1
<1>4. /\ WaitG(s1) = WaitG(s) /\ InG(s1, G) = InG(s, G)
      /\ \A j \in Keys : WaitU(s1, j) = WaitU(s, j) /\ InU(s1, V, j) = InU(s, V, j)
      /\ \A v \in Providers : WaitP(s1, w, v) = WaitP(s, w, v) /\ InP(s1, P, w, v) = InP(s, P, w, v)
  BY <1>3 DEF WaitG, InG, WaitU, InU, WaitP, InP
<1>5. SysAccounts(s1, E, G, V, P, w)
  BY <1>1, <1>3, <1>4 DEF SysAccounts
<1>6. /\ Served(s1.g) /\ \A v \in Providers : Served(s1.p[v])
      /\ \A j \in Keys : j # k => Served(s1.u[j])
  BY <1>1, <1>3 DEF AllServed
<1>7. SysOK(t, E, G, V, P, w) /\ Moves(s1, t) /\ Keeps(s1, t)
  BY <1>5, <1>6, KeyDrain
<1>8. Moves(s, t)
  BY <1>3, <1>7 DEF Moves
<1>9. ASSUME q.limit = s.u[k].limit, s.u[k].active <= s.u[k].limit => q.active <= q.limit
      PROVE  Keeps(s, t)
  BY <1>3, <1>7, <1>9 DEF Keeps, WithinLimits
<1> QED
  BY <1>7, <1>8, <1>9 DEF s1

LEMMA ProviderChange ==
  ASSUME NEW s, NEW E, NEW G, NEW U, NEW P, NEW V, NEW w, NEW v \in Providers, NEW q,
         SysOK(s, E, G, U, P, w),
         Accounts(q, WaitP(s, w, v), InP(s, V, w, v)), q.limit \in Limits,
         \A j \in Providers : j # v => InP(s, V, w, j) = InP(s, P, w, j)
  PROVE  LET t == ProviderDrained([s EXCEPT !.p[v] = q], v) IN
         /\ SysOK(t, E, G, U, V, w) /\ Moves(s, t)
         /\ q.limit = s.p[v].limit /\ (s.p[v].active <= s.p[v].limit => q.active <= q.limit)
              => Keeps(s, t)
<1> DEFINE s1 == [s EXCEPT !.p[v] = q]
           t == ProviderDrained(s1, v)
<1>1. s \in SysType /\ SysAccounts(s, E, G, U, P, w) /\ AllServed(s)
  BY DEF SysOK, SysAccounts
<1>2. q \in Queues
  <2>1. WaitP(s, w, v) \subseteq Requests
    BY DEF WaitP
  <2> QED
    BY <2>1, QueueTyped
<1>3. /\ s1 \in SysType /\ s1.g = s.g /\ s1.u = s.u /\ s1.pc = s.pc /\ s1.p[v] = q
      /\ \A j \in Providers : j # v => s1.p[j] = s.p[j]
  BY <1>1, <1>2, WithProviderQueue
<1> HIDE DEF s1
<1>4. /\ WaitG(s1) = WaitG(s) /\ InG(s1, G) = InG(s, G)
      /\ \A k \in Keys : WaitU(s1, k) = WaitU(s, k) /\ InU(s1, U, k) = InU(s, U, k)
      /\ \A j \in Providers : WaitP(s1, w, j) = WaitP(s, w, j) /\ InP(s1, V, w, j) = InP(s, V, w, j)
  BY <1>3 DEF WaitG, InG, WaitU, InU, WaitP, InP
<1>5. SysAccounts(s1, E, G, U, V, w)
  BY <1>1, <1>3, <1>4 DEF SysAccounts
<1>6. /\ Served(s1.g) /\ \A k \in Keys : Served(s1.u[k])
      /\ \A j \in Providers : j # v => Served(s1.p[j])
  BY <1>1, <1>3 DEF AllServed
<1>7. SysOK(t, E, G, U, V, w) /\ Moves(s1, t) /\ Keeps(s1, t)
  BY <1>5, <1>6, ProviderDrain
<1>8. Moves(s, t)
  BY <1>3, <1>7 DEF Moves
<1>9. ASSUME q.limit = s.p[v].limit, s.p[v].active <= s.p[v].limit => q.active <= q.limit
      PROVE  Keeps(s, t)
  BY <1>3, <1>7, <1>9 DEF Keeps, WithinLimits
<1> QED
  BY <1>7, <1>8, <1>9 DEF s1

\* A request outside the key's task gives back the slot it holds there.
LEMMA KeyFreedOK ==
  ASSUME NEW s, NEW E, NEW G, NEW U, NEW P, NEW w, NEW r \in Requests,
         SysOK(s, E, G, U, P, w), r \in U, s.pc[r] \notin KeyPlaces
  PROVE  LET t == KeyFreed(s, KeyOf[r]) IN
         SysOK(t, E, G, U \ {r}, P, w) /\ Moves(s, t) /\ Keeps(s, t)
<1> DEFINE k == KeyOf[r]
           q == Freed(s.u[k])
<1>1. /\ k \in Keys /\ Accounts(s.u[k], WaitU(s, k), InU(s, U, k)) /\ s.u[k].limit \in Limits
  BY KeyOfAssumption DEF SysOK, SysAccounts, SysType, Queues
<1>2. r \in InU(s, U, k)
  BY DEF InU
<1>3. /\ Accounts(q, WaitU(s, k), InU(s, U, k) \ {r}) /\ q.limit = s.u[k].limit
      /\ s.u[k].active <= s.u[k].limit => q.active <= q.limit
  <2>1. /\ Accounts(q, WaitU(s, k), InU(s, U, k) \ {r}) /\ q.limit = s.u[k].limit
    BY <1>1, <1>2, FreeAccounts
  <2>2. s.u[k].active <= s.u[k].limit => q.active <= q.limit
    BY <1>1, StaysWithin
  <2> QED
    BY <2>1, <2>2
<1>4. InU(s, U \ {r}, k) = InU(s, U, k) \ {r}
  BY DEF InU
<1>5. \A j \in Keys : j # k => InU(s, U \ {r}, j) = InU(s, U, j)
  BY DEF InU
<1>6. KeyFreed(s, k) = KeyDrained([s EXCEPT !.u[k] = q], k)
  BY DEF KeyFreed
<1> HIDE DEF q, k
<1>7. /\ Accounts(q, WaitU(s, k), InU(s, U \ {r}, k)) /\ q.limit \in Limits
  BY <1>1, <1>3, <1>4
<1>8. LET t == KeyDrained([s EXCEPT !.u[k] = q], k) IN
      /\ SysOK(t, E, G, U \ {r}, P, w) /\ Moves(s, t)
      /\ q.limit = s.u[k].limit /\ (s.u[k].active <= s.u[k].limit => q.active <= q.limit)
           => Keeps(s, t)
  BY <1>1, <1>5, <1>7, KeyChange
<1>9. q.limit = s.u[k].limit /\ (s.u[k].active <= s.u[k].limit => q.active <= q.limit)
  BY <1>3
<1> QED
  BY <1>6, <1>8, <1>9 DEF k

\* The same for a provider's task
LEMMA ProviderFreedOK ==
  ASSUME NEW s, NEW E, NEW G, NEW U, NEW P, NEW w, NEW r \in Requests, w[r] \in Providers,
         SysOK(s, E, G, U, P, w), r \in P, s.pc[r] # "fetch"
  PROVE  LET t == ProviderFreed(s, w[r]) IN
         SysOK(t, E, G, U, P \ {r}, w) /\ Moves(s, t) /\ Keeps(s, t)
<1> DEFINE v == w[r]
           q == Freed(s.p[v])
<1>1. /\ Accounts(s.p[v], WaitP(s, w, v), InP(s, P, w, v)) /\ s.p[v].limit \in Limits
  BY DEF SysOK, SysAccounts, SysType, Queues
<1>2. r \in InP(s, P, w, v)
  BY DEF InP
<1>3. /\ Accounts(q, WaitP(s, w, v), InP(s, P, w, v) \ {r}) /\ q.limit = s.p[v].limit
      /\ s.p[v].active <= s.p[v].limit => q.active <= q.limit
  <2>1. /\ Accounts(q, WaitP(s, w, v), InP(s, P, w, v) \ {r}) /\ q.limit = s.p[v].limit
    BY <1>1, <1>2, FreeAccounts
  <2>2. s.p[v].active <= s.p[v].limit => q.active <= q.limit
    BY <1>1, StaysWithin
  <2> QED
    BY <2>1, <2>2
<1>4. InP(s, P \ {r}, w, v) = InP(s, P, w, v) \ {r}
  BY DEF InP
<1>5. \A j \in Providers : j # v => InP(s, P \ {r}, w, j) = InP(s, P, w, j)
  BY DEF InP
<1>6. ProviderFreed(s, v) = ProviderDrained([s EXCEPT !.p[v] = q], v)
  BY DEF ProviderFreed
<1>7. v \in Providers
  OBVIOUS
<1> HIDE DEF q, v
<1>8. /\ Accounts(q, WaitP(s, w, v), InP(s, P \ {r}, w, v)) /\ q.limit \in Limits
  BY <1>1, <1>3, <1>4
<1>9. LET t == ProviderDrained([s EXCEPT !.p[v] = q], v) IN
      /\ SysOK(t, E, G, U, P \ {r}, w) /\ Moves(s, t)
      /\ q.limit = s.p[v].limit /\ (s.p[v].active <= s.p[v].limit => q.active <= q.limit)
           => Keeps(s, t)
  BY <1>1, <1>5, <1>7, <1>8, ProviderChange
<1>10. q.limit = s.p[v].limit /\ (s.p[v].active <= s.p[v].limit => q.active <= q.limit)
  BY <1>3
<1> QED
  BY <1>6, <1>9, <1>10 DEF v

\* The limits set again on the way in
LEMMA KeyResizedOK ==
  ASSUME NEW s, NEW E, NEW G, NEW U, NEW P, NEW w, NEW k \in Keys, NEW n \in Limits,
         SysOK(s, E, G, U, P, w)
  PROVE  LET t == KeyDrained([s EXCEPT !.u[k] = Resized(@, n)], k) IN
         SysOK(t, E, G, U, P, w) /\ Moves(s, t) /\ (n = s.u[k].limit => Keeps(s, t))
<1> DEFINE q == Resized(s.u[k], n)
<1>1. Accounts(s.u[k], WaitU(s, k), InU(s, U, k)) /\ n \in Int
  BY LimitsAreNumbers DEF SysOK, SysAccounts
<1>2. /\ Accounts(q, WaitU(s, k), InU(s, U, k)) /\ q.limit = n /\ q.active = s.u[k].active
  BY <1>1, ResizeAccounts, AccountsFields DEF Resized
<1> HIDE DEF q
<1>3. LET t == KeyDrained([s EXCEPT !.u[k] = q], k) IN
      /\ SysOK(t, E, G, U, P, w) /\ Moves(s, t)
      /\ q.limit = s.u[k].limit /\ (s.u[k].active <= s.u[k].limit => q.active <= q.limit)
           => Keeps(s, t)
  BY <1>2, KeyChange
<1> QED
  BY <1>2, <1>3 DEF q

LEMMA ProviderResizedOK ==
  ASSUME NEW s, NEW E, NEW G, NEW U, NEW P, NEW w, NEW v \in Providers, NEW n \in Limits,
         SysOK(s, E, G, U, P, w)
  PROVE  LET t == ProviderDrained([s EXCEPT !.p[v] = Resized(@, n)], v) IN
         SysOK(t, E, G, U, P, w) /\ Moves(s, t) /\ (n = s.p[v].limit => Keeps(s, t))
<1> DEFINE q == Resized(s.p[v], n)
<1>1. Accounts(s.p[v], WaitP(s, w, v), InP(s, P, w, v)) /\ n \in Int
  BY LimitsAreNumbers DEF SysOK, SysAccounts
<1>2. /\ Accounts(q, WaitP(s, w, v), InP(s, P, w, v)) /\ q.limit = n /\ q.active = s.p[v].active
  BY <1>1, ResizeAccounts, AccountsFields DEF Resized
<1> HIDE DEF q
<1>3. LET t == ProviderDrained([s EXCEPT !.p[v] = q], v) IN
      /\ SysOK(t, E, G, U, P, w) /\ Moves(s, t)
      /\ q.limit = s.p[v].limit /\ (s.p[v].active <= s.p[v].limit => q.active <= q.limit)
           => Keeps(s, t)
  BY <1>2, ProviderChange
<1> QED
  BY <1>2, <1>3 DEF q

-----------------------------------------------------------------------------
(* The global queue, whose tasks enter the queues of their keys.            *)

LEMMA EnterKeyOK ==
  ASSUME NEW s, NEW E, NEW G, NEW U, NEW P, NEW w, NEW r \in Requests,
         SysOK(s, E, G, U, P, w), r \in E, s.pc[r] \in {"idle", "in g line", "respond"},
         r \notin U
  PROVE  LET t == EnterKey(s, r) IN
         /\ SysOK(t, E \ {r}, G, U, P, w) /\ Keeps(s, t)
         /\ t.pc[r] \in {"loop", "in u line"}
         /\ \A z \in Requests : z # r => t.pc[z] = s.pc[z]
<1> DEFINE k == KeyOf[r]
           q == Added(s.u[k], r)
           x == IF HasRoom(s.u[k]) THEN "loop" ELSE "in u line"
           s1 == [s EXCEPT !.u[k] = q]
           t == EnterKey(s, r)
<1>1. /\ k \in Keys /\ s \in SysType /\ SysAccounts(s, E, G, U, P, w) /\ AllServed(s)
      /\ Accounts(s.u[k], WaitU(s, k), InU(s, U, k)) /\ Served(s.u[k]) /\ s.u[k].limit \in Limits
  BY KeyOfAssumption DEF SysOK, SysAccounts, AllServed, SysType, Queues
<1>2. r \notin WaitU(s, k) /\ r \notin InU(s, U, k)
  BY DEF WaitU, InU, KeyPlaces
<1>3. /\ HasRoom(s.u[k]) => Accounts(q, WaitU(s, k), InU(s, U, k) \cup {r})
      /\ ~HasRoom(s.u[k]) => Accounts(q, WaitU(s, k) \cup {r}, InU(s, U, k))
      /\ Served(q) /\ q.limit = s.u[k].limit
      /\ s.u[k].active <= s.u[k].limit => q.active <= q.limit
  <2> DEFINE u == s.u[k]
             W == WaitU(s, k)
             O == InU(s, U, k)
  <2>1. Accounts(u, W, O) /\ Served(u) /\ r \notin W /\ r \notin O
    BY <1>1, <1>2
  <2> HIDE DEF u, W, O
  <2>2. /\ HasRoom(u) => Accounts(Added(u, r), W, O \cup {r})
        /\ ~HasRoom(u) => Accounts(Added(u, r), W \cup {r}, O)
        /\ Served(Added(u, r)) /\ Added(u, r).limit = u.limit
    BY <2>1, AddAccounts
  <2>3. u.active <= u.limit => Added(u, r).active <= Added(u, r).limit
    BY <2>1, StaysWithin
  <2> QED
    BY <2>2, <2>3 DEF u, W, O
<1>4. q \in Queues
  <2>1. WaitU(s, k) \subseteq Requests /\ WaitU(s, k) \cup {r} \subseteq Requests
    BY DEF WaitU
  <2>2. q.limit \in Limits
    BY <1>1, <1>3
  <2> HIDE DEF q
  <2>3. CASE HasRoom(s.u[k])
    BY <1>3, <2>1, <2>2, <2>3, QueueTyped
  <2>4. CASE ~HasRoom(s.u[k])
    BY <1>3, <2>1, <2>2, <2>4, QueueTyped
  <2> QED
    BY <2>3, <2>4
<1>5. /\ s1 \in SysType /\ s1.g = s.g /\ s1.p = s.p /\ s1.pc = s.pc /\ s1.u[k] = q
      /\ \A j \in Keys : j # k => s1.u[j] = s.u[j]
  BY <1>1, <1>4, WithKeyQueue
<1>6. t = At(s1, r, x)
  BY DEF EnterKey
<1>7. x \in Places /\ x \in {"loop", "in u line"} /\ (x = "loop" <=> HasRoom(s.u[k]))
  BY DEF Places
<1> HIDE DEF q, x, s1, t
<1>8. /\ t \in SysType /\ t.g = s.g /\ t.p = s.p /\ t.u[k] = q
      /\ \A j \in Keys : j # k => t.u[j] = s.u[j]
      /\ \A z \in Requests : t.pc[z] = IF z = r THEN x ELSE s.pc[z]
  <2>1. /\ At(s1, r, x) \in SysType
        /\ At(s1, r, x).g = s1.g /\ At(s1, r, x).u = s1.u /\ At(s1, r, x).p = s1.p
        /\ \A z \in Requests : At(s1, r, x).pc[z] = IF z = r THEN x ELSE s1.pc[z]
    BY <1>5, <1>7, WithPlace
  <2> QED
    BY <1>5, <1>6, <2>1
<1>9. /\ WaitG(t) \ (E \ {r}) = WaitG(s) \ E
      /\ InG(t, G) \cup (E \ {r}) = InG(s, G) \cup E
  <2>1. WaitG(t) = WaitG(s) \ {r}
    BY <1>7, <1>8 DEF WaitG
  <2>2. InG(t, G) = InG(s, G) \cup {r}
    BY <1>7, <1>8 DEF InG, GlobalPlaces, KeyPlaces
  <2> QED
    BY <2>1, <2>2
<1>10. ASSUME NEW j \in Keys, j # k
       PROVE  WaitU(t, j) = WaitU(s, j) /\ InU(t, U, j) = InU(s, U, j)
  <2>1. \A z \in Requests : KeyOf[z] = j => t.pc[z] = s.pc[z]
    BY <1>8, <1>10
  <2> QED
    BY <2>1 DEF WaitU, InU
<1>11. Accounts(q, WaitU(t, k), InU(t, U, k))
  <2>1. CASE x = "loop"
    <3>1. WaitU(t, k) = WaitU(s, k) /\ InU(t, U, k) = InU(s, U, k) \cup {r}
      BY <1>8, <2>1 DEF WaitU, InU, KeyPlaces, k
    <3> QED
      BY <1>3, <1>7, <2>1, <3>1
  <2>2. CASE x = "in u line"
    <3>1. WaitU(t, k) = WaitU(s, k) \cup {r} /\ InU(t, U, k) = InU(s, U, k)
      BY <1>8, <2>2 DEF WaitU, InU, KeyPlaces, k
    <3> QED
      BY <1>3, <1>7, <2>2, <3>1
  <2> QED
    BY <1>7, <2>1, <2>2
<1>12. \A v \in Providers : WaitP(t, w, v) = WaitP(s, w, v) /\ InP(t, P, w, v) = InP(s, P, w, v)
  BY <1>7, <1>8 DEF WaitP, InP
<1>13. SysAccounts(t, E \ {r}, G, U, P, w)
  BY <1>1, <1>8, <1>9, <1>10, <1>11, <1>12 DEF SysAccounts
<1>14. AllServed(t)
  BY <1>1, <1>3, <1>8 DEF AllServed
<1>15. Keeps(s, t)
  BY <1>3, <1>8 DEF Keeps, WithinLimits
<1> QED
  BY <1>7, <1>8, <1>13, <1>14, <1>15 DEF SysOK, t

\* The recursion of Entering, which TLA+ leaves to be shown to exist
LEMMA EnteringSteps ==
  ASSUME NEW s, NumStarted(s.g) \in Nat
  PROVE  /\ Entering(s)[0] = [s EXCEPT !.g = Drained(@)]
         /\ \A i \in 1..NumStarted(s.g) :
               Entering(s)[i] = EnterKey(Entering(s)[i - 1], s.g.waiting[i])
<1> DEFINE n == NumStarted(s.g)
           first == [s EXCEPT !.g = Drained(@)]
           F(f, m) == [i \in 0..m |-> IF i = 0 THEN first
                                              ELSE EnterKey(f[i - 1], s.g.waiting[i])]
           Without == {m \in Nat : ~\E f : f = F(f, m)}
<1>1. Without = {}
  <2> SUFFICES ASSUME Without # {} PROVE FALSE
    OBVIOUS
  <2>1. PICK m \in Without : \A j \in Without : m <= j
    BY LeastNumber
  <2>2. CASE m = 0
    <3> DEFINE f == [i \in 0..0 |-> first]
    <3>1. f = F(f, 0)
      OBVIOUS
    <3> QED
      BY <2>1, <2>2, <3>1
  <2>3. CASE m # 0
    <3>1. m - 1 \in Nat /\ ~(m <= m - 1)
      BY <2>1, <2>3
    <3>2. m - 1 \notin Without
      BY <2>1, <3>1
    <3>3. PICK f : f = F(f, m - 1)
      BY <3>1, <3>2
    <3> DEFINE h == [i \in 0..m |-> IF i = m THEN EnterKey(f[m - 1], s.g.waiting[m]) ELSE f[i]]
    <3>4. h = F(h, m)
      <4>1. ASSUME NEW i \in 0..m PROVE h[i] = F(h, m)[i]
        <5>1. CASE i = 0
          BY <2>1, <2>3, <3>1, <3>3, <5>1
        <5>2. CASE i = m
          BY <2>1, <2>3, <3>1, <5>2
        <5>3. CASE i # 0 /\ i # m
          <6>1. i \in 0..(m - 1) /\ i - 1 \in 0..(m - 1) /\ i - 1 # m
            BY <2>1, <5>3
          <6>2. h[i] = f[i] /\ h[i - 1] = f[i - 1]
            BY <2>1, <5>3, <6>1
          <6>3. f[i] = EnterKey(f[i - 1], s.g.waiting[i])
            BY <3>3, <5>3, <6>1
          <6> QED
            BY <5>3, <6>2, <6>3
        <5> QED
          BY <5>1, <5>2, <5>3
      <4> QED
        BY <4>1
    <3> QED
      BY <2>1, <3>4
  <2> QED
    BY <2>2, <2>3
<1>2. \E f : f = F(f, n)
  BY <1>1
<1>3. Entering(s) = F(Entering(s), n)
  BY <1>2 DEF Entering
<1>4. 0 \in 0..n /\ \A i \in 1..n : i \in 0..n /\ i # 0
  OBVIOUS
<1> HIDE DEF n
<1>5. F(Entering(s), n)[0] = first
  BY <1>4
<1>6. \A i \in 1..n : F(Entering(s), n)[i] = EnterKey(Entering(s)[i - 1], s.g.waiting[i])
  BY <1>4
<1> QED
  BY <1>3, <1>5, <1>6 DEF n

\* processQueue() of the global queue: by induction over the requests it starts.
LEMMA GlobalDrain ==
  ASSUME NEW s, NEW G, NEW U, NEW P, NEW w,
         SysAccounts(s, {}, G, U, P, w),
         \A k \in Keys : Served(s.u[k]), \A v \in Providers : Served(s.p[v]),
         U \cap WaitG(s) = {}
  PROVE  /\ SysOK(GlobalDrained(s), {}, G, U, P, w)
         /\ Moves(s, GlobalDrained(s)) /\ Keeps(s, GlobalDrained(s))
<1> DEFINE q == s.g
           n == NumStarted(q)
           S == Started(q)
           f == Entering(s)
           E(i) == {q.waiting[j] : j \in (i + 1)..n}
           Iter(i) == /\ SysOK(f[i], E(i), G, U, P, w)
                      /\ Moves(s, f[i]) /\ Keeps(s, f[i])
                      /\ \A z \in E(i) : f[i].pc[z] = "in g line"
<1>1. /\ s \in SysType /\ Accounts(q, WaitG(s), InG(s, G))
      /\ q.limit \in Limits
  BY DEF SysAccounts, SysType, Queues
<1>2. /\ n \in Nat /\ n <= Len(q.waiting) /\ Len(q.waiting) \in Nat
      /\ Accounts(Drained(q), WaitG(s) \ S, InG(s, G) \cup S)
      /\ Served(Drained(q)) /\ Drained(q).limit = q.limit /\ S \subseteq WaitG(s)
      /\ q.active <= q.limit => Drained(q).active <= Drained(q).limit
      /\ S = {q.waiting[j] : j \in 1..n}
  <2> DEFINE W == WaitG(s)
             O == InG(s, G)
  <2>1. Accounts(q, W, O)
    BY <1>1
  <2> HIDE DEF W, O
  <2>2. NumStarted(q) \in 0..Len(q.waiting) /\ Len(q.waiting) \in Nat
    BY <2>1, StartedCount, AccountsFields
  <2>3. /\ Accounts(Drained(q), W \ Started(q), O \cup Started(q))
        /\ Served(Drained(q)) /\ Drained(q).limit = q.limit /\ Started(q) \subseteq W
    BY <2>1, DrainAccounts
  <2>4. q.active <= q.limit => Drained(q).active <= Drained(q).limit
    BY <2>1, StaysWithin
  <2>5. Started(q) = {q.waiting[j] : j \in 1..NumStarted(q)}
    BY DEF Started
  <2> HIDE DEF q
  <2> QED
    BY <2>2, <2>3, <2>4, <2>5 DEF W, O
<1>3. \A i, j \in 1..n : q.waiting[i] = q.waiting[j] => i = j
  <2>1. \A i, j \in 1..Len(q.waiting) : q.waiting[i] = q.waiting[j] => i = j
    BY <1>1 DEF Accounts
  <2>2. \A i \in 1..n : i \in 1..Len(q.waiting)
    BY <1>2
  <2> QED
    BY <2>1, <2>2
<1>4. f[0] = [s EXCEPT !.g = Drained(q)]
      /\ \A i \in 1..n : f[i] = EnterKey(f[i - 1], q.waiting[i])
  BY <1>2, EnteringSteps
<1>5. Iter(0)
  <2>1. Drained(q) \in Queues
    <3>1. WaitG(s) \ S \subseteq Requests
      BY DEF WaitG
    <3> QED
      BY <1>1, <1>2, <3>1, QueueTyped
  <2> DEFINE t == f[0]
  <2>2. t \in SysType /\ t.g = Drained(q) /\ t.u = s.u /\ t.p = s.p /\ t.pc = s.pc
    BY <1>1, <1>4, <2>1, WithGlobalQueue
  <2>3. E(0) = S
    BY <1>2
  <2> HIDE DEF t, E, S, q
  <2>4. /\ WaitG(t) = WaitG(s) /\ InG(t, G) = InG(s, G)
        /\ \A k \in Keys : WaitU(t, k) = WaitU(s, k) /\ InU(t, U, k) = InU(s, U, k)
        /\ \A v \in Providers : WaitP(t, w, v) = WaitP(s, w, v) /\ InP(t, P, w, v) = InP(s, P, w, v)
    BY <2>2 DEF WaitG, InG, WaitU, InU, WaitP, InP
  <2>5. SysAccounts(t, S, G, U, P, w)
    BY <1>2, <2>2, <2>4 DEF SysAccounts
  <2>6. AllServed(t)
    BY <1>2, <2>2 DEF AllServed
  <2>7. Moves(s, t)
    BY <2>2 DEF Moves
  <2>8. Keeps(s, t)
    BY <1>2, <2>2 DEF Keeps, WithinLimits, q
  <2>9. \A z \in S : t.pc[z] = "in g line"
    BY <1>2, <2>2 DEF WaitG
  <2> QED
    BY <2>3, <2>5, <2>6, <2>7, <2>8, <2>9 DEF SysOK, t
<1>6. ASSUME NEW i \in 1..n, Iter(i - 1) PROVE Iter(i)
  <2> DEFINE r == q.waiting[i]
             s1 == f[i - 1]
             t == f[i]
             D == E(i - 1)
  <2>1. r \in S /\ r \in Requests /\ r \notin U
    BY <1>2 DEF WaitG
  <2>2. r \in D /\ E(i) = D \ {r}
    <3>1. i \in Nat /\ n \in Nat /\ (i - 1) + 1 = i
      BY <1>2
    <3>2. i..n = {i} \cup ((i + 1)..n) /\ i \notin (i + 1)..n /\ (i + 1)..n \subseteq 1..n
      BY <3>1
    <3>3. D = {q.waiting[j] : j \in i..n}
      BY <3>1
    <3>4. \A j \in (i + 1)..n : q.waiting[j] # r
      BY <1>3, <3>2
    <3> QED
      BY <3>2, <3>3, <3>4
  <2>3. /\ SysOK(s1, D, G, U, P, w) /\ Moves(s, s1) /\ Keeps(s, s1)
        /\ \A z \in D : s1.pc[z] = "in g line"
    BY <1>6
  <2>4. t = EnterKey(s1, r)
    BY <1>4
  <2>5. D \subseteq WaitG(s)
    <3>1. (i - 1) + 1 = i /\ i..n \subseteq 1..n
      BY <1>2
    <3>2. D \subseteq S
      BY <1>2, <3>1
    <3> QED
      BY <1>2, <3>2
  <2> HIDE DEF r, s1, t, D, E, S, f
  <2>6. /\ SysOK(t, D \ {r}, G, U, P, w) /\ Keeps(s1, t)
        /\ t.pc[r] \in {"loop", "in u line"}
        /\ \A z \in Requests : z # r => t.pc[z] = s1.pc[z]
    BY <2>1, <2>2, <2>3, <2>4, EnterKeyOK
  <2>7. Keeps(s, t)
    BY <2>3, <2>6 DEF Keeps
  <2>8. \A z \in D \ {r} : t.pc[z] = "in g line"
    BY <2>3, <2>5, <2>6 DEF WaitG
  <2>9. Moves(s, t)
    <3>1. s.pc[r] = "in g line"
      BY <2>2, <2>5 DEF WaitG
    <3> QED
      BY <2>3, <2>6, <3>1 DEF Moves, Lines
  <2> QED
    BY <2>2, <2>6, <2>7, <2>8, <2>9 DEF t
<1> HIDE DEF Iter, f, E, S, q, n
<1>7. Iter(n)
  <2> DEFINE Bad == {i \in 0..n : ~Iter(i)}
  <2>1. SUFFICES ASSUME Bad # {} PROVE FALSE
    BY <1>2
  <2>2. Bad \subseteq Nat
    BY <1>2
  <2>3. PICK i \in Bad : \A j \in Bad : i <= j
    BY <2>1, <2>2, LeastNumber
  <2>4. i \in 0..n /\ ~Iter(i)
    BY <2>3
  <2>5. i # 0
    BY <1>5, <2>4
  <2>6. i \in 1..n /\ i - 1 \in 0..n /\ ~(i <= i - 1)
    BY <1>2, <2>4, <2>5
  <2>7. i - 1 \notin Bad
    BY <2>3, <2>6
  <2>8. Iter(i - 1)
    BY <2>6, <2>7
  <2> QED
    BY <1>6, <2>4, <2>6, <2>8
<1>8. E(n) = {}
  BY <1>2 DEF E
<1>9. GlobalDrained(s) = f[n]
  BY DEF GlobalDrained, f, n, q
<1> QED
  BY <1>7, <1>8, <1>9 DEF Iter

LEMMA GlobalChange ==
  ASSUME NEW s, NEW G, NEW V, NEW U, NEW P, NEW w, NEW q,
         SysOK(s, {}, G, U, P, w), U \cap WaitG(s) = {},
         Accounts(q, WaitG(s), InG(s, V)), q.limit \in Limits
  PROVE  LET t == GlobalDrained([s EXCEPT !.g = q]) IN
         /\ SysOK(t, {}, V, U, P, w) /\ Moves(s, t)
         /\ q.limit = s.g.limit /\ (s.g.active <= s.g.limit => q.active <= q.limit)
              => Keeps(s, t)
<1> DEFINE s1 == [s EXCEPT !.g = q]
           t == GlobalDrained(s1)
<1>1. s \in SysType /\ SysAccounts(s, {}, G, U, P, w) /\ AllServed(s)
  BY DEF SysOK, SysAccounts
<1>2. q \in Queues
  <2>1. WaitG(s) \subseteq Requests
    BY DEF WaitG
  <2> QED
    BY <2>1, QueueTyped
<1>3. s1 \in SysType /\ s1.g = q /\ s1.u = s.u /\ s1.p = s.p /\ s1.pc = s.pc
  BY <1>1, <1>2, WithGlobalQueue
<1> HIDE DEF s1
<1>4. /\ WaitG(s1) = WaitG(s) /\ InG(s1, V) = InG(s, V)
      /\ \A k \in Keys : WaitU(s1, k) = WaitU(s, k) /\ InU(s1, U, k) = InU(s, U, k)
      /\ \A v \in Providers : WaitP(s1, w, v) = WaitP(s, w, v) /\ InP(s1, P, w, v) = InP(s, P, w, v)
  BY <1>3 DEF WaitG, InG, WaitU, InU, WaitP, InP
<1>5. SysAccounts(s1, {}, V, U, P, w)
  <2>1. WaitG(s1) \ {} = WaitG(s) /\ InG(s1, V) \cup {} = InG(s, V)
    BY <1>4
  <2> QED
    BY <1>1, <1>3, <1>4, <2>1 DEF SysAccounts
<1>6. /\ \A k \in Keys : Served(s1.u[k])
      /\ \A v \in Providers : Served(s1.p[v])
  BY <1>1, <1>3 DEF AllServed
<1>7. SysOK(t, {}, V, U, P, w) /\ Moves(s1, t) /\ Keeps(s1, t)
  BY <1>4, <1>5, <1>6, GlobalDrain
<1>8. Moves(s, t)
  BY <1>3, <1>7 DEF Moves
<1>9. ASSUME q.limit = s.g.limit, s.g.active <= s.g.limit => q.active <= q.limit
      PROVE  Keeps(s, t)
  BY <1>3, <1>7, <1>9 DEF Keeps, WithinLimits
<1> QED
  BY <1>7, <1>8, <1>9 DEF s1

\* A request outside the global task gives back the slot it holds there.
LEMMA GlobalFreedOK ==
  ASSUME NEW s, NEW G, NEW U, NEW P, NEW w, NEW r \in Requests,
         SysOK(s, {}, G, U, P, w), U \cap WaitG(s) = {},
         r \in G, s.pc[r] \notin GlobalPlaces
  PROVE  LET t == GlobalFreed(s) IN
         SysOK(t, {}, G \ {r}, U, P, w) /\ Moves(s, t) /\ Keeps(s, t)
<1> DEFINE q == Freed(s.g)
<1>1. Accounts(s.g, WaitG(s), InG(s, G)) /\ s.g.limit \in Limits
  <2>1. WaitG(s) \ {} = WaitG(s) /\ InG(s, G) \cup {} = InG(s, G)
    OBVIOUS
  <2> QED
    BY <2>1 DEF SysOK, SysAccounts, SysType, Queues
<1>2. r \in InG(s, G)
  BY DEF InG
<1>3. /\ Accounts(q, WaitG(s), InG(s, G) \ {r}) /\ q.limit = s.g.limit
      /\ s.g.active <= s.g.limit => q.active <= q.limit
  <2>1. /\ Accounts(q, WaitG(s), InG(s, G) \ {r}) /\ q.limit = s.g.limit
    BY <1>1, <1>2, FreeAccounts
  <2>2. s.g.active <= s.g.limit => q.active <= q.limit
    BY <1>1, StaysWithin
  <2> QED
    BY <2>1, <2>2
<1>4. InG(s, G \ {r}) = InG(s, G) \ {r}
  BY DEF InG
<1>5. GlobalFreed(s) = GlobalDrained([s EXCEPT !.g = q])
  BY DEF GlobalFreed
<1> HIDE DEF q
<1>6. Accounts(q, WaitG(s), InG(s, G \ {r})) /\ q.limit \in Limits
  BY <1>1, <1>3, <1>4
<1> QED
  BY <1>3, <1>5, <1>6, GlobalChange

LEMMA GlobalResizedOK ==
  ASSUME NEW s, NEW G, NEW U, NEW P, NEW w, NEW n \in Limits,
         SysOK(s, {}, G, U, P, w), U \cap WaitG(s) = {}
  PROVE  LET t == GlobalDrained([s EXCEPT !.g = Resized(@, n)]) IN
         SysOK(t, {}, G, U, P, w) /\ Moves(s, t) /\ (n = s.g.limit => Keeps(s, t))
<1> DEFINE q == Resized(s.g, n)
<1>1. Accounts(s.g, WaitG(s), InG(s, G)) /\ n \in Int
  <2>1. WaitG(s) \ {} = WaitG(s) /\ InG(s, G) \cup {} = InG(s, G)
    OBVIOUS
  <2> QED
    BY <2>1, LimitsAreNumbers DEF SysOK, SysAccounts
<1>2. /\ Accounts(q, WaitG(s), InG(s, G)) /\ q.limit = n /\ q.active = s.g.active
  BY <1>1, ResizeAccounts, AccountsFields DEF Resized
<1> HIDE DEF q
<1>3. LET t == GlobalDrained([s EXCEPT !.g = q]) IN
      /\ SysOK(t, {}, G, U, P, w) /\ Moves(s, t)
      /\ q.limit = s.g.limit /\ (s.g.active <= s.g.limit => q.active <= q.limit) => Keeps(s, t)
  BY <1>2, GlobalChange
<1> QED
  BY <1>2, <1>3 DEF q

LEMMA EnterGlobalOK ==
  ASSUME NEW s, NEW G, NEW U, NEW P, NEW w, NEW r \in Requests,
         SysOK(s, {}, G, U, P, w), s.pc[r] \in {"idle", "respond"}, r \notin G, r \notin U
  PROVE  LET t == EnterGlobal(s, r) IN
         /\ SysOK(t, {}, G, U, P, w) /\ Keeps(s, t)
         /\ t.pc[r] \in {"loop", "in u line", "in g line"}
         /\ \A z \in Requests : z # r => t.pc[z] = s.pc[z]
<1> DEFINE q == Added(s.g, r)
           s1 == [s EXCEPT !.g = q]
           t == EnterGlobal(s, r)
<1>1. /\ s \in SysType /\ AllServed(s) /\ s.g.limit \in Limits
      /\ Accounts(s.g, WaitG(s), InG(s, G)) /\ Served(s.g)
      /\ \A k \in Keys : Accounts(s.u[k], WaitU(s, k), InU(s, U, k))
      /\ \A v \in Providers : Accounts(s.p[v], WaitP(s, w, v), InP(s, P, w, v))
  <2>1. WaitG(s) \ {} = WaitG(s) /\ InG(s, G) \cup {} = InG(s, G)
    OBVIOUS
  <2> QED
    BY <2>1 DEF SysOK, SysAccounts, SysType, Queues, AllServed
<1>2. r \notin WaitG(s) /\ r \notin InG(s, G)
  BY DEF WaitG, InG, GlobalPlaces, KeyPlaces
<1>3. /\ HasRoom(s.g) => Accounts(q, WaitG(s), InG(s, G) \cup {r})
      /\ ~HasRoom(s.g) => Accounts(q, WaitG(s) \cup {r}, InG(s, G))
      /\ Served(q) /\ q.limit = s.g.limit
      /\ s.g.active <= s.g.limit => q.active <= q.limit
  <2> DEFINE g == s.g
             W == WaitG(s)
             O == InG(s, G)
  <2>1. Accounts(g, W, O) /\ Served(g) /\ r \notin W /\ r \notin O
    BY <1>1, <1>2
  <2> HIDE DEF g, W, O
  <2>2. /\ HasRoom(g) => Accounts(Added(g, r), W, O \cup {r})
        /\ ~HasRoom(g) => Accounts(Added(g, r), W \cup {r}, O)
        /\ Served(Added(g, r)) /\ Added(g, r).limit = g.limit
    BY <2>1, AddAccounts
  <2>3. g.active <= g.limit => Added(g, r).active <= Added(g, r).limit
    BY <2>1, StaysWithin
  <2> QED
    BY <2>2, <2>3 DEF g, W, O
<1>4. q \in Queues
  <2>1. WaitG(s) \subseteq Requests /\ WaitG(s) \cup {r} \subseteq Requests
    BY DEF WaitG
  <2>2. q.limit \in Limits
    BY <1>1, <1>3
  <2> HIDE DEF q
  <2>3. CASE HasRoom(s.g)
    BY <1>3, <2>1, <2>2, <2>3, QueueTyped
  <2>4. CASE ~HasRoom(s.g)
    BY <1>3, <2>1, <2>2, <2>4, QueueTyped
  <2> QED
    BY <2>3, <2>4
<1>5. s1 \in SysType /\ s1.g = q /\ s1.u = s.u /\ s1.p = s.p /\ s1.pc = s.pc
  BY <1>1, <1>4, WithGlobalQueue
<1>6. t = IF HasRoom(s.g) THEN EnterKey(s1, r) ELSE At(s1, r, "in g line")
  BY DEF EnterGlobal
<1> HIDE DEF q, s1, t
<1>7. CASE HasRoom(s.g)
  <2>1. /\ WaitG(s1) \ {r} = WaitG(s) /\ InG(s1, G) \cup {r} = InG(s, G) \cup {r}
        /\ \A k \in Keys : WaitU(s1, k) = WaitU(s, k) /\ InU(s1, U, k) = InU(s, U, k)
        /\ \A v \in Providers : WaitP(s1, w, v) = WaitP(s, w, v) /\ InP(s1, P, w, v) = InP(s, P, w, v)
    BY <1>2, <1>5 DEF WaitG, InG, WaitU, InU, WaitP, InP
  <2>2. SysOK(s1, {r}, G, U, P, w)
    BY <1>1, <1>3, <1>5, <1>7, <2>1 DEF SysOK, SysAccounts, AllServed
  <2>3. /\ SysOK(t, {r} \ {r}, G, U, P, w) /\ Keeps(s1, t)
        /\ t.pc[r] \in {"loop", "in u line"}
        /\ \A z \in Requests : z # r => t.pc[z] = s1.pc[z]
    <3>1. t = EnterKey(s1, r)
      BY <1>6, <1>7
    <3>2. r \in {r} /\ s1.pc[r] \in {"idle", "in g line", "respond"} /\ r \notin U
      BY <1>5
    <3> QED
      BY <2>2, <3>1, <3>2, EnterKeyOK
  <2>4. Keeps(s, t)
    BY <1>3, <1>5, <2>3 DEF Keeps, WithinLimits
  <2>5. {r} \ {r} = {}
    OBVIOUS
  <2> QED
    BY <1>5, <2>3, <2>4, <2>5 DEF t
<1>8. CASE ~HasRoom(s.g)
  <2>1. "in g line" \in Places
    BY DEF Places
  <2>2. /\ t \in SysType /\ t.g = q /\ t.u = s.u /\ t.p = s.p
        /\ \A z \in Requests : t.pc[z] = IF z = r THEN "in g line" ELSE s.pc[z]
    <3> DEFINE x == "in g line"
    <3>1. t = At(s1, r, x) /\ x \in Places
      BY <1>6, <1>8, <2>1
    <3> HIDE DEF x
    <3>2. /\ At(s1, r, x) \in SysType
          /\ At(s1, r, x).g = s1.g /\ At(s1, r, x).u = s1.u /\ At(s1, r, x).p = s1.p
          /\ \A z \in Requests : At(s1, r, x).pc[z] = IF z = r THEN x ELSE s1.pc[z]
      BY <1>5, <3>1, WithPlace
    <3> QED
      BY <1>5, <3>1, <3>2 DEF x
  <2>3. WaitG(t) \ {} = WaitG(s) \cup {r} /\ InG(t, G) \cup {} = InG(s, G)
    BY <2>2, <1>2 DEF WaitG, InG, GlobalPlaces, KeyPlaces
  <2>4. \A k \in Keys : WaitU(t, k) = WaitU(s, k) /\ InU(t, U, k) = InU(s, U, k)
    BY <2>2 DEF WaitU, InU, KeyPlaces
  <2>5. \A v \in Providers : WaitP(t, w, v) = WaitP(s, w, v) /\ InP(t, P, w, v) = InP(s, P, w, v)
    BY <2>2 DEF WaitP, InP
  <2>6. SysOK(t, {}, G, U, P, w)
    BY <1>1, <1>3, <1>8, <2>2, <2>3, <2>4, <2>5 DEF SysOK, SysAccounts, AllServed
  <2>7. Keeps(s, t)
    BY <1>3, <2>2 DEF Keeps, WithinLimits
  <2> QED
    BY <2>2, <2>6, <2>7 DEF t
<1> QED
  BY <1>7, <1>8

-----------------------------------------------------------------------------
(* Steps of one request.                                                   *)

OthersMove(r, s, t) ==
    \A z \in Requests : z # r =>
        \/ t.pc[z] = s.pc[z]
        \/ s.pc[z] \in Lines /\ t.pc[z] \in {"in u line", "loop", "fetch"}

LEMMA MovesTrans ==
  ASSUME NEW s, NEW t, NEW u, Moves(s, t), Moves(t, u)
  PROVE  Moves(s, u)
  BY DEF Moves, Lines

LEMMA KeepsTrans ==
  ASSUME NEW s, NEW t, NEW u, Keeps(s, t), Keeps(t, u)
  PROVE  Keeps(s, u)
  BY DEF Keeps

\* r goes to the place x and keeps its slots, in its tasks or beyond them (the sets before and
\* after); its provider changes only while it has no slot of one.
SameSlots(s, r, G, U, P, w, x, A, B, C, v) ==
    /\ SysOK(s, {}, G, U, P, w) /\ r \in Requests
    /\ s.pc[r] \notin Lines /\ x \in Places \ Lines
    /\ A \ {r} = G \ {r} /\ B \ {r} = U \ {r} /\ C \ {r} = P \ {r}
    /\ \A z \in Requests : z # r => v[z] = w[z]
    /\ (x \in GlobalPlaces \/ r \in A) <=> (s.pc[r] \in GlobalPlaces \/ r \in G)
    /\ (x \in KeyPlaces \/ r \in B) <=> (s.pc[r] \in KeyPlaces \/ r \in U)
    /\ (x = "fetch" \/ r \in C) <=> (s.pc[r] = "fetch" \/ r \in P)
    /\ (x = "fetch" \/ r \in C) => v[r] = w[r]

LEMMA Placed ==
  ASSUME NEW s, NEW G, NEW U, NEW P, NEW w, NEW A, NEW B, NEW C, NEW v,
         NEW r, NEW x, SameSlots(s, r, G, U, P, w, x, A, B, C, v)
  PROVE  LET t == At(s, r, x) IN
         /\ SysOK(t, {}, A, B, C, v) /\ Keeps(s, t) /\ t.pc[r] = x
         /\ \A z \in Requests : z # r => t.pc[z] = s.pc[z]
<1> USE DEF SameSlots
<1> DEFINE t == At(s, r, x)
<1>1. /\ s \in SysType /\ AllServed(s)
      /\ Accounts(s.g, WaitG(s) \ {}, InG(s, G) \cup {})
      /\ \A k \in Keys : Accounts(s.u[k], WaitU(s, k), InU(s, U, k))
      /\ \A j \in Providers : Accounts(s.p[j], WaitP(s, w, j), InP(s, P, w, j))
  BY DEF SysOK, SysAccounts
<1>2. /\ t \in SysType /\ t.g = s.g /\ t.u = s.u /\ t.p = s.p
      /\ \A z \in Requests : t.pc[z] = IF z = r THEN x ELSE s.pc[z]
  BY <1>1, WithPlace
<1> HIDE DEF t
<1>3. /\ x # "in g line" /\ x # "in u line" /\ x # "in p line"
      /\ s.pc[r] # "in g line" /\ s.pc[r] # "in u line" /\ s.pc[r] # "in p line"
  BY DEF Lines
<1>4. WaitG(t) = WaitG(s)
  BY <1>2, <1>3 DEF WaitG
<1>5. InG(t, A) = InG(s, G)
  BY <1>2 DEF InG
<1>6. ASSUME NEW k \in Keys PROVE WaitU(t, k) = WaitU(s, k) /\ InU(t, B, k) = InU(s, U, k)
  <2>1. WaitU(t, k) = WaitU(s, k)
    BY <1>2, <1>3 DEF WaitU
  <2>2. InU(t, B, k) = InU(s, U, k)
    BY <1>2 DEF InU
  <2> QED
    BY <2>1, <2>2
<1>7. ASSUME NEW j \in Providers
      PROVE  WaitP(t, v, j) = WaitP(s, w, j) /\ InP(t, C, v, j) = InP(s, P, w, j)
  <2>1. WaitP(t, v, j) = WaitP(s, w, j)
    BY <1>2, <1>3 DEF WaitP
  <2>2. InP(t, C, v, j) = InP(s, P, w, j)
    BY <1>2 DEF InP
  <2> QED
    BY <2>1, <2>2
<1>8. SysAccounts(t, {}, A, B, C, v)
  BY <1>1, <1>2, <1>4, <1>5, <1>6, <1>7 DEF SysAccounts
<1>9. AllServed(t)
  BY <1>1, <1>2 DEF AllServed
<1>10. Keeps(s, t)
  BY <1>2 DEF Keeps, WithinLimits
<1> QED
  BY <1>2, <1>8, <1>9, <1>10 DEF SysOK, t

EnterProvider(s, r, v) ==
    At([s EXCEPT !.p[v] = Added(@, r)], r, IF HasRoom(s.p[v]) THEN "fetch" ELSE "in p line")

OthersStay(r, s, t) == \A z \in Requests : z # r => t.pc[z] = s.pc[z]

Asking(s, r, v, G, U, P, w) ==
    /\ SysOK(s, {}, G, U, P, w) /\ r \in Requests
    /\ s.pc[r] = "chosen" /\ v = w[r] /\ v \in Providers /\ r \notin P

\* provQueue.add(...) for request r
LEMMA EnterProviderOK ==
  ASSUME NEW s, NEW G, NEW U, NEW P, NEW w, NEW r, NEW v,
         Asking(s, r, v, G, U, P, w)
  PROVE  LET t == EnterProvider(s, r, v) IN
         /\ SysOK(t, {}, G, U, P, w) /\ Keeps(s, t)
         /\ t.pc[r] \in {"fetch", "in p line"} /\ OthersStay(r, s, t)
<1> DEFINE q == Added(s.p[v], r)
           x == IF HasRoom(s.p[v]) THEN "fetch" ELSE "in p line"
           s1 == [s EXCEPT !.p[v] = q]
           t == At(s1, r, x)
<1> USE DEF Asking
<1>1. /\ v \in Providers /\ s \in SysType /\ AllServed(s) /\ Served(s.p[v])
      /\ Accounts(s.g, WaitG(s) \ {}, InG(s, G) \cup {})
      /\ \A k \in Keys : Accounts(s.u[k], WaitU(s, k), InU(s, U, k))
      /\ \A j \in Providers : Accounts(s.p[j], WaitP(s, w, j), InP(s, P, w, j))
      /\ s.p[v].limit \in Limits
  BY DEF SysOK, SysAccounts, AllServed, SysType, Queues
<1>2. r \notin WaitP(s, w, v) /\ r \notin InP(s, P, w, v)
  BY DEF WaitP, InP
<1>3. /\ HasRoom(s.p[v]) => Accounts(q, WaitP(s, w, v), InP(s, P, w, v) \cup {r})
      /\ ~HasRoom(s.p[v]) => Accounts(q, WaitP(s, w, v) \cup {r}, InP(s, P, w, v))
      /\ Served(q) /\ q.limit = s.p[v].limit
      /\ s.p[v].active <= s.p[v].limit => q.active <= q.limit
  <2> DEFINE u == s.p[v]
             W == WaitP(s, w, v)
             O == InP(s, P, w, v)
  <2>1. Accounts(u, W, O) /\ Served(u) /\ r \notin W /\ r \notin O
    BY <1>1, <1>2
  <2> HIDE DEF u, W, O
  <2>2. /\ HasRoom(u) => Accounts(Added(u, r), W, O \cup {r})
        /\ ~HasRoom(u) => Accounts(Added(u, r), W \cup {r}, O)
        /\ Served(Added(u, r)) /\ Added(u, r).limit = u.limit
    BY <2>1, AddAccounts
  <2>3. u.active <= u.limit => Added(u, r).active <= Added(u, r).limit
    BY <2>1, StaysWithin
  <2> QED
    BY <2>2, <2>3 DEF u, W, O
<1>4. q \in Queues
  <2>1. WaitP(s, w, v) \subseteq Requests /\ WaitP(s, w, v) \cup {r} \subseteq Requests
    BY DEF WaitP
  <2>2. q.limit \in Limits
    BY <1>1, <1>3
  <2> HIDE DEF q
  <2>3. CASE HasRoom(s.p[v])
    BY <1>3, <2>1, <2>2, <2>3, QueueTyped
  <2>4. CASE ~HasRoom(s.p[v])
    BY <1>3, <2>1, <2>2, <2>4, QueueTyped
  <2> QED
    BY <2>3, <2>4
<1>5. /\ s1 \in SysType /\ s1.g = s.g /\ s1.u = s.u /\ s1.pc = s.pc /\ s1.p[v] = q
      /\ \A j \in Providers : j # v => s1.p[j] = s.p[j]
  BY <1>1, <1>4, WithProviderQueue
<1>6. x \in Places /\ x \in {"fetch", "in p line"} /\ (x = "fetch" <=> HasRoom(s.p[v]))
  BY DEF Places
<1> HIDE DEF q, x, s1, t
<1>7. /\ t \in SysType /\ t.g = s.g /\ t.u = s.u /\ t.p[v] = q
      /\ \A j \in Providers : j # v => t.p[j] = s.p[j]
      /\ \A z \in Requests : t.pc[z] = IF z = r THEN x ELSE s.pc[z]
  <2>1. /\ At(s1, r, x) \in SysType
        /\ At(s1, r, x).g = s1.g /\ At(s1, r, x).u = s1.u /\ At(s1, r, x).p = s1.p
        /\ \A z \in Requests : At(s1, r, x).pc[z] = IF z = r THEN x ELSE s1.pc[z]
    BY <1>5, <1>6, WithPlace
  <2> QED
    BY <1>5, <2>1 DEF t
<1>8. WaitG(t) = WaitG(s) /\ InG(t, G) = InG(s, G)
  BY <1>6, <1>7 DEF WaitG, InG, GlobalPlaces, KeyPlaces
<1>9. \A k \in Keys : WaitU(t, k) = WaitU(s, k) /\ InU(t, U, k) = InU(s, U, k)
  BY <1>6, <1>7 DEF WaitU, InU, KeyPlaces
<1>10. ASSUME NEW j \in Providers, j # v
       PROVE  WaitP(t, w, j) = WaitP(s, w, j) /\ InP(t, P, w, j) = InP(s, P, w, j)
  <2>1. \A z \in Requests : w[z] = j => t.pc[z] = s.pc[z]
    BY <1>7, <1>10
  <2> QED
    BY <2>1 DEF WaitP, InP
<1>11. Accounts(q, WaitP(t, w, v), InP(t, P, w, v))
  <2>1. CASE x = "fetch"
    <3>1. WaitP(t, w, v) = WaitP(s, w, v) /\ InP(t, P, w, v) = InP(s, P, w, v) \cup {r}
      BY <1>7, <2>1 DEF WaitP, InP
    <3> QED
      BY <1>3, <1>6, <2>1, <3>1
  <2>2. CASE x = "in p line"
    <3>1. WaitP(t, w, v) = WaitP(s, w, v) \cup {r} /\ InP(t, P, w, v) = InP(s, P, w, v)
      BY <1>7, <2>2 DEF WaitP, InP
    <3> QED
      BY <1>3, <1>6, <2>2, <3>1
  <2> QED
    BY <1>6, <2>1, <2>2
<1>12. SysAccounts(t, {}, G, U, P, w)
  BY <1>1, <1>7, <1>8, <1>9, <1>10, <1>11 DEF SysAccounts
<1>13. AllServed(t)
  BY <1>1, <1>3, <1>7 DEF AllServed
<1>14. Keeps(s, t)
  BY <1>3, <1>7 DEF Keeps, WithinLimits
<1>15. t = EnterProvider(s, r, v)
  BY DEF t, s1, q, x, EnterProvider
<1>16. /\ SysOK(t, {}, G, U, P, w) /\ Keeps(s, t)
       /\ t.pc[r] \in {"fetch", "in p line"} /\ OthersStay(r, s, t)
  BY <1>6, <1>7, <1>12, <1>13, <1>14 DEF SysOK, OthersStay
<1> QED
  BY <1>15, <1>16

-----------------------------------------------------------------------------
(* The inductive invariant, and one lemma per action.                       *)

Held == {r \in Requests : held[r]}

\* A request holds slots beyond its tasks from a stream's first byte to the end of its forwarding;
\* hold() was called in no other task.
HoldsOK ==
    /\ \A r \in Requests : held[r] =>
          /\ manual[r]
          /\ sys.pc[r] \in {"got", "left", "respond"}
          /\ sys.pc[r] = "got" => answer[r] = "stream"
    /\ \A r \in Requests : manual[r] => held[r] \/ sys.pc[r] = "done"
    /\ \A r \in Requests : answer[r] # "empty json"

SlotsInv ==
    /\ TypeOK
    /\ SysOK(sys, {}, Held, Held, Held, prov)
    /\ HoldsOK

\* Every queue's limit, and every limit a request has read, is the one in the database.
LimitsSet ==
    /\ sys.g.limit = limit.g
    /\ \A k \in Keys : sys.u[k].limit = limit.u[k]
    /\ \A v \in Providers : sys.p[v].limit = limit.p[v]
    /\ \A r \in Requests : seen[r] = limit.p[prov[r]]

\* What a step of r does to the queues
StepOK(r, t, H, w) ==
    /\ SysOK(t, {}, H, H, H, w)
    /\ OthersMove(r, sys, t)
    /\ LimitsSet => Keeps(sys, t)

LEMMA InvSystem ==
  ASSUME SlotsInv
  PROVE  /\ SysOK(sys, {}, Held, Held, Held, prov)
         /\ sys.pc \in [Requests -> Places]
         /\ limit.g \in Limits
         /\ \A k \in Keys : limit.u[k] \in Limits
         /\ \A v \in Providers : limit.p[v] \in Limits
         /\ \A r \in Requests : prov[r] \in Providers /\ seen[r] \in Limits /\ KeyOf[r] \in Keys
  BY KeyOfAssumption DEF SlotsInv, TypeOK

\* No held request is in a line, after any drains.
LEMMA HeldKeepOut ==
  ASSUME SlotsInv, NEW s, Moves(sys, s)
  PROVE  /\ \A z \in Held : s.pc[z] = sys.pc[z]
         /\ \A H : H \subseteq Held => H \cap WaitG(s) = {}
<1>1. \A z \in Held : sys.pc[z] \in {"got", "left", "respond"} /\ z \in Requests
  BY DEF SlotsInv, HoldsOK, Held
<1>2. \A z \in Held : s.pc[z] = sys.pc[z]
  BY <1>1 DEF Moves, Lines
<1> QED
  BY <1>1, <1>2 DEF WaitG

LEMMA MovesSelf == \A s : Moves(s, s) /\ Keeps(s, s)
  BY DEF Moves, Keeps

LEMMA SubmitStep ==
  ASSUME SlotsInv, NEW r \in Requests, Submit(r)
  PROVE  StepOK(r, sys', Held, prov) /\ sys'.pc[r] \in {"loop", "in u line", "in g line"}
<1> DEFINE k == KeyOf[r]
           s1 == GlobalDrained([sys EXCEPT !.g = Resized(@, limit.g)])
           s2 == KeyDrained([s1 EXCEPT !.u[k] = Resized(@, limit.u[k])], k)
           t == EnterGlobal(s2, r)
<1>1. sys.pc[r] = "idle" /\ sys' = t
  BY DEF Submit
<1>2. /\ SysOK(sys, {}, Held, Held, Held, prov) /\ k \in Keys
      /\ limit.g \in Limits /\ limit.u[k] \in Limits
  BY InvSystem
<1>3. Held \cap WaitG(sys) = {}
  BY HeldKeepOut, MovesSelf
<1>4. /\ SysOK(s1, {}, Held, Held, Held, prov) /\ Moves(sys, s1)
      /\ limit.g = sys.g.limit => Keeps(sys, s1)
  BY <1>2, <1>3, GlobalResizedOK
<1> HIDE DEF s1
<1>5. /\ SysOK(s2, {}, Held, Held, Held, prov) /\ Moves(s1, s2)
      /\ limit.u[k] = s1.u[k].limit => Keeps(s1, s2)
  BY <1>2, <1>4, KeyResizedOK
<1> HIDE DEF s2
<1>6. Moves(sys, s2)
  BY <1>4, <1>5, MovesTrans
<1>7. s2.pc[r] \in {"idle", "respond"} /\ r \notin Held
  <2>1. s2.pc[r] = "idle"
    BY <1>1, <1>6 DEF Moves, Lines
  <2>2. r \notin Held
    BY <1>1 DEF SlotsInv, HoldsOK, Held
  <2> QED
    BY <2>1, <2>2
<1>8. /\ SysOK(t, {}, Held, Held, Held, prov) /\ Keeps(s2, t)
      /\ t.pc[r] \in {"loop", "in u line", "in g line"}
      /\ \A z \in Requests : z # r => t.pc[z] = s2.pc[z]
  BY <1>5, <1>7, EnterGlobalOK
<1> HIDE DEF t
<1>9. OthersMove(r, sys, t)
  BY <1>6, <1>8 DEF OthersMove, Moves
<1>10. LimitsSet => Keeps(sys, t)
  <2>1. SUFFICES ASSUME LimitsSet PROVE Keeps(sys, t)
    OBVIOUS
  <2>2. Keeps(sys, s1)
    BY <1>4, <2>1 DEF LimitsSet
  <2>3. limit.u[k] = s1.u[k].limit
    BY <1>2, <2>1, <2>2 DEF LimitsSet, Keeps
  <2> QED
    BY <1>5, <1>8, <2>2, <2>3, KeepsTrans
<1> QED
  BY <1>1, <1>8, <1>9, <1>10 DEF StepOK

LEMMA ChooseStep ==
  ASSUME SlotsInv, NEW r \in Requests, NEW v \in Providers, Choose(r, v)
  PROVE  StepOK(r, sys', Held, prov') /\ sys'.pc[r] = "chosen"
<1> DEFINE t == At(sys, r, "chosen")
<1>1. sys.pc[r] = "loop" /\ sys' = t /\ prov' = [prov EXCEPT ![r] = v]
  BY DEF Choose
<1>2. SysOK(sys, {}, Held, Held, Held, prov) /\ prov \in [Requests -> Providers]
  BY DEF SlotsInv, TypeOK
<1>3. r \notin Held
  BY <1>1 DEF SlotsInv, HoldsOK, Held
<1>4. SameSlots(sys, r, Held, Held, Held, prov, "chosen", Held, Held, Held, prov')
  BY <1>1, <1>2, <1>3, InvSystem DEF SameSlots, Places, Lines, KeyPlaces, GlobalPlaces
<1>5. /\ SysOK(t, {}, Held, Held, Held, prov') /\ Keeps(sys, t) /\ t.pc[r] = "chosen"
      /\ \A z \in Requests : z # r => t.pc[z] = sys.pc[z]
  <2> DEFINE w == prov'
  <2>1. SameSlots(sys, r, Held, Held, Held, prov, "chosen", Held, Held, Held, w)
    BY <1>4
  <2> HIDE DEF w
  <2>2. /\ SysOK(t, {}, Held, Held, Held, w) /\ Keeps(sys, t) /\ t.pc[r] = "chosen"
        /\ \A z \in Requests : z # r => t.pc[z] = sys.pc[z]
    BY <2>1, Placed
  <2> QED
    BY <2>2 DEF w
<1> HIDE DEF t
<1> QED
  BY <1>1, <1>5 DEF StepOK, OthersMove

\* getProviderQueue() for the attempt of r
LEMMA ProviderAsked ==
  ASSUME SlotsInv, NEW r \in Requests, sys.pc[r] = "chosen"
  PROVE  LET s == ProviderDrained([sys EXCEPT !.p[prov[r]] = Resized(@, seen[r])], prov[r]) IN
         /\ SysOK(s, {}, Held, Held, Held, prov) /\ Moves(sys, s) /\ s.pc[r] = "chosen"
         /\ LimitsSet => Keeps(sys, s)
<1> DEFINE v == prov[r]
           s == ProviderDrained([sys EXCEPT !.p[v] = Resized(@, seen[r])], v)
<1>1. /\ SysOK(sys, {}, Held, Held, Held, prov)
      /\ v \in Providers /\ seen[r] \in Limits
  BY InvSystem
<1>2. /\ SysOK(s, {}, Held, Held, Held, prov) /\ Moves(sys, s)
      /\ seen[r] = sys.p[v].limit => Keeps(sys, s)
  BY <1>1, ProviderResizedOK
<1>3. LimitsSet => seen[r] = sys.p[v].limit
  BY <1>1 DEF LimitsSet
<1> HIDE DEF s
<1>4. s.pc[r] = "chosen"
  BY <1>2 DEF Moves, Lines
<1> QED
  BY <1>2, <1>3, <1>4 DEF s

LEMMA AskStep ==
  ASSUME SlotsInv, NEW r \in Requests, Ask(r)
  PROVE  StepOK(r, sys', Held, prov) /\ sys'.pc[r] \in {"fetch", "in p line"}
<1> DEFINE s == ProviderDrained([sys EXCEPT !.p[prov[r]] = Resized(@, seen[r])], prov[r])
           t == EnterProvider(s, r, prov[r])
<1>1. sys.pc[r] = "chosen" /\ sys' = t
  BY DEF Ask, EnterProvider
<1>2. /\ SysOK(s, {}, Held, Held, Held, prov) /\ Moves(sys, s) /\ s.pc[r] = "chosen"
      /\ LimitsSet => Keeps(sys, s)
  BY <1>1, ProviderAsked
<1>3. r \notin Held /\ prov[r] \in Providers
  BY <1>1, InvSystem DEF SlotsInv, HoldsOK, Held
<1> HIDE DEF s
<1>4. /\ SysOK(t, {}, Held, Held, Held, prov) /\ Keeps(s, t)
      /\ t.pc[r] \in {"fetch", "in p line"} /\ OthersStay(r, s, t)
  <2>1. Asking(s, r, prov[r], Held, Held, Held, prov)
    BY <1>2, <1>3 DEF Asking
  <2> QED
    BY <2>1, EnterProviderOK
<1> HIDE DEF t
<1>5. OthersMove(r, sys, t)
  BY <1>2, <1>4 DEF OthersMove, OthersStay, Moves
<1>6. LimitsSet => Keeps(sys, t)
  BY <1>2, <1>4, KeepsTrans
<1> QED
  BY <1>1, <1>4, <1>5, <1>6 DEF StepOK

LEMMA SkipStep ==
  ASSUME SlotsInv, NEW r \in Requests, SkipFullProvider(r)
  PROVE  StepOK(r, sys', Held, prov) /\ sys'.pc[r] = "loop"
<1> DEFINE s == ProviderDrained([sys EXCEPT !.p[prov[r]] = Resized(@, seen[r])], prov[r])
           t == At(s, r, "loop")
<1>1. sys.pc[r] = "chosen" /\ sys' = t
  BY DEF SkipFullProvider
<1>2. /\ SysOK(s, {}, Held, Held, Held, prov) /\ Moves(sys, s) /\ s.pc[r] = "chosen"
      /\ LimitsSet => Keeps(sys, s)
  BY <1>1, ProviderAsked
<1>3. r \notin Held
  BY <1>1 DEF SlotsInv, HoldsOK, Held
<1> HIDE DEF s
<1>4. SameSlots(s, r, Held, Held, Held, prov, "loop", Held, Held, Held, prov)
  BY <1>2, <1>3 DEF SameSlots, Places, Lines, KeyPlaces, GlobalPlaces
<1>5. /\ SysOK(t, {}, Held, Held, Held, prov) /\ Keeps(s, t) /\ t.pc[r] = "loop"
      /\ \A z \in Requests : z # r => t.pc[z] = s.pc[z]
  BY <1>4, Placed
<1> HIDE DEF t
<1>6. OthersMove(r, sys, t)
  BY <1>2, <1>5 DEF OthersMove, Moves
<1>7. LimitsSet => Keeps(sys, t)
  BY <1>2, <1>5, KeepsTrans
<1> QED
  BY <1>1, <1>5, <1>6, <1>7 DEF StepOK

LEMMA FetchPlainStep ==
  ASSUME SlotsInv, NEW r \in Requests, FetchPlain(r)
  PROVE  StepOK(r, sys', Held, prov) /\ sys'.pc[r] = "got" /\ ~held[r]
<1> DEFINE v == prov[r]
           P == Held \cup {r}
           s == At(sys, r, "got")
           t == ProviderFreed(s, v)
<1>1. sys.pc[r] = "fetch" /\ sys' = t
  BY DEF FetchPlain
<1>2. SysOK(sys, {}, Held, Held, Held, prov) /\ v \in Providers
  BY InvSystem
<1>3. r \notin Held /\ P \ {r} = Held
  BY <1>1 DEF SlotsInv, HoldsOK, Held
<1>4. SameSlots(sys, r, Held, Held, Held, prov, "got", Held, Held, P, prov)
  BY <1>1, <1>3, InvSystem DEF SameSlots, Places, Lines, KeyPlaces, GlobalPlaces
<1>5. r \in P
  OBVIOUS
<1> HIDE DEF P
<1>6. /\ SysOK(s, {}, Held, Held, P, prov) /\ Keeps(sys, s) /\ s.pc[r] = "got"
      /\ \A z \in Requests : z # r => s.pc[z] = sys.pc[z]
  <2>1. SysOK(sys, {}, Held, Held, Held, prov)
    BY <1>2
  <2> QED
    BY <1>4, Placed
<1> HIDE DEF s
<1>7. SysOK(t, {}, Held, Held, P \ {r}, prov) /\ Moves(s, t) /\ Keeps(s, t)
  <2>1. SysOK(s, {}, Held, Held, P, prov) /\ s.pc[r] # "fetch" /\ prov[r] \in Providers
    BY <1>2, <1>6
  <2> QED
    BY <2>1, <1>5, ProviderFreedOK
<1> HIDE DEF t
<1>8. t.pc[r] = "got" /\ OthersMove(r, sys, t)
  BY <1>6, <1>7 DEF OthersMove, Moves, Lines
<1>9. Keeps(sys, t)
  BY <1>6, <1>7, KeepsTrans
<1>10. ~held[r]
  BY <1>3 DEF Held
<1> QED
  BY <1>1, <1>3, <1>7, <1>8, <1>9, <1>10 DEF StepOK

LEMMA FetchStreamStep ==
  ASSUME SlotsInv, NEW r \in Requests, FetchStream(r)
  PROVE  StepOK(r, sys', Held', prov) /\ sys'.pc[r] = "got" /\ Held' = Held \cup {r}
<1> DEFINE H == Held \cup {r}
           t == At(sys, r, "got")
<1>1. sys.pc[r] = "fetch" /\ sys' = t /\ held' = [held EXCEPT ![r] = TRUE]
  BY DEF FetchStream
<1>2. SysOK(sys, {}, Held, Held, Held, prov)
  BY InvSystem
<1>3. Held' = H
  BY <1>1 DEF Held, SlotsInv, TypeOK
<1>4. SameSlots(sys, r, Held, Held, Held, prov, "got", H, H, H, prov)
  BY <1>1, InvSystem DEF SameSlots, Places, Lines, KeyPlaces, GlobalPlaces
<1> HIDE DEF H
<1>5. /\ SysOK(t, {}, H, H, H, prov) /\ Keeps(sys, t) /\ t.pc[r] = "got"
      /\ \A z \in Requests : z # r => t.pc[z] = sys.pc[z]
  BY <1>4, Placed
<1> HIDE DEF t
<1> QED
  BY <1>1, <1>3, <1>5 DEF StepOK, OthersMove, H

LEMMA RetryStep ==
  ASSUME SlotsInv, NEW r \in Requests, RetryInLoop(r)
  PROVE  StepOK(r, sys', Held, prov) /\ sys'.pc[r] = "loop" /\ ~held[r]
<1> DEFINE t == At(sys, r, "loop")
<1>1. sys.pc[r] = "got" /\ ~held[r] /\ r \notin Held
  BY DEF RetryInLoop, SlotsInv, HoldsOK, Held
<1>2. sys' = t
  BY <1>1 DEF RetryInLoop, SlotsReleased
<1>3. SysOK(sys, {}, Held, Held, Held, prov)
  BY InvSystem
<1>4. SameSlots(sys, r, Held, Held, Held, prov, "loop", Held, Held, Held, prov)
  BY <1>1, InvSystem DEF SameSlots, Places, Lines, KeyPlaces, GlobalPlaces
<1>5. /\ SysOK(t, {}, Held, Held, Held, prov) /\ Keeps(sys, t) /\ t.pc[r] = "loop"
      /\ \A z \in Requests : z # r => t.pc[z] = sys.pc[z]
  BY <1>4, Placed
<1> HIDE DEF t
<1> QED
  BY <1>1, <1>2, <1>5 DEF StepOK, OthersMove

LEMMA LeaveKeyStep ==
  ASSUME SlotsInv, NEW r \in Requests, LeaveKey(r)
  PROVE  StepOK(r, sys', Held, prov) /\ sys'.pc[r] = "left"
<1> DEFINE k == KeyOf[r]
           U == Held \cup {r}
           s == At(sys, r, "left")
           t == KeyFreed(s, k)
<1>1. sys.pc[r] \in {"loop", "chosen", "got"} /\ sys' = IF manual[r] THEN s ELSE t
  BY DEF LeaveKey
<1>2. SysOK(sys, {}, Held, Held, Held, prov)
  BY InvSystem
<1>3. manual[r] <=> r \in Held
  BY <1>1 DEF SlotsInv, HoldsOK, Held
<1>4. SameSlots(sys, r, Held, Held, Held, prov, "left", Held, U, Held, prov)
  BY <1>1, InvSystem DEF SameSlots, Places, Lines, KeyPlaces, GlobalPlaces
<1>5. r \in U /\ (r \in Held => U = Held) /\ (r \notin Held => U \ {r} = Held)
  OBVIOUS
<1> HIDE DEF U
<1>6. /\ SysOK(s, {}, Held, U, Held, prov) /\ Keeps(sys, s) /\ s.pc[r] = "left"
      /\ \A z \in Requests : z # r => s.pc[z] = sys.pc[z]
  BY <1>4, Placed
<1> HIDE DEF s
<1>7. SysOK(t, {}, Held, U \ {r}, Held, prov) /\ Moves(s, t) /\ Keeps(s, t)
  <2>1. SysOK(s, {}, Held, U, Held, prov) /\ s.pc[r] \notin KeyPlaces
    BY <1>6 DEF KeyPlaces
  <2> QED
    BY <2>1, <1>5, KeyFreedOK
<1> HIDE DEF t
<1>8. CASE manual[r]
  BY <1>1, <1>3, <1>5, <1>6, <1>8 DEF StepOK, OthersMove
<1>9. CASE ~manual[r]
  <2>1. t.pc[r] = "left" /\ OthersMove(r, sys, t)
    BY <1>6, <1>7 DEF OthersMove, Moves, Lines
  <2>2. Keeps(sys, t)
    BY <1>6, <1>7, KeepsTrans
  <2> QED
    BY <1>1, <1>3, <1>5, <1>7, <1>9, <2>1, <2>2 DEF StepOK
<1> QED
  BY <1>8, <1>9

LEMMA LeaveGlobalStep ==
  ASSUME SlotsInv, NEW r \in Requests, LeaveGlobal(r)
  PROVE  StepOK(r, sys', Held, prov) /\ sys'.pc[r] = "respond"
<1> DEFINE G == Held \cup {r}
           s == At(sys, r, "respond")
           t == GlobalFreed(s)
<1>1. sys.pc[r] = "left" /\ sys' = IF manual[r] THEN s ELSE t
  BY DEF LeaveGlobal
<1>2. SysOK(sys, {}, Held, Held, Held, prov)
  BY InvSystem
<1>3. manual[r] <=> r \in Held
  BY <1>1 DEF SlotsInv, HoldsOK, Held
<1>4. SameSlots(sys, r, Held, Held, Held, prov, "respond", G, Held, Held, prov)
  BY <1>1, InvSystem DEF SameSlots, Places, Lines, KeyPlaces, GlobalPlaces
<1>5. r \in G /\ (r \in Held => G = Held) /\ (r \notin Held => G \ {r} = Held)
  OBVIOUS
<1> HIDE DEF G
<1>6. /\ SysOK(s, {}, G, Held, Held, prov) /\ Keeps(sys, s) /\ s.pc[r] = "respond"
      /\ \A z \in Requests : z # r => s.pc[z] = sys.pc[z]
  BY <1>4, Placed
<1> HIDE DEF s
<1>7. SysOK(t, {}, G \ {r}, Held, Held, prov) /\ Moves(s, t) /\ Keeps(s, t)
  <2>1. SysOK(s, {}, G, Held, Held, prov) /\ s.pc[r] \notin GlobalPlaces
    BY <1>6 DEF GlobalPlaces, KeyPlaces
  <2>2. Held \cap WaitG(s) = {}
    <3>1. \A z \in Held : sys.pc[z] \in {"got", "left", "respond"} /\ z \in Requests
      BY DEF SlotsInv, HoldsOK, Held
    <3> QED
      BY <1>6, <3>1 DEF WaitG
  <2> QED
    BY <2>1, <2>2, <1>5, GlobalFreedOK
<1> HIDE DEF t
<1>8. CASE manual[r]
  BY <1>1, <1>3, <1>5, <1>6, <1>8 DEF StepOK, OthersMove
<1>9. CASE ~manual[r]
  <2>1. t.pc[r] = "respond" /\ OthersMove(r, sys, t)
    BY <1>6, <1>7 DEF OthersMove, Moves, Lines
  <2>2. Keeps(sys, t)
    BY <1>6, <1>7, KeepsTrans
  <2> QED
    BY <1>1, <1>3, <1>5, <1>7, <1>9, <2>1, <2>2 DEF StepOK
<1> QED
  BY <1>8, <1>9

\* releaseSlots() at the end of a cycle
LEMMA ReleaseStep ==
  ASSUME SlotsInv, NEW r \in Requests, sys.pc[r] = "respond"
  PROVE  LET s == SlotsReleased(sys, r)
             H == Held \ {r} IN
         /\ SysOK(s, {}, H, H, H, prov) /\ Moves(sys, s) /\ Keeps(sys, s)
         /\ s.pc[r] = "respond"
<1> DEFINE s1 == ProviderFreed(sys, prov[r])
           s2 == KeyFreed(s1, KeyOf[r])
           s3 == GlobalFreed(s2)
           H == Held \ {r}
<1>1. SysOK(sys, {}, Held, Held, Held, prov)
  BY InvSystem
<1>2. CASE ~held[r]
  <2>1. SlotsReleased(sys, r) = sys
    BY <1>2 DEF SlotsReleased
  <2>2. H = Held
    BY <1>2 DEF Held
  <2> HIDE DEF H
  <2> QED
    BY <1>1, <2>1, <2>2, MovesSelf DEF H
<1>3. CASE held[r]
  <2>1. SlotsReleased(sys, r) = s3
    BY <1>3 DEF SlotsReleased
  <2>2. r \in Held /\ prov[r] \in Providers /\ sys.pc[r] # "fetch"
    BY <1>3, InvSystem DEF Held
  <2>3. H \subseteq Held
    OBVIOUS
  <2>4. SysOK(s1, {}, Held, Held, H, prov) /\ Moves(sys, s1) /\ Keeps(sys, s1)
    BY <1>1, <2>2, ProviderFreedOK
  <2> HIDE DEF s1, H
  <2>5. s1.pc[r] = "respond"
    BY <2>4 DEF Moves, Lines
  <2>6. SysOK(s2, {}, Held, H, H, prov) /\ Moves(s1, s2) /\ Keeps(s1, s2)
    <3>1. s1.pc[r] \notin KeyPlaces
      BY <2>5 DEF KeyPlaces
    <3>2. SysOK(s1, {}, Held, Held, H, prov) /\ r \in Held
      BY <2>2, <2>4
    <3> QED
      BY <3>1, <3>2, KeyFreedOK DEF H
  <2> HIDE DEF s2
  <2>7. s2.pc[r] = "respond"
    BY <2>5, <2>6 DEF Moves, Lines
  <2>8. Moves(sys, s2)
    BY <2>4, <2>6, MovesTrans
  <2>9. SysOK(s3, {}, H, H, H, prov) /\ Moves(s2, s3) /\ Keeps(s2, s3)
    <3>1. s2.pc[r] \notin GlobalPlaces
      BY <2>7 DEF GlobalPlaces, KeyPlaces
    <3>2. H \cap WaitG(s2) = {}
      BY <2>3, <2>8, HeldKeepOut
    <3>3. SysOK(s2, {}, Held, H, H, prov) /\ r \in Held
      BY <2>2, <2>6
    <3> QED
      BY <3>1, <3>2, <3>3, GlobalFreedOK DEF H
  <2> HIDE DEF s3
  <2>10. s3.pc[r] = "respond"
    BY <2>7, <2>9 DEF Moves, Lines
  <2>11. Moves(sys, s3)
    BY <2>8, <2>9, MovesTrans
  <2>12. Keeps(sys, s3)
    BY <2>4, <2>6, <2>9, KeepsTrans
  <2> QED
    BY <2>1, <2>9, <2>10, <2>11, <2>12 DEF H
<1> QED
  BY <1>2, <1>3

LEMMA NextCycleStep ==
  ASSUME SlotsInv, NEW r \in Requests, NextCycle(r)
  PROVE  /\ StepOK(r, sys', Held', prov) /\ sys'.pc[r] \in {"loop", "in u line", "in g line"}
         /\ Held' = Held \ {r}
<1> DEFINE s == SlotsReleased(sys, r)
           H == Held \ {r}
           t == EnterGlobal(s, r)
<1>1. sys.pc[r] = "respond" /\ sys' = t /\ held' = [held EXCEPT ![r] = FALSE]
  BY DEF NextCycle
<1>2. Held' = H
  BY <1>1 DEF Held, SlotsInv, TypeOK
<1>3. /\ SysOK(s, {}, H, H, H, prov) /\ Moves(sys, s) /\ Keeps(sys, s)
      /\ s.pc[r] = "respond"
  BY <1>1, ReleaseStep
<1>4. r \notin H
  OBVIOUS
<1> HIDE DEF s, H
<1>5. /\ SysOK(t, {}, H, H, H, prov) /\ Keeps(s, t)
      /\ t.pc[r] \in {"loop", "in u line", "in g line"}
      /\ \A z \in Requests : z # r => t.pc[z] = s.pc[z]
  <2>1. SysOK(s, {}, H, H, H, prov) /\ s.pc[r] \in {"idle", "respond"}
    BY <1>3
  <2> QED
    BY <2>1, <1>4, EnterGlobalOK
<1> HIDE DEF t
<1>6. OthersMove(r, sys, t)
  BY <1>3, <1>5 DEF OthersMove, Moves
<1>7. Keeps(sys, t)
  BY <1>3, <1>5, KeepsTrans
<1> QED
  BY <1>1, <1>2, <1>5, <1>6, <1>7 DEF StepOK, H

LEMMA FinishStep ==
  ASSUME SlotsInv, NEW r \in Requests, Finish(r)
  PROVE  StepOK(r, sys', Held', prov) /\ sys'.pc[r] = "done" /\ Held' = Held \ {r}
<1> DEFINE s == SlotsReleased(sys, r)
           H == Held \ {r}
           t == At(s, r, "done")
<1>1. sys.pc[r] = "respond" /\ sys' = t /\ held' = [held EXCEPT ![r] = FALSE]
  BY DEF Finish
<1>2. Held' = H
  BY <1>1 DEF Held, SlotsInv, TypeOK
<1>3. /\ SysOK(s, {}, H, H, H, prov) /\ Moves(sys, s) /\ Keeps(sys, s)
      /\ s.pc[r] = "respond"
  BY <1>1, ReleaseStep
<1>4. r \notin H
  OBVIOUS
<1> HIDE DEF s, H
<1>5. SameSlots(s, r, H, H, H, prov, "done", H, H, H, prov)
  BY <1>3, <1>4 DEF SameSlots, Places, Lines, KeyPlaces, GlobalPlaces
<1>6. /\ SysOK(t, {}, H, H, H, prov) /\ Keeps(s, t) /\ t.pc[r] = "done"
      /\ \A z \in Requests : z # r => t.pc[z] = s.pc[z]
  BY <1>5, Placed
<1> HIDE DEF t
<1>7. OthersMove(r, sys, t)
  BY <1>3, <1>6 DEF OthersMove, Moves
<1>8. Keeps(sys, t)
  BY <1>3, <1>6, KeepsTrans
<1> QED
  BY <1>1, <1>2, <1>6, <1>7, <1>8 DEF StepOK, H

-----------------------------------------------------------------------------
(* The invariant is inductive.                                             *)

LEMMA SlotsInitInv == Init => SlotsInv /\ WithinLimits(sys) /\ LimitsSet
<1> SUFFICES ASSUME Init PROVE SlotsInv /\ WithinLimits(sys) /\ LimitsSet
  OBVIOUS
<1>1. /\ limit.g \in Limits
      /\ \A k \in Keys : limit.u[k] \in Limits
      /\ \A v \in Providers : limit.p[v] \in Limits
      /\ limit \in [g : Limits, u : [Keys -> Limits], p : [Providers -> Limits]]
  BY DEF Init
<1>2. prov \in [Requests -> Providers] /\ seen \in [Requests -> Limits]
  <2>1. (CHOOSE v \in Providers : TRUE) \in Providers
    BY ProvidersAssumption
  <2> DEFINE first == CHOOSE v \in Providers : TRUE
  <2>2. prov \in [Requests -> {first}] /\ first \in Providers
    BY <2>1 DEF Init
  <2> HIDE DEF first
  <2>3. prov \in [Requests -> Providers]
    BY <2>2
  <2>4. seen = [r \in Requests |-> limit.p[prov[r]]]
    BY DEF Init
  <2> QED
    BY <1>1, <2>3, <2>4
<1>3. ASSUME NEW n \in Limits
      PROVE  /\ NewQueue(n) \in Queues
             /\ Accounts(NewQueue(n), {}, {}) /\ Served(NewQueue(n))
             /\ NewQueue(n).limit = n /\ NewQueue(n).active <= n
  <2>1. n \in Int /\ n > 0
    BY LimitsAreNumbers
  <2>2. Accounts(NewQueue(n), {}, {}) /\ Served(NewQueue(n)) /\ NewQueue(n).limit = n
    BY <2>1, FreshAccounts
  <2>3. NewQueue(n) \in Queues
    BY DEF NewQueue, Queues
  <2>4. NewQueue(n).active <= n
    BY <2>1 DEF NewQueue
  <2> QED
    BY <2>2, <2>3, <2>4
<1>4. /\ sys.g = NewQueue(limit.g)
      /\ \A k \in Keys : sys.u[k] = NewQueue(limit.u[k])
      /\ \A v \in Providers : sys.p[v] = NewQueue(limit.p[v])
      /\ \A r \in Requests : sys.pc[r] = "idle"
  BY DEF Init
<1>5. sys \in SysType
  <2>1. /\ sys = [g |-> NewQueue(limit.g),
                  u |-> [k \in Keys |-> NewQueue(limit.u[k])],
                  p |-> [v \in Providers |-> NewQueue(limit.p[v])],
                  pc |-> [r \in Requests |-> "idle"]]
        /\ "idle" \in Places
    BY DEF Init, Places
  <2>2. [k \in Keys |-> NewQueue(limit.u[k])] \in [Keys -> Queues]
    BY <1>1, <1>3
  <2>3. [v \in Providers |-> NewQueue(limit.p[v])] \in [Providers -> Queues]
    BY <1>1, <1>3
  <2>4. NewQueue(limit.g) \in Queues
    BY <1>1, <1>3
  <2>5. [r \in Requests |-> "idle"] \in [Requests -> Places]
    BY <2>1
  <2> QED
    BY <2>1, <2>2, <2>3, <2>4, <2>5 DEF SysType
<1>6. TypeOK
  <2>1. 0 \in 0..MaxAttempts /\ 0 \in 0..MaxCycles /\ 0 \in 0..MaxChanges
    BY SlotBoundsAssumption
  <2> QED
    BY <1>1, <1>2, <1>5, <2>1 DEF Init, TypeOK, SysType, Answers
<1>7. Held = {}
  BY DEF Init, Held
<1>8. /\ WaitG(sys) \ {} = {} /\ InG(sys, {}) \cup {} = {}
      /\ \A k \in Keys : WaitU(sys, k) = {} /\ InU(sys, {}, k) = {}
      /\ \A v \in Providers : WaitP(sys, prov, v) = {} /\ InP(sys, {}, prov, v) = {}
  BY <1>4 DEF WaitG, InG, WaitU, InU, WaitP, InP, GlobalPlaces, KeyPlaces
<1>9. SysAccounts(sys, {}, {}, {}, {}, prov)
  <2>1. Accounts(sys.g, {}, {})
    BY <1>1, <1>3, <1>4
  <2>2. \A k \in Keys : Accounts(sys.u[k], {}, {})
    BY <1>1, <1>3, <1>4
  <2>3. \A v \in Providers : Accounts(sys.p[v], {}, {})
    BY <1>1, <1>3, <1>4
  <2> QED
    BY <1>5, <1>8, <2>1, <2>2, <2>3 DEF SysAccounts
<1>10. AllServed(sys)
  BY <1>1, <1>3, <1>4 DEF AllServed
<1>11. HoldsOK
  BY DEF Init, HoldsOK
<1>12. WithinLimits(sys)
  BY <1>1, <1>3, <1>4 DEF WithinLimits
<1>13. LimitsSet
  <2>1. \A r \in Requests : seen[r] = limit.p[prov[r]]
    BY DEF Init
  <2> QED
    BY <1>1, <1>3, <1>4, <2>1 DEF LimitsSet
<1> QED
  BY <1>6, <1>7, <1>9, <1>10, <1>11, <1>12, <1>13 DEF SlotsInv, SysOK

\* HoldsOK after a step of r: the others hold what they held.
LEMMA HoldsKept ==
  ASSUME HoldsOK, NEW r \in Requests, OthersMove(r, sys, sys'),
         \A z \in Requests : z # r =>
            held'[z] = held[z] /\ manual'[z] = manual[z] /\ answer'[z] = answer[z],
         held'[r] => /\ manual'[r] /\ sys'.pc[r] \in {"got", "left", "respond"}
                     /\ sys'.pc[r] = "got" => answer'[r] = "stream",
         manual'[r] => held'[r] \/ sys'.pc[r] = "done",
         answer'[r] # "empty json"
  PROVE  HoldsOK'
<1>1. ASSUME NEW z \in Requests, z # r, held[z] \/ sys.pc[z] = "done"
      PROVE  sys'.pc[z] = sys.pc[z]
  BY <1>1 DEF OthersMove, HoldsOK, Lines
<1>2. ASSUME NEW z \in Requests
      PROVE  /\ held'[z] => /\ manual'[z] /\ sys'.pc[z] \in {"got", "left", "respond"}
                            /\ sys'.pc[z] = "got" => answer'[z] = "stream"
             /\ manual'[z] => held'[z] \/ sys'.pc[z] = "done"
             /\ answer'[z] # "empty json"
  <2>1. CASE z = r
    BY <2>1
  <2>2. CASE z # r
    BY <1>1, <2>2 DEF HoldsOK
  <2> QED
    BY <2>1, <2>2
<1> QED
  BY <1>2 DEF HoldsOK

\* The types of everything but sys are kept by every step.
LEMMA TypesKept ==
  ASSUME TypeOK, Next, sys' \in SysType
  PROVE  TypeOK'
<1>1. /\ sys' \in [g : Queues, u : [Keys -> Queues], p : [Providers -> Queues],
                   pc : [Requests -> Places]]
      /\ {MaxAttempts, MaxCycles, MaxChanges} \subseteq Nat
  BY SlotBoundsAssumption DEF SysType
<1>2. ASSUME NEW r \in Requests, Submit(r) PROVE TypeOK'
  BY <1>1, <1>2 DEF Submit, TypeOK
<1>3. ASSUME NEW r \in Requests, NEW v \in Providers, Choose(r, v) PROVE TypeOK'
  <2>1. /\ seen' \in [Requests -> Limits] /\ prov' \in [Requests -> Providers]
        /\ answer' \in [Requests -> Answers] /\ attempts' \in [Requests -> 0..MaxAttempts]
    <3>1. seen' \in [Requests -> Limits] /\ prov' \in [Requests -> Providers]
      BY <1>3 DEF Choose, TypeOK
    <3>2. answer' \in [Requests -> Answers]
      BY <1>3 DEF Choose, TypeOK, Answers
    <3>3. attempts' \in [Requests -> 0..MaxAttempts]
      BY <1>1, <1>3 DEF Choose, TypeOK
    <3> QED
      BY <3>1, <3>2, <3>3
  <2> QED
    BY <1>1, <1>3, <2>1 DEF Choose, TypeOK
<1>4. ASSUME NEW r \in Requests, Ask(r) PROVE TypeOK'
  BY <1>1, <1>4 DEF Ask, TypeOK
<1>5. ASSUME NEW r \in Requests, SkipFullProvider(r) PROVE TypeOK'
  BY <1>1, <1>5 DEF SkipFullProvider, TypeOK
<1>6. ASSUME NEW r \in Requests, FetchPlain(r) PROVE TypeOK'
  BY <1>1, <1>6 DEF FetchPlain, TypeOK, Answers
<1>7. ASSUME NEW r \in Requests, FetchStream(r) PROVE TypeOK'
  BY <1>1, <1>7 DEF FetchStream, TypeOK, Answers
<1>8. ASSUME NEW r \in Requests, RetryInLoop(r) PROVE TypeOK'
  BY <1>1, <1>8 DEF RetryInLoop, TypeOK
<1>9. ASSUME NEW r \in Requests, LeaveKey(r) PROVE TypeOK'
  BY <1>1, <1>9 DEF LeaveKey, TypeOK
<1>10. ASSUME NEW r \in Requests, LeaveGlobal(r) PROVE TypeOK'
  BY <1>1, <1>10 DEF LeaveGlobal, TypeOK
<1>11. ASSUME NEW r \in Requests, NextCycle(r) PROVE TypeOK'
  BY <1>1, <1>11 DEF NextCycle, TypeOK
<1>12. ASSUME NEW r \in Requests, Finish(r) PROVE TypeOK'
  BY <1>1, <1>12 DEF Finish, TypeOK
<1>13. CASE ChangeLimit
  <2>1. limit' \in [g : Limits, u : [Keys -> Limits], p : [Providers -> Limits]]
    BY <1>13 DEF ChangeLimit, TypeOK
  <2>2. changes' \in 0..MaxChanges
    BY <1>1, <1>13 DEF ChangeLimit, TypeOK
  <2> QED
    BY <1>1, <1>13, <2>1, <2>2 DEF ChangeLimit, TypeOK
<1>14. CASE Rest
  BY <1>1, <1>14 DEF Rest, vars, TypeOK
<1> QED
  BY <1>2, <1>3, <1>4, <1>5, <1>6, <1>7, <1>8, <1>9, <1>10, <1>11, <1>12, <1>13, <1>14
     DEF Next, Proceed

LEMMA SlotsNextInv ==
  ASSUME EmptyJsonAnswers = FALSE, SlotsInv, [Next]_vars
  PROVE  /\ SlotsInv'
         /\ LimitsSet => Keeps(sys, sys')
<1>1. TypeOK /\ HoldsOK
  BY DEF SlotsInv
<1>2. ASSUME NEW r \in Requests, NEW H, NEW w, StepOK(r, sys', H, w), Held' = H, prov' = w,
             HoldsOK', Next
      PROVE  SlotsInv' /\ (LimitsSet => Keeps(sys, sys'))
  <2>1. sys' \in SysType
    BY <1>2 DEF StepOK, SysOK, SysAccounts
  <2>2. TypeOK'
    BY <1>1, <1>2, <2>1, TypesKept
  <2> QED
    BY <1>2, <2>2 DEF SlotsInv, StepOK
<1>3. ASSUME UNCHANGED <<sys, prov, answer, held, manual>>, TypeOK'
      PROVE  SlotsInv' /\ (LimitsSet => Keeps(sys, sys'))
  <2>1. SysOK(sys', {}, Held', Held', Held', prov')
    BY <1>3 DEF SlotsInv, Held
  <2>2. HoldsOK'
    BY <1>1, <1>3 DEF HoldsOK
  <2>3. Keeps(sys, sys')
    BY <1>3 DEF Keeps
  <2> QED
    BY <1>3, <2>1, <2>2, <2>3 DEF SlotsInv
<1>4. ASSUME NEW r \in Requests, Submit(r)
      PROVE  SlotsInv' /\ (LimitsSet => Keeps(sys, sys'))
  <2>1. StepOK(r, sys', Held, prov) /\ sys'.pc[r] \in {"loop", "in u line", "in g line"}
    BY <1>4, SubmitStep
  <2>2. Held' = Held /\ prov' = prov
    BY <1>4 DEF Submit, Held
  <2>3. ~held[r] /\ ~manual[r]
    BY <1>1, <1>4 DEF Submit, HoldsOK
  <2>4. HoldsOK'
    BY <1>1, <1>4, <2>1, <2>3, HoldsKept DEF Submit, StepOK, HoldsOK
  <2> QED
    BY <1>2, <1>4, <2>1, <2>2, <2>4 DEF Next
<1>5. ASSUME NEW r \in Requests, NEW v \in Providers, Choose(r, v)
      PROVE  SlotsInv' /\ (LimitsSet => Keeps(sys, sys'))
  <2>1. StepOK(r, sys', Held, prov') /\ sys'.pc[r] = "chosen"
    BY <1>5, ChooseStep
  <2>2. Held' = Held
    BY <1>5 DEF Choose, Held
  <2>3. ~held[r] /\ ~manual[r]
    BY <1>1, <1>5 DEF Choose, HoldsOK
  <2>4. HoldsOK'
    <3>1. held' = held /\ manual' = manual /\ answer' = [answer EXCEPT ![r] = "none"]
      BY <1>5 DEF Choose
    <3>2. /\ \A z \in Requests : z # r => answer'[z] = answer[z]
          /\ answer'[r] # "empty json"
      BY <1>1, <3>1 DEF TypeOK
    <3> QED
      BY <1>1, <2>1, <2>3, <3>1, <3>2, HoldsKept DEF StepOK
  <2>5. Next
    BY <1>5 DEF Next, Proceed
  <2> QED
    BY <1>2, <2>1, <2>2, <2>4, <2>5
<1>6. ASSUME NEW r \in Requests, Ask(r)
      PROVE  SlotsInv' /\ (LimitsSet => Keeps(sys, sys'))
  <2>1. StepOK(r, sys', Held, prov) /\ sys'.pc[r] \in {"fetch", "in p line"}
    BY <1>6, AskStep
  <2>2. Held' = Held /\ prov' = prov
    BY <1>6 DEF Ask, Held
  <2>3. ~held[r] /\ ~manual[r]
    BY <1>1, <1>6 DEF Ask, HoldsOK
  <2>4. HoldsOK'
    BY <1>1, <1>6, <2>1, <2>3, HoldsKept DEF Ask, StepOK, HoldsOK
  <2> QED
    BY <1>2, <1>6, <2>1, <2>2, <2>4 DEF Next, Proceed
<1>7. ASSUME NEW r \in Requests, SkipFullProvider(r)
      PROVE  SlotsInv' /\ (LimitsSet => Keeps(sys, sys'))
  <2>1. StepOK(r, sys', Held, prov) /\ sys'.pc[r] = "loop"
    BY <1>7, SkipStep
  <2>2. Held' = Held /\ prov' = prov
    BY <1>7 DEF SkipFullProvider, Held
  <2>3. ~held[r] /\ ~manual[r]
    BY <1>1, <1>7 DEF SkipFullProvider, HoldsOK
  <2>4. HoldsOK'
    BY <1>1, <1>7, <2>1, <2>3, HoldsKept DEF SkipFullProvider, StepOK, HoldsOK
  <2> QED
    BY <1>2, <1>7, <2>1, <2>2, <2>4 DEF Next, Proceed
<1>8. ASSUME NEW r \in Requests, FetchPlain(r)
      PROVE  SlotsInv' /\ (LimitsSet => Keeps(sys, sys'))
  <2>1. StepOK(r, sys', Held, prov) /\ sys'.pc[r] = "got" /\ ~held[r]
    BY <1>8, FetchPlainStep
  <2>2. Held' = Held /\ prov' = prov
    BY <1>8 DEF FetchPlain, Held
  <2>3. ~manual[r]
    BY <1>1, <1>8, <2>1 DEF FetchPlain, HoldsOK
  <2>4. HoldsOK'
    <3>1. held' = held /\ manual' = manual /\ answer' = [answer EXCEPT ![r] = "plain"]
      BY <1>8 DEF FetchPlain
    <3>2. /\ \A z \in Requests : z # r => answer'[z] = answer[z]
          /\ answer'[r] # "empty json"
      BY <1>1, <3>1 DEF TypeOK
    <3> QED
      BY <1>1, <2>1, <2>3, <3>1, <3>2, HoldsKept DEF StepOK
  <2> QED
    BY <1>2, <1>8, <2>1, <2>2, <2>4 DEF Next, Proceed
<1>9. ASSUME NEW r \in Requests, FetchStream(r)
      PROVE  SlotsInv' /\ (LimitsSet => Keeps(sys, sys'))
  <2>1. StepOK(r, sys', Held', prov) /\ sys'.pc[r] = "got" /\ Held' = Held \cup {r}
    BY <1>9, FetchStreamStep
  <2>2. prov' = prov
    BY <1>9 DEF FetchStream
  <2>3. /\ held' = [held EXCEPT ![r] = TRUE] /\ manual' = [manual EXCEPT ![r] = TRUE]
        /\ answer' = [answer EXCEPT ![r] = "stream"]
    BY <1>9 DEF FetchStream
  <2>4. /\ held'[r] /\ manual'[r] /\ answer'[r] = "stream"
        /\ \A z \in Requests : z # r =>
             held'[z] = held[z] /\ manual'[z] = manual[z] /\ answer'[z] = answer[z]
    BY <1>1, <2>3 DEF TypeOK
  <2>5. OthersMove(r, sys, sys')
    BY <2>1 DEF StepOK
  <2>6. HoldsOK'
    BY <1>1, <2>1, <2>4, <2>5, HoldsKept
  <2>7. Next
    BY <1>9 DEF Next, Proceed
  <2> QED
    BY <1>2, <2>1, <2>2, <2>6, <2>7
<1>10. ASSUME NEW r \in Requests, RetryInLoop(r)
       PROVE  SlotsInv' /\ (LimitsSet => Keeps(sys, sys'))
  <2>1. StepOK(r, sys', Held, prov) /\ sys'.pc[r] = "loop" /\ ~held[r]
    BY <1>10, RetryStep
  <2>2. held' = held
    <3>1. held' = [held EXCEPT ![r] = FALSE] /\ held \in [Requests -> BOOLEAN]
      BY <1>1, <1>10 DEF RetryInLoop, TypeOK
    <3>2. held[r] = FALSE
      BY <2>1, <3>1
    <3> QED
      BY <3>1, <3>2
  <2>3. Held' = Held /\ prov' = prov
    BY <1>10, <2>2 DEF RetryInLoop, Held
  <2>4. ~manual[r]
    BY <1>1, <1>10, <2>1 DEF RetryInLoop, HoldsOK
  <2>5. HoldsOK'
    BY <1>1, <1>10, <2>1, <2>2, <2>4, HoldsKept DEF RetryInLoop, StepOK, HoldsOK
  <2> QED
    BY <1>2, <1>10, <2>1, <2>3, <2>5 DEF Next, Proceed
<1>11. ASSUME NEW r \in Requests, LeaveKey(r)
       PROVE  SlotsInv' /\ (LimitsSet => Keeps(sys, sys'))
  <2>1. StepOK(r, sys', Held, prov) /\ sys'.pc[r] = "left"
    BY <1>11, LeaveKeyStep
  <2>2. Held' = Held /\ prov' = prov
    BY <1>11 DEF LeaveKey, Held
  <2>3. manual[r] => held[r]
    BY <1>1, <1>11 DEF LeaveKey, HoldsOK
  <2>4. HoldsOK'
    BY <1>1, <1>11, <2>1, <2>3, HoldsKept DEF LeaveKey, StepOK, HoldsOK
  <2> QED
    BY <1>2, <1>11, <2>1, <2>2, <2>4 DEF Next, Proceed
<1>12. ASSUME NEW r \in Requests, LeaveGlobal(r)
       PROVE  SlotsInv' /\ (LimitsSet => Keeps(sys, sys'))
  <2>1. StepOK(r, sys', Held, prov) /\ sys'.pc[r] = "respond"
    BY <1>12, LeaveGlobalStep
  <2>2. Held' = Held /\ prov' = prov
    BY <1>12 DEF LeaveGlobal, Held
  <2>3. manual[r] => held[r]
    BY <1>1, <1>12 DEF LeaveGlobal, HoldsOK
  <2>4. HoldsOK'
    BY <1>1, <1>12, <2>1, <2>3, HoldsKept DEF LeaveGlobal, StepOK, HoldsOK
  <2> QED
    BY <1>2, <1>12, <2>1, <2>2, <2>4 DEF Next, Proceed
<1>13. ASSUME NEW r \in Requests, NextCycle(r)
       PROVE  SlotsInv' /\ (LimitsSet => Keeps(sys, sys'))
  <2>1. /\ StepOK(r, sys', Held', prov) /\ sys'.pc[r] \in {"loop", "in u line", "in g line"}
        /\ Held' = Held \ {r}
    BY <1>13, NextCycleStep
  <2>2. prov' = prov /\ answer' = answer
    BY <1>13 DEF NextCycle
  <2>3. held' = [held EXCEPT ![r] = FALSE] /\ manual' = [manual EXCEPT ![r] = FALSE]
    BY <1>13 DEF NextCycle
  <2>4. /\ ~held'[r] /\ ~manual'[r]
        /\ \A z \in Requests : z # r => held'[z] = held[z] /\ manual'[z] = manual[z]
    BY <1>1, <2>3 DEF TypeOK
  <2>5. HoldsOK'
    BY <1>1, <2>1, <2>2, <2>4, HoldsKept DEF StepOK, HoldsOK
  <2>6. Next
    BY <1>13 DEF Next, Proceed
  <2> QED
    BY <1>2, <2>1, <2>2, <2>5, <2>6
<1>14. ASSUME NEW r \in Requests, Finish(r)
       PROVE  SlotsInv' /\ (LimitsSet => Keeps(sys, sys'))
  <2>1. StepOK(r, sys', Held', prov) /\ sys'.pc[r] = "done" /\ Held' = Held \ {r}
    BY <1>14, FinishStep
  <2>2. prov' = prov /\ answer' = answer /\ manual' = manual
    BY <1>14 DEF Finish
  <2>3. held' = [held EXCEPT ![r] = FALSE]
    BY <1>14 DEF Finish
  <2>4. /\ ~held'[r]
        /\ \A z \in Requests : z # r => held'[z] = held[z]
    BY <1>1, <2>3 DEF TypeOK
  <2>5. HoldsOK'
    BY <1>1, <2>1, <2>2, <2>4, HoldsKept DEF StepOK, HoldsOK
  <2>6. Next
    BY <1>14 DEF Next, Proceed
  <2> QED
    BY <1>2, <2>1, <2>2, <2>5, <2>6
<1>15. CASE ChangeLimit
  <2>1. sys' \in SysType /\ UNCHANGED <<sys, prov, answer, held, manual>>
    BY <1>1, <1>15 DEF ChangeLimit, TypeOK, SysType
  <2>2. TypeOK'
    BY <1>1, <1>15, <2>1, TypesKept DEF Next
  <2> QED
    BY <1>3, <2>1, <2>2
<1>16. CASE UNCHANGED vars
  <2>1. TypeOK'
    BY <1>1, <1>16 DEF vars, TypeOK
  <2> QED
    BY <1>3, <1>16, <2>1 DEF vars
<1> QED
  BY <1>4, <1>5, <1>6, <1>7, <1>8, <1>9, <1>10, <1>11, <1>12, <1>13, <1>14, <1>15, <1>16
     DEF Next, Proceed, Rest

-----------------------------------------------------------------------------
(* What follows for every behaviour.                                       *)

LEMMA InvAccounts ==
  ASSUME SlotsInv
  PROVE  /\ Accounts(sys.g, WaitG(sys), InG(sys, Held)) /\ Served(sys.g)
         /\ \A k \in Keys : /\ Accounts(sys.u[k], WaitU(sys, k), InU(sys, Held, k))
                            /\ Served(sys.u[k])
         /\ \A v \in Providers : /\ Accounts(sys.p[v], WaitP(sys, prov, v), InP(sys, Held, prov, v))
                                 /\ Served(sys.p[v])
<1>1. WaitG(sys) \ {} = WaitG(sys) /\ InG(sys, Held) \cup {} = InG(sys, Held)
  OBVIOUS
<1> QED
  BY <1>1 DEF SlotsInv, SysOK, SysAccounts, AllServed

\* The inductive invariant, when no stream is answered by an empty JSON body: executeGatewayRequest
\* (gatewayExecutor.ts) over the queues of concurrency.ts.  Counters and lines of all three kinds
\* of queues are in step with the requests' places, and only a stream holds slots.
THEOREM SlotsInvariant == EmptyJsonAnswers = FALSE => (Spec => []SlotsInv)
<1> SUFFICES ASSUME EmptyJsonAnswers = FALSE PROVE Spec => []SlotsInv
  OBVIOUS
<1>1. Init => SlotsInv
  BY SlotsInitInv
<1>2. SlotsInv /\ [Next]_vars => SlotsInv'
  BY SlotsNextInv
<1> QED
  BY <1>1, <1>2, PTL DEF Spec

\* No slot leaks or is given back twice, and none stays free beside a waiting request, for any
\* number of requests, keys, providers, attempts, cycles and changed limits: the nested tasks,
\* hold() and releaseSlots() of executeGatewayRequest.
THEOREM NoSlotIsLost == EmptyJsonAnswers = FALSE => (Spec => []NoSlotLost)
<1> SUFFICES ASSUME EmptyJsonAnswers = FALSE PROVE Spec => []NoSlotLost
  OBVIOUS
<1>1. SlotsInv => NoSlotLost
  <2> SUFFICES ASSUME SlotsInv PROVE NoSlotLost
    OBVIOUS
  <2>1. \A r \in Requests : manual[r] => held[r] \/ sys.pc[r] = "done"
    BY DEF SlotsInv, HoldsOK
  <2>2. \A r \in Requests : held[r] => manual[r]
    BY DEF SlotsInv, HoldsOK
  <2>3. InG(sys, Held) = {r \in Requests : (InGlobal(r) /\ ~manual[r]) \/ held[r]}
    BY <2>1, <2>2 DEF InG, Held, InGlobal, InKey, GlobalPlaces, KeyPlaces
  <2>4. ASSUME NEW k \in Keys
        PROVE  InU(sys, Held, k)
                 = {r \in Requests : KeyOf[r] = k /\ ((InKey(r) /\ ~manual[r]) \/ held[r])}
    BY <2>1, <2>2 DEF InU, Held, InKey, KeyPlaces
  <2>5. ASSUME NEW v \in Providers
        PROVE  InP(sys, Held, prov, v) = {r \in Requests : prov[r] = v /\ r \in Open}
    BY DEF InP, Held, Open
  <2>6. /\ sys.g.active = Cardinality(InG(sys, Held))
        /\ \A k \in Keys : sys.u[k].active = Cardinality(InU(sys, Held, k))
        /\ \A v \in Providers : sys.p[v].active = Cardinality(InP(sys, Held, prov, v))
    BY InvAccounts DEF Accounts
  <2>7. SlotsAccounted
    BY <2>3, <2>4, <2>5, <2>6 DEF SlotsAccounted
  <2>8. NoIdleSlots
    BY InvAccounts DEF NoIdleSlots, Served
  <2> QED
    BY <2>7, <2>8 DEF NoSlotLost
<1> QED
  BY <1>1, SlotsInvariant, PTL

UnchangedLimits == changes = 0 /\ WithinLimits(sys) /\ LimitsSet

LEMMA LimitsNext ==
  ASSUME EmptyJsonAnswers = FALSE, MaxChanges = 0, SlotsInv, UnchangedLimits, [Next]_vars
  PROVE  UnchangedLimits'
<1>1. Keeps(sys, sys') /\ WithinLimits(sys')
  BY SlotsNextInv DEF UnchangedLimits, Keeps
<1>2. changes' = 0 /\ limit' = limit
  <2>1. changes = 0
    BY DEF UnchangedLimits
  <2>2. ~ChangeLimit
    <3>1. ~(changes < MaxChanges)
      BY <2>1
    <3> QED
      BY <3>1 DEF ChangeLimit
  <2>3. changes' = changes /\ limit' = limit
    BY <2>2 DEF Next, Proceed, Submit, Choose, Ask, SkipFullProvider, FetchPlain,
       FetchStream, RetryInLoop, LeaveKey, LeaveGlobal, NextCycle, Finish, Rest, vars
  <2> QED
    BY <2>1, <2>3
<1>3. \A r \in Requests : seen'[r] = limit'.p[prov'[r]]
  <2>1. CASE \E r \in Requests, v \in Providers : Choose(r, v)
    <3>1. PICK r \in Requests, v \in Providers : Choose(r, v)
      BY <2>1
    <3>2. /\ prov \in [Requests -> Providers] /\ seen \in [Requests -> Limits]
          /\ prov' = [prov EXCEPT ![r] = v] /\ seen' = [seen EXCEPT ![r] = limit.p[v]]
      BY <3>1 DEF Choose, SlotsInv, TypeOK
    <3>3. \A z \in Requests : IF z = r THEN prov'[z] = v /\ seen'[z] = limit.p[v]
                                       ELSE prov'[z] = prov[z] /\ seen'[z] = seen[z]
      BY <3>2
    <3> QED
      BY <1>2, <3>3 DEF UnchangedLimits, LimitsSet
  <2>2. CASE ~\E r \in Requests, v \in Providers : Choose(r, v)
    <3>1. prov' = prov /\ seen' = seen
      BY <2>2 DEF Next, Proceed, Submit, Ask, SkipFullProvider, FetchPlain,
           FetchStream, RetryInLoop, LeaveKey, LeaveGlobal, NextCycle, Finish, ChangeLimit, Rest, vars
    <3> QED
      BY <1>2, <3>1 DEF UnchangedLimits, LimitsSet
  <2> QED
    BY <2>1, <2>2
<1>4. LimitsSet'
  BY <1>1, <1>2, <1>3 DEF UnchangedLimits, LimitsSet, Keeps
<1> QED
  BY <1>1, <1>2, <1>4 DEF UnchangedLimits

\* While nobody changes a limit, the calls and streams open at upstreams keep all three limits,
\* for any number of requests, keys and providers: the order of the nested queues, hold() and
\* the full-provider fallback of executeGatewayRequest.
THEOREM LimitsAreEnforced ==
  EmptyJsonAnswers = FALSE /\ MaxChanges = 0 => (Spec => []LimitsEnforced)
<1> SUFFICES ASSUME EmptyJsonAnswers = FALSE, MaxChanges = 0 PROVE Spec => []LimitsEnforced
  OBVIOUS
<1>1. Init => SlotsInv /\ UnchangedLimits
  <2> SUFFICES ASSUME Init PROVE SlotsInv /\ UnchangedLimits
    OBVIOUS
  <2>1. changes = 0
    BY DEF Init
  <2> QED
    BY <2>1, SlotsInitInv DEF UnchangedLimits
<1>2. SlotsInv /\ UnchangedLimits /\ [Next]_vars => (SlotsInv /\ UnchangedLimits)'
  BY SlotsNextInv, LimitsNext
<1>3. SlotsInv /\ UnchangedLimits => LimitsEnforced
  <2> SUFFICES ASSUME SlotsInv, UnchangedLimits PROVE LimitsEnforced
    OBVIOUS
  <2>1. ASSUME NEW q, NEW W, NEW O, Accounts(q, W, O), q.active <= q.limit, q.limit \in Limits,
               NEW S, S \subseteq O
        PROVE  Cardinality(S) <= q.limit
    <3>1. IsFiniteSet(O) /\ q.active = Cardinality(O)
      BY <2>1 DEF Accounts
    <3>2. IsFiniteSet(S) /\ Cardinality(S) <= Cardinality(O)
      BY <2>1, <3>1, FS_Subset
    <3>3. Cardinality(S) \in Nat /\ Cardinality(O) \in Nat /\ q.limit \in Int
      BY <2>1, <3>1, <3>2, FS_CardinalityType, LimitsAreNumbers
    <3> QED
      BY <2>1, <3>1, <3>2, <3>3
  <2>2. /\ sys.g.limit \in Limits /\ sys.g.active <= sys.g.limit
        /\ \A k \in Keys : sys.u[k].limit \in Limits /\ sys.u[k].active <= sys.u[k].limit
        /\ \A v \in Providers : sys.p[v].limit \in Limits /\ sys.p[v].active <= sys.p[v].limit
    BY InvSystem DEF UnchangedLimits, LimitsSet, WithinLimits
  <2>3. Open \subseteq InG(sys, Held)
    BY DEF Open, InG, Held, GlobalPlaces, KeyPlaces
  <2>4. \A k \in Keys : {r \in Open : KeyOf[r] = k} \subseteq InU(sys, Held, k)
    BY DEF Open, InU, Held, KeyPlaces
  <2>5. \A v \in Providers : {r \in Open : prov[r] = v} \subseteq InP(sys, Held, prov, v)
    BY DEF Open, InP, Held
  <2>6. Cardinality(Open) <= sys.g.limit
    BY <2>1, <2>2, <2>3, InvAccounts
  <2>7. ASSUME NEW k \in Keys PROVE Cardinality({r \in Open : KeyOf[r] = k}) <= sys.u[k].limit
    <3>1. Accounts(sys.u[k], WaitU(sys, k), InU(sys, Held, k))
      BY InvAccounts
    <3>2. {r \in Open : KeyOf[r] = k} \subseteq InU(sys, Held, k)
      BY <2>4
    <3>3. sys.u[k].limit \in Limits /\ sys.u[k].active <= sys.u[k].limit
      BY <2>2
    <3> QED
      BY <2>1, <3>1, <3>2, <3>3
  <2>8. ASSUME NEW v \in Providers PROVE Cardinality({r \in Open : prov[r] = v}) <= sys.p[v].limit
    <3>1. Accounts(sys.p[v], WaitP(sys, prov, v), InP(sys, Held, prov, v))
      BY InvAccounts
    <3>2. {r \in Open : prov[r] = v} \subseteq InP(sys, Held, prov, v)
      BY <2>5
    <3>3. sys.p[v].limit \in Limits /\ sys.p[v].active <= sys.p[v].limit
      BY <2>2
    <3> QED
      BY <2>1, <3>1, <3>2, <3>3
  <2> QED
    BY <2>6, <2>7, <2>8 DEF LimitsEnforced
<1> QED
  BY <1>1, <1>2, <1>3, PTL DEF Spec

=============================================================================
