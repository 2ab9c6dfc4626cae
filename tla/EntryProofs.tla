---------------------------- MODULE EntryProofs ----------------------------
(***************************************************************************)
(* Proofs about GatewayEntry and ModelChoice, for every instance.              *)
(*                                                                         *)
(* GatewayEntry.  EntryInv is inductive.  Beside the types it says that a block *)
(* list that was compiled is the one of its text (CacheRight), and of each       *)
(* request what the statements it has behind it have established (RequestOK).    *)
(* RequestOK speaks of the request's record only: what was ever seen grows and    *)
(* what always held shrinks, so that the statements of others keep it           *)
(* (Outlives), and each step of a request adds what it read.                    *)
(*                                                                         *)
(* ModelChoice.  ChoiceInv is inductive.  A request keeps beside the table it     *)
(* works with the one it read (source); TablePart says what the user's choice      *)
(* has made of the one and of the pair the request began with, StartPart which     *)
(* layer and which schedule that was.  The row of a user and the calls about to    *)
(* write it hold one kind of choice (OneKind).  Of the operators, the lemmas say    *)
(* that two days are enough to find a schedule, that the layer drawn has a weight,  *)
(* and what the model a client names leads to.                                *)
(***************************************************************************)
EXTENDS GatewayEntry, ModelChoice, AsyncQueueOpsProofs

-----------------------------------------------------------------------------
(* GatewayEntry.                                                             *)

\* A block list compiled before is the one of the text.
CacheRight == \A text \in Rules : compiled[text].there =>
                  compiled[text].addresses = BlockList(text)

\* Where the parts of the judgement are behind a request
AfterKey == EntrySteps \ {"idle", "key", "answered"}
AfterAddress == AfterKey \ {"route", "user"}
AfterGrant == {"limit", "groupLimits", "admission", "served"}

KeyPart(q) ==
    /\ q.at \notin {"idle", "answered"} => q.user \in Users
    /\ q.at = "key" => q.key \in Keys
    /\ q.at \in AfterKey => q.key = SystemKey \/ <<"key", q.key>> \in q.ever

AddressPart(q) ==
    /\ q.at = "user" /\ Admits(q.rule, q.ip) => <<"address", q.ip>> \in q.ever
    /\ q.at = "user" /\ ~Admits(q.rule, q.ip) => <<"address", q.ip>> \notin q.always
    /\ q.at \in AfterAddress => <<"address", q.ip>> \in q.ever

GrantPart(q) ==
    /\ q.at \in {"groups", "direct", "group"} =>
          q.key # SystemKey /\ <<"role", "admin">> \notin q.always
    /\ q.at \in {"direct", "group"} =>
          /\ \A g \in q.member : <<"member", g>> \in q.ever
          /\ \A g \in Groups \ q.member : <<"through", g>> \notin q.always
    /\ q.at = "group" => <<"granted", q.user>> \notin q.always
    /\ q.at \in AfterGrant => Entitled(q)

LimitPart(q) ==
    /\ q.at \in EntrySteps \ {"admission", "served", "answered"} => q.limit = 0
    /\ q.at = "groupLimits" =>
          /\ <<"override", NoLimit>> \in q.ever
          /\ \A n \in 0..MaxTokens : <<"override", n>> \notin q.always
    /\ q.at \in {"admission", "served"} =>
          /\ \/ <<"override", q.limit>> \in q.ever
             \/ <<"role", "none">> \in q.ever /\ q.limit = 0
             \/ /\ <<"override", NoLimit>> \in q.ever
                /\ \E set \in SUBSET (0..MaxTokens) :
                      <<"limits", set>> \in q.ever /\ IsStrictest(q.limit, set)
          /\ \A n \in 0..MaxTokens : <<"override", n>> \in q.always => q.limit = n

RefusalPart(q) ==
    /\ q.at = "answered" /\ q.why = "badKey" => q.key = NoKey \/ <<"key", q.key>> \notin q.always
    /\ q.at = "answered" /\ q.why = "forbidden" =>
          \/ <<"address", q.ip>> \notin q.always
          \/ /\ q.key # SystemKey
             /\ <<"role", "admin">> \notin q.always
             /\ <<"granted", q.user>> \notin q.always
             /\ \A g \in Groups : <<"through", g>> \notin q.always

RequestOK(q) == KeyPart(q) /\ AddressPart(q) /\ GrantPart(q) /\ LimitPart(q) /\ RefusalPart(q)

EntryInv == EntryTypeOK /\ CacheRight /\ \A r \in Requests : RequestOK(requests[r])

\* The facts of a request that hold are facts.
LEMMA NowTypes == ASSUME EntryTypeOK, NEW q \in RequestRecords PROVE Now(q) \subseteq Facts
<1>1. \A k \in Keys : <<"key", k>> \in Facts
  BY DEF Facts
<1>2. <<"address", q.ip>> \in Facts
  BY DEF Facts, RequestRecords
<1>3. \A u \in Users : <<"role", rows[u].role>> \in Facts /\ <<"override", rows[u].limit>> \in Facts
  BY DEF Facts, EntryTypeOK, UserRows
<1>4. \A x \in granted : <<"granted", x>> \in Facts
  BY DEF Facts, EntryTypeOK
<1>5. \A g \in Groups : <<"member", g>> \in Facts /\ <<"through", g>> \in Facts
  BY DEF Facts
<1>6. {limits[g] : g \in GroupsOf(q.user)} \in SUBSET (0..MaxTokens)
  BY DEF EntryTypeOK, GroupsOf
<1>7. <<"limits", {limits[g] : g \in GroupsOf(q.user)}>> \in Facts
  BY <1>6 DEF Facts
<1> QED
  BY <1>1, <1>2, <1>3, <1>4, <1>5, <1>7 DEF Now, GroupsOf

\* What a request has seen only grows and what held all along only shrinks, which keeps what
\* its statements established.
LEMMA Outlives ==
  ASSUME NEW q \in RequestRecords, NEW N, RequestOK(q),
         NEW p, p = [q EXCEPT !.ever = @ \cup N, !.always = @ \cap N]
  PROVE  RequestOK(p)
<1>1. /\ p.at = q.at /\ p.key = q.key /\ p.user = q.user /\ p.ip = q.ip /\ p.rule = q.rule
      /\ p.member = q.member /\ p.limit = q.limit /\ p.why = q.why
      /\ p.ever = q.ever \cup N /\ p.always = q.always \cap N
  BY DEF RequestRecords
<1>2. KeyPart(p)
  BY <1>1 DEF RequestOK, KeyPart
<1>3. AddressPart(p)
  BY <1>1 DEF RequestOK, AddressPart
<1>4. Entitled(q) => Entitled(p)
  BY <1>1 DEF Entitled
<1>5. GrantPart(p)
  BY <1>1, <1>4 DEF RequestOK, GrantPart
<1>6. LimitPart(p)
  BY <1>1 DEF RequestOK, LimitPart
<1>7. RefusalPart(p)
  BY <1>1 DEF RequestOK, RefusalPart
<1> QED
  BY <1>2, <1>3, <1>5, <1>6, <1>7 DEF RequestOK

\* A step of one request: the others live on.
LEMMA StepOf ==
  ASSUME EntryInv, NEW r \in Requests, NEW q \in RequestRecords,
         requests' = Lived([requests EXCEPT ![r] = q]),
         NEW p, p = IF Judging(requests[r])
                    THEN [q EXCEPT !.ever = @ \cup Now(requests[r]),
                                   !.always = @ \cap Now(requests[r])]
                    ELSE q,
         RequestOK(p)
  PROVE  /\ requests' \in [Requests -> RequestRecords]
         /\ \A s \in Requests : RequestOK(requests'[s])
<1> DEFINE new == [requests EXCEPT ![r] = q]
           next(s) == IF Judging(requests[s])
                      THEN [new[s] EXCEPT !.ever = @ \cup Now(requests[s]),
                                          !.always = @ \cap Now(requests[s])]
                      ELSE new[s]
<1>1. requests' = [s \in Requests |-> next(s)]
  BY DEF Lived
<1>2. requests \in [Requests -> RequestRecords]
  BY DEF EntryInv, EntryTypeOK
<1>3. new \in [Requests -> RequestRecords]
  BY <1>2
<1>4. \A s \in Requests : Now(requests[s]) \subseteq Facts
  BY <1>2, NowTypes DEF EntryInv
<1>5. \A s \in Requests : next(s) \in RequestRecords
  <2> TAKE s \in Requests
  <2>1. new[s] \in RequestRecords /\ Now(requests[s]) \subseteq Facts
    BY <1>3, <1>4
  <2> HIDE DEF new
  <2> QED
    BY <2>1 DEF RequestRecords
<1>6. next(r) = p
  BY <1>2
<1>7. ASSUME NEW s \in Requests, s # r PROVE RequestOK(next(s))
  <2>1. new[s] = requests[s] /\ RequestOK(requests[s]) /\ requests[s] \in RequestRecords
    BY <1>2, <1>7 DEF EntryInv
  <2>2. CASE Judging(requests[s])
    <3>1. next(s) = [requests[s] EXCEPT !.ever = @ \cup Now(requests[s]),
                                        !.always = @ \cap Now(requests[s])]
      BY <2>1, <2>2
    <3> HIDE DEF next
    <3> QED
      BY <2>1, <3>1, Outlives
  <2>3. CASE ~Judging(requests[s])
    BY <2>1, <2>3
  <2> QED
    BY <2>2, <2>3
<1>8. \A s \in Requests : RequestOK(next(s))
  BY <1>6, <1>7
<1> QED
  BY <1>1, <1>5, <1>8

\* A statement of someone else.
LEMMA LivesOn ==
  ASSUME EntryInv, requests' = Lived(requests)
  PROVE  /\ requests' \in [Requests -> RequestRecords]
         /\ \A s \in Requests : RequestOK(requests'[s])
<1> DEFINE next(s) == IF Judging(requests[s])
                      THEN [requests[s] EXCEPT !.ever = @ \cup Now(requests[s]),
                                               !.always = @ \cap Now(requests[s])]
                      ELSE requests[s]
<1>1. requests' = [s \in Requests |-> next(s)]
  BY DEF Lived
<1>2. requests \in [Requests -> RequestRecords]
  BY DEF EntryInv, EntryTypeOK
<1>3. \A s \in Requests : Now(requests[s]) \subseteq Facts
  BY <1>2, NowTypes DEF EntryInv
<1>4. \A s \in Requests : next(s) \in RequestRecords
  BY <1>2, <1>3 DEF RequestRecords
<1>5. ASSUME NEW s \in Requests PROVE RequestOK(next(s))
  <2>1. RequestOK(requests[s]) /\ requests[s] \in RequestRecords
    BY <1>2 DEF EntryInv
  <2>2. CASE Judging(requests[s])
    <3>1. next(s) = [requests[s] EXCEPT !.ever = @ \cup Now(requests[s]),
                                        !.always = @ \cap Now(requests[s])]
      BY <2>2
    <3> HIDE DEF next
    <3> QED
      BY <2>1, <3>1, Outlives
  <2>3. CASE ~Judging(requests[s])
    BY <2>1, <2>3
  <2> QED
    BY <2>2, <2>3
<1> QED
  BY <1>1, <1>4, <1>5

\* isClientIpAllowed admits the addresses the text does: the list it compiled before for the
\* text is the text's, and the order in which it tries the tokens does not matter.
LEMMA AllowedIsAdmitted ==
  ASSUME EntryTypeOK, CacheRight, NEW text \in Rules, NEW ip \in Addresses
  PROVE  IsClientIpAllowed(ip, text) <=> Admits(text, ip)
<1>1. CompileIpAcl(text) = BlockList(text)
  BY DEF CompileIpAcl, CacheKey, CacheRight
<1>2. ip \in BlockList(text) <=> \E t \in text \ Open : ip \in Covers[t]
  BY DEF BlockList
<1>3. text \subseteq Open \cup Tokens /\ Tokens \cap Open = {}
  BY AddressAssumption
<1>4. IsUnrestrictedIpAcl(text) <=> \A t \in text : t \in Open
  BY DEF IsUnrestrictedIpAcl
<1>5. (Opened(ip, text) \/ ip \in BlockList(text)) <=>
      \E t \in text : \/ t = "any" \/ (t = "any4" /\ ip \in V4) \/ (t = "any6" /\ ip \in V6)
                      \/ t \in Tokens /\ ip \in Covers[t]
  BY <1>2, <1>3 DEF Opened, Open
<1> QED
  BY <1>1, <1>4, <1>5 DEF IsClientIpAllowed, Admits

\* The strictest limit of a user's groups.
LEMMA StrictestIs ==
  ASSUME EntryTypeOK, NEW u
  PROVE  /\ StrictestOf(u) \in 0..MaxTokens
         /\ {limits[g] : g \in GroupsOf(u)} \in SUBSET (0..MaxTokens)
         /\ IsStrictest(StrictestOf(u), {limits[g] : g \in GroupsOf(u)})
<1> DEFINE all == {limits[g] : g \in GroupsOf(u)}
           positive == all \ {0}
<1>1. all \subseteq 0..MaxTokens /\ positive \subseteq Nat
  <2>1. \A g \in GroupsOf(u) : limits[g] \in 0..MaxTokens
    BY DEF EntryTypeOK, GroupsOf
  <2> QED
    BY <2>1
<1>2. CASE positive = {}
  BY <1>1, <1>2, LimitAssumption DEF StrictestOf, IsStrictest
<1>3. CASE positive # {}
  <2>1. \E n \in positive : \A m \in positive : n <= m
    BY <1>1, <1>3, LeastNumber
  <2>2. StrictestOf(u) = CHOOSE n \in positive : \A m \in positive : n <= m
    BY <1>3 DEF StrictestOf
  <2>3. StrictestOf(u) \in positive /\ \A m \in positive : StrictestOf(u) <= m
    BY <2>1, <2>2
  <2> QED
    BY <1>1, <2>3 DEF IsStrictest
<1> QED
  BY <1>2, <1>3

\* What the steps of a request leave alone.
LEMMA TablesStay ==
  ASSUME EntryInv, UNCHANGED <<tableVars, compiled>>,
         requests' \in [Requests -> RequestRecords],
         \A s \in Requests : RequestOK(requests'[s])
  PROVE  EntryInv'
BY DEF EntryInv, EntryTypeOK, CacheRight, tableVars

\* The user of a request in progress is one.
LEMMA UserKnown ==
  ASSUME EntryInv, NEW r \in Requests
  PROVE  /\ requests[r] \in RequestRecords /\ RequestOK(requests[r])
         /\ requests[r].at \notin {"idle", "answered"} =>
               requests[r].user \in Users /\ rows[requests[r].user] \in UserRows
BY DEF EntryInv, EntryTypeOK, RequestOK, KeyPart

LEMMA IdleTypes == Idle \in RequestRecords
BY AddressAssumption, LimitAssumption DEF Idle, RequestRecords, EntrySteps, Reasons, Addresses

LEMMA ArriveKeeps == ASSUME EntryInv, NEW r \in Requests, Arrive(r) PROVE EntryInv'
<1>1. PICK k \in Keys \cup {SystemKey, NoKey}, u \in Users \cup {NoUser}, a \in Addresses :
         /\ k \in Keys => u = OwnerOf[k]
         /\ \/ Begins(r, Presented(k, u, a), "answered", "counted")
            \/ k = NoKey /\ Begins(r, Presented(k, u, a), "answered", "badKey")
            \/ Begins(r, Presented(k, u, a), "answered", "noUser")
            \/ k = SystemKey /\ u # NoUser /\ Begins(r, Presented(k, u, a), "route", "none")
            \/ k \in Keys /\ Begins(r, Presented(k, u, a), "key", "none")
  BY Zenon DEF Arrive
<1> DEFINE o == Presented(k, u, a)
<1>2. PICK at \in EntrySteps, why \in Reasons :
         /\ Begins(r, o, at, why)
         /\ \/ at = "answered" /\ why = "counted"
            \/ at = "answered" /\ why = "badKey" /\ k = NoKey
            \/ at = "answered" /\ why = "noUser"
            \/ at = "route" /\ why = "none" /\ k = SystemKey /\ u # NoUser
            \/ at = "key" /\ why = "none" /\ k \in Keys
  <2>1. {"answered", "route", "key"} \subseteq EntrySteps
        /\ {"counted", "badKey", "noUser", "none"} \subseteq Reasons
    BY DEF EntrySteps, Reasons
  <2> QED
    BY <1>1, <2>1
<1> DEFINE p == [o EXCEPT !.at = at, !.why = why, !.ever = Now(o), !.always = Now(o)]
<1>3. o \in RequestRecords
  <2>1. Idle \in RequestRecords
    BY IdleTypes
  <2> QED
    BY <1>1, <2>1 DEF Presented, RequestRecords
<1>4. Now(o) \subseteq Facts
  <2> HIDE DEF o
  <2> QED
    BY <1>3, NowTypes DEF EntryInv
<1>5. p \in RequestRecords
  <2> HIDE DEF o
  <2> QED
    BY <1>2, <1>3, <1>4 DEF RequestRecords
<1>6. /\ p.at = at /\ p.why = why /\ p.key = k /\ p.user = u /\ p.ip = a /\ p.limit = 0
  BY DEF Presented, Idle
<1>9. requests' = Lived([requests EXCEPT ![r] = p])
  BY <1>2 DEF Begins
<1> HIDE DEF p
<1>7. RequestOK(p)
  <2>1. KeyPart(p)
    BY <1>1, <1>2, <1>6, KeyAssumption DEF KeyPart, AfterKey, EntrySteps
  <2>2. AddressPart(p)
    BY <1>2, <1>6 DEF AddressPart, AfterAddress, AfterKey
  <2>3. GrantPart(p)
    BY <1>2, <1>6 DEF GrantPart, AfterGrant
  <2>4. LimitPart(p)
    BY <1>2, <1>6 DEF LimitPart
  <2>5. RefusalPart(p)
    BY <1>2, <1>6 DEF RefusalPart
  <2> QED
    BY <2>1, <2>2, <2>3, <2>4, <2>5 DEF RequestOK
<1>8. ~Judging(requests[r])
  BY DEF Arrive, Judging
<1>10. /\ requests' \in [Requests -> RequestRecords]
       /\ \A s \in Requests : RequestOK(requests'[s])
  BY <1>5, <1>7, <1>8, <1>9, StepOf
<1> QED
  BY <1>10, TablesStay DEF Arrive

\* A request leaves.
LEMMA LeaveKeeps == ASSUME EntryInv, NEW r \in Requests, Leave(r) PROVE EntryInv'
<1>1. Idle \in RequestRecords
  BY IdleTypes
<1>2. RequestOK(Idle)
  BY DEF RequestOK, KeyPart, AddressPart, GrantPart, LimitPart, RefusalPart, Idle, AfterKey,
         AfterAddress, AfterGrant
<1>3. ~Judging(requests[r]) /\ requests' = Lived([requests EXCEPT ![r] = Idle])
  BY DEF Leave, Judging
<1>4. /\ requests' \in [Requests -> RequestRecords]
      /\ \A s \in Requests : RequestOK(requests'[s])
  BY <1>1, <1>2, <1>3, StepOf
<1> QED
  BY <1>4, TablesStay DEF Leave

\* Which facts hold now.
LEMMA HoldsNow ==
  ASSUME NEW q \in RequestRecords
  PROVE  /\ q.key \in Keys => (<<"key", q.key>> \in Now(q) <=> KeyValid(q.key))
         /\ <<"address", q.ip>> \in Now(q) <=> Admits(rule, q.ip)
         /\ q.user \in Users =>
               /\ \A x : <<"role", x>> \in Now(q) <=> x = rows[q.user].role
               /\ \A x : <<"override", x>> \in Now(q) <=>
                            rows[q.user].role # "none" /\ x = rows[q.user].limit
         /\ \A x : <<"granted", x>> \in Now(q) <=> x \in granted
         /\ \A x : <<"member", x>> \in Now(q) <=> x \in GroupsOf(q.user)
         /\ \A x : <<"through", x>> \in Now(q) <=> x \in GroupsOf(q.user) /\ x \in granted
         /\ <<"limits", {limits[g] : g \in GroupsOf(q.user)}>> \in Now(q)
BY DEF Now

\* A step of a request that is being judged.
LEMMA JudgedStep ==
  ASSUME EntryInv, NEW r \in Requests, Judging(requests[r]),
         NEW q \in RequestRecords,
         requests' = Lived([requests EXCEPT ![r] = q]),
         NEW p, p = [q EXCEPT !.ever = @ \cup Now(requests[r]),
                              !.always = @ \cap Now(requests[r])],
         RequestOK(p), UNCHANGED <<tableVars, compiled>>
  PROVE  EntryInv'
<1>1. /\ requests' \in [Requests -> RequestRecords]
      /\ \A s \in Requests : RequestOK(requests'[s])
  BY StepOf
<1> QED
  BY <1>1, TablesStay

LEMMA KeyKeeps == ASSUME EntryInv, NEW r \in Requests, ExtractAndValidateApiKey(r) PROVE EntryInv'
<1> DEFINE o == requests[r]
           ok == KeyValid(o.key)
           q == IF ok THEN [o EXCEPT !.at = "route"]
                ELSE [o EXCEPT !.at = "answered", !.why = "badKey"]
           p == [q EXCEPT !.ever = @ \cup Now(o), !.always = @ \cap Now(o)]
<1>1. o.at = "key" /\ o \in RequestRecords /\ RequestOK(o) /\ Judging(o)
  BY UserKnown DEF ExtractAndValidateApiKey, Judging
<1>2. q \in RequestRecords
  BY <1>1 DEF RequestRecords, EntrySteps, Reasons
<1>3. requests \in [Requests -> RequestRecords]
  BY DEF EntryInv, EntryTypeOK
<1>4. requests' = Lived([requests EXCEPT ![r] = q])
  BY <1>3 DEF ExtractAndValidateApiKey, Goes, Answer
<1>5. /\ p.at = (IF ok THEN "route" ELSE "answered") /\ (~ok => p.why = "badKey")
      /\ p.key = o.key /\ p.user = o.user /\ p.limit = o.limit
      /\ p.ever = o.ever \cup Now(o) /\ p.always = o.always \cap Now(o)
  BY <1>1 DEF RequestRecords
<1> HIDE DEF q, p
<1>6. KeyPart(p)
  BY <1>1, <1>5, HoldsNow DEF RequestOK, KeyPart, AfterKey
<1>7. AddressPart(p) /\ GrantPart(p) /\ LimitPart(p)
  BY <1>1, <1>5 DEF RequestOK, AddressPart, GrantPart, LimitPart, AfterAddress, AfterKey,
                    AfterGrant, EntrySteps
<1>8. RefusalPart(p)
  BY <1>1, <1>5, HoldsNow DEF RequestOK, KeyPart, RefusalPart
<1>9. RequestOK(p)
  BY <1>6, <1>7, <1>8 DEF RequestOK
<1> QED
  BY <1>1, <1>2, <1>4, <1>9, JudgedStep DEF ExtractAndValidateApiKey, p

LEMMA GroupsKeeps == ASSUME EntryInv, NEW r \in Requests, ReadGroups(r) PROVE EntryInv'
<1> DEFINE o == requests[r]
           q == [o EXCEPT !.at = "direct", !.member = GroupsOf(o.user)]
           p == [q EXCEPT !.ever = @ \cup Now(o), !.always = @ \cap Now(o)]
<1>1. /\ o.at = "groups" /\ o \in RequestRecords /\ RequestOK(o) /\ Judging(o)
      /\ o.user \in Users /\ rows[o.user] \in UserRows
  BY UserKnown DEF ReadGroups, Judging
<1>2. q \in RequestRecords
  BY <1>1 DEF RequestRecords, EntrySteps, Reasons, EntryInv, EntryTypeOK, GroupsOf
<1>3. requests \in [Requests -> RequestRecords]
  BY DEF EntryInv, EntryTypeOK
<1>4. requests' = Lived([requests EXCEPT ![r] = q])
  BY <1>3 DEF ReadGroups, Goes, Answer
<1>5. /\ p.key = o.key /\ p.user = o.user /\ p.ip = o.ip
      /\ p.ever = o.ever \cup Now(o) /\ p.always = o.always \cap Now(o)
      /\ p.at = "direct" /\ p.member = GroupsOf(o.user) /\ p.limit = o.limit
  BY <1>1 DEF RequestRecords
<1> HIDE DEF q, p
<1>10. KeyPart(p)
  BY <1>1, <1>5 DEF RequestOK, KeyPart, AfterKey, EntrySteps
<1>11. AddressPart(p)
  BY <1>1, <1>5 DEF RequestOK, AddressPart, AfterAddress, AfterKey, EntrySteps
<1>12. GrantPart(p)
  <2>1. \A g \in p.member : <<"member", g>> \in p.ever
    BY <1>1, <1>5, HoldsNow
  <2>2. \A g \in Groups \ p.member : <<"through", g>> \notin p.always
    BY <1>1, <1>5, HoldsNow
  <2> QED
    BY <1>1, <1>5, <2>1, <2>2 DEF RequestOK, GrantPart, AfterGrant
<1>13. LimitPart(p)
  BY <1>1, <1>5 DEF RequestOK, LimitPart, EntrySteps
<1>14. RefusalPart(p)
  BY <1>1, <1>5 DEF RefusalPart
<1>9. RequestOK(p)
  BY <1>10, <1>11, <1>12, <1>13, <1>14 DEF RequestOK
<1> QED
  BY <1>1, <1>2, <1>4, <1>9, JudgedStep DEF ReadGroups, p


LEMMA DirectKeeps == ASSUME EntryInv, NEW r \in Requests, CheckDirectGrant(r) PROVE EntryInv'
<1> DEFINE o == requests[r]
           q == IF DirectlyGranted(o) THEN [o EXCEPT !.at = "limit"]
                ELSE IF o.member # {} THEN [o EXCEPT !.at = "group"]
                ELSE [o EXCEPT !.at = "answered", !.why = "forbidden"]
           p == [q EXCEPT !.ever = @ \cup Now(o), !.always = @ \cap Now(o)]
<1>1. /\ o.at = "direct" /\ o \in RequestRecords /\ RequestOK(o) /\ Judging(o)
      /\ o.user \in Users /\ rows[o.user] \in UserRows
  BY UserKnown DEF CheckDirectGrant, Judging
<1>2. q \in RequestRecords
  BY <1>1 DEF RequestRecords, EntrySteps, Reasons, EntryInv, EntryTypeOK, GroupsOf
<1>3. requests \in [Requests -> RequestRecords]
  BY DEF EntryInv, EntryTypeOK
<1>4. requests' = Lived([requests EXCEPT ![r] = q])
  BY <1>3 DEF CheckDirectGrant, Goes, Answer
<1>5. /\ p.key = o.key /\ p.user = o.user /\ p.ip = o.ip
      /\ p.ever = o.ever \cup Now(o) /\ p.always = o.always \cap Now(o)
      /\ p.at = (IF DirectlyGranted(o) THEN "limit"
                 ELSE IF o.member # {} THEN "group" ELSE "answered")
      /\ p.member = o.member /\ p.limit = o.limit
  BY <1>1 DEF RequestRecords
<1> HIDE DEF q, p
<1>10. KeyPart(p)
  BY <1>1, <1>5 DEF RequestOK, KeyPart, AfterKey, EntrySteps
<1>11. AddressPart(p)
  BY <1>1, <1>5 DEF RequestOK, AddressPart, AfterAddress, AfterKey, EntrySteps
<1>12. GrantPart(p)
  <2>1. o.user \in granted <=> <<"granted", o.user>> \in Now(o)
    BY <1>1, HoldsNow
  <2>2. DirectlyGranted(o) => Entitled(p)
    BY <1>5, <2>1 DEF Entitled, DirectlyGranted
  <2> QED
    BY <1>1, <1>5, <2>1, <2>2 DEF RequestOK, GrantPart, AfterGrant, DirectlyGranted
<1>13. LimitPart(p)
  BY <1>1, <1>5 DEF RequestOK, LimitPart, EntrySteps
<1>14. RefusalPart(p)
  <2>1. o.user \in granted <=> <<"granted", o.user>> \in Now(o)
    BY <1>1, HoldsNow
  <2>2. p.at = "answered" => p.why = "forbidden" /\ o.member = {}
    BY <1>1, <1>5 DEF q, p, RequestRecords
  <2> QED
    BY <1>1, <1>5, <2>1, <2>2 DEF RequestOK, GrantPart, RefusalPart, DirectlyGranted
<1>9. RequestOK(p)
  BY <1>10, <1>11, <1>12, <1>13, <1>14 DEF RequestOK
<1> QED
  BY <1>1, <1>2, <1>4, <1>9, JudgedStep DEF CheckDirectGrant, p


LEMMA GroupKeeps == ASSUME EntryInv, NEW r \in Requests, CheckGroupGrants(r) PROVE EntryInv'
<1> DEFINE o == requests[r]
           q == IF o.member \cap granted # {} THEN [o EXCEPT !.at = "limit"]
                ELSE [o EXCEPT !.at = "answered", !.why = "forbidden"]
           p == [q EXCEPT !.ever = @ \cup Now(o), !.always = @ \cap Now(o)]
<1>1. /\ o.at = "group" /\ o \in RequestRecords /\ RequestOK(o) /\ Judging(o)
      /\ o.user \in Users /\ rows[o.user] \in UserRows
  BY UserKnown DEF CheckGroupGrants, Judging
<1>2. q \in RequestRecords
  BY <1>1 DEF RequestRecords, EntrySteps, Reasons, EntryInv, EntryTypeOK, GroupsOf
<1>3. requests \in [Requests -> RequestRecords]
  BY DEF EntryInv, EntryTypeOK
<1>4. requests' = Lived([requests EXCEPT ![r] = q])
  BY <1>3 DEF CheckGroupGrants, Goes, Answer
<1>5. /\ p.key = o.key /\ p.user = o.user /\ p.ip = o.ip
      /\ p.ever = o.ever \cup Now(o) /\ p.always = o.always \cap Now(o)
      /\ p.at = (IF o.member \cap granted # {} THEN "limit" ELSE "answered")
      /\ p.limit = o.limit
  BY <1>1 DEF RequestRecords
<1> HIDE DEF q, p
<1>10. KeyPart(p)
  BY <1>1, <1>5 DEF RequestOK, KeyPart, AfterKey, EntrySteps
<1>11. AddressPart(p)
  BY <1>1, <1>5 DEF RequestOK, AddressPart, AfterAddress, AfterKey, EntrySteps
<1>12. GrantPart(p)
  <2>1. o.member \cap granted # {} => Entitled(p)
    BY <1>1, <1>5, HoldsNow DEF Entitled, RequestOK, GrantPart, RequestRecords
  <2> QED
    BY <1>1, <1>5, <2>1 DEF GrantPart, AfterGrant
<1>13. LimitPart(p)
  BY <1>1, <1>5 DEF RequestOK, LimitPart, EntrySteps
<1>14. RefusalPart(p)
  <2>1. p.at = "answered" => p.why = "forbidden" /\ o.member \cap granted = {}
    BY <1>1, <1>5 DEF q, p, RequestRecords
  <2>2. p.at = "answered" => \A g \in Groups : <<"through", g>> \notin p.always
    BY <1>1, <1>5, <2>1, HoldsNow DEF RequestOK, GrantPart
  <2> QED
    BY <1>1, <1>5, <2>1, <2>2 DEF RequestOK, GrantPart, RefusalPart
<1>9. RequestOK(p)
  BY <1>10, <1>11, <1>12, <1>13, <1>14 DEF RequestOK
<1> QED
  BY <1>1, <1>2, <1>4, <1>9, JudgedStep DEF CheckGroupGrants, p


LEMMA OverrideKeeps == ASSUME EntryInv, NEW r \in Requests, ReadOverride(r) PROVE EntryInv'
<1> DEFINE o == requests[r]
           q == IF rows[o.user].role = "none" THEN [o EXCEPT !.at = "admission"]
                ELSE IF rows[o.user].limit # NoLimit
                     THEN [o EXCEPT !.at = "admission", !.limit = rows[o.user].limit]
                ELSE [o EXCEPT !.at = "groupLimits"]
           p == [q EXCEPT !.ever = @ \cup Now(o), !.always = @ \cap Now(o)]
<1>1. /\ o.at = "limit" /\ o \in RequestRecords /\ RequestOK(o) /\ Judging(o)
      /\ o.user \in Users /\ rows[o.user] \in UserRows
  BY UserKnown DEF ReadOverride, Judging
<1>2. q \in RequestRecords
  <2> DEFINE n == rows[o.user].limit
  <2>1. n # NoLimit => n \in 0..MaxTokens
    BY <1>1 DEF UserRows
  <2>2. {"admission", "groupLimits"} \subseteq EntrySteps
    BY DEF EntrySteps
  <2> HIDE DEF n
  <2>3. /\ [o EXCEPT !.at = "admission"] \in RequestRecords
        /\ [o EXCEPT !.at = "groupLimits"] \in RequestRecords
        /\ n \in 0..MaxTokens => [o EXCEPT !.at = "admission", !.limit = n] \in RequestRecords
    BY <1>1, <2>2 DEF RequestRecords
  <2> QED
    BY <2>1, <2>3 DEF n
<1>3. requests \in [Requests -> RequestRecords]
  BY DEF EntryInv, EntryTypeOK
<1>4. requests' = Lived([requests EXCEPT ![r] = q])
  BY <1>3 DEF ReadOverride, Goes, Answer
<1>5. /\ p.key = o.key /\ p.user = o.user /\ p.ip = o.ip
      /\ p.ever = o.ever \cup Now(o) /\ p.always = o.always \cap Now(o)
      /\ p.at = (IF rows[o.user].role = "none" \/ rows[o.user].limit # NoLimit
                 THEN "admission" ELSE "groupLimits")
      /\ p.limit = (IF rows[o.user].role # "none" /\ rows[o.user].limit # NoLimit
                    THEN rows[o.user].limit ELSE o.limit)
  BY <1>1 DEF RequestRecords
<1> HIDE DEF q, p
<1>10. KeyPart(p)
  BY <1>1, <1>5 DEF RequestOK, KeyPart, AfterKey, EntrySteps
<1>11. AddressPart(p)
  BY <1>1, <1>5 DEF RequestOK, AddressPart, AfterAddress, AfterKey, EntrySteps
<1>12. GrantPart(p)
  <2>1. Entitled(p)
    BY <1>1, <1>5 DEF RequestOK, GrantPart, AfterGrant, Entitled
  <2> QED
    BY <1>5, <2>1 DEF GrantPart
<1>13. LimitPart(p)
  <2>1. o.limit = 0
    BY <1>1 DEF RequestOK, LimitPart, EntrySteps
  <2>2. NoLimit \notin 0..MaxTokens
    BY LimitAssumption
  <2>3. \A x : <<"override", x>> \in Now(o) <=> rows[o.user].role # "none" /\ x = rows[o.user].limit
    BY <1>1, HoldsNow
  <2>4. <<"role", rows[o.user].role>> \in Now(o)
    BY <1>1, HoldsNow
  <2>5. CASE rows[o.user].role = "none"
    BY <1>5, <2>1, <2>3, <2>4, <2>5 DEF LimitPart
  <2>6. CASE rows[o.user].role # "none" /\ rows[o.user].limit # NoLimit
    BY <1>5, <2>3, <2>6 DEF LimitPart
  <2>7. CASE rows[o.user].role # "none" /\ rows[o.user].limit = NoLimit
    BY <1>5, <2>1, <2>2, <2>3, <2>7 DEF LimitPart
  <2> QED
    BY <2>5, <2>6, <2>7
<1>14. RefusalPart(p)
  BY <1>1, <1>5 DEF RefusalPart
<1>9. RequestOK(p)
  BY <1>10, <1>11, <1>12, <1>13, <1>14 DEF RequestOK
<1> QED
  BY <1>1, <1>2, <1>4, <1>9, JudgedStep DEF ReadOverride, p


LEMMA GroupLimitsKeeps == ASSUME EntryInv, NEW r \in Requests, ReadGroupLimits(r) PROVE EntryInv'
<1> DEFINE o == requests[r]
           q == [o EXCEPT !.at = "admission", !.limit = StrictestOf(o.user)]
           p == [q EXCEPT !.ever = @ \cup Now(o), !.always = @ \cap Now(o)]
<1>1. /\ o.at = "groupLimits" /\ o \in RequestRecords /\ RequestOK(o) /\ Judging(o)
      /\ o.user \in Users /\ rows[o.user] \in UserRows
  BY UserKnown DEF ReadGroupLimits, Judging
<1>2. q \in RequestRecords
  <2>1. StrictestOf(o.user) \in 0..MaxTokens
    BY StrictestIs DEF EntryInv
  <2> DEFINE n == StrictestOf(o.user)
  <2>2. n \in 0..MaxTokens /\ "admission" \in EntrySteps
    BY <2>1 DEF EntrySteps
  <2> HIDE DEF n
  <2>3. [o EXCEPT !.at = "admission", !.limit = n] \in RequestRecords
    BY <1>1, <2>2 DEF RequestRecords
  <2> QED
    BY <2>3 DEF n
<1>3. requests \in [Requests -> RequestRecords]
  BY DEF EntryInv, EntryTypeOK
<1>4. requests' = Lived([requests EXCEPT ![r] = q])
  BY <1>3 DEF ReadGroupLimits, Goes, Answer
<1>5. /\ p.key = o.key /\ p.user = o.user /\ p.ip = o.ip
      /\ p.ever = o.ever \cup Now(o) /\ p.always = o.always \cap Now(o)
      /\ p.at = "admission" /\ p.limit = StrictestOf(o.user)
  BY <1>1 DEF RequestRecords
<1> HIDE DEF q, p
<1>10. KeyPart(p)
  BY <1>1, <1>5 DEF RequestOK, KeyPart, AfterKey, EntrySteps
<1>11. AddressPart(p)
  BY <1>1, <1>5 DEF RequestOK, AddressPart, AfterAddress, AfterKey, EntrySteps
<1>12. GrantPart(p)
  <2>1. Entitled(p)
    BY <1>1, <1>5 DEF RequestOK, GrantPart, AfterGrant, Entitled
  <2> QED
    BY <1>5, <2>1 DEF GrantPart
<1>13. LimitPart(p)
  <2>1. <<"limits", {limits[g] : g \in GroupsOf(o.user)}>> \in Now(o)
    BY <1>1, HoldsNow
  <2>2. /\ {limits[g] : g \in GroupsOf(o.user)} \in SUBSET (0..MaxTokens)
        /\ IsStrictest(StrictestOf(o.user), {limits[g] : g \in GroupsOf(o.user)})
    BY StrictestIs DEF EntryInv
  <2>3. \E set \in SUBSET (0..MaxTokens) : <<"limits", set>> \in p.ever /\ IsStrictest(p.limit, set)
    BY <1>5, <2>1, <2>2
  <2> QED
    BY <1>1, <1>5, <2>3 DEF RequestOK, LimitPart
<1>14. RefusalPart(p)
  BY <1>1, <1>5 DEF RefusalPart
<1>9. RequestOK(p)
  BY <1>10, <1>11, <1>12, <1>13, <1>14 DEF RequestOK
<1> QED
  BY <1>1, <1>2, <1>4, <1>9, JudgedStep DEF ReadGroupLimits, p

\* The judgement of the address rests on the rule read with the route.
LEMMA RouteKeeps == ASSUME EntryInv, NEW r \in Requests, ResolveRoute(r) PROVE EntryInv'
<1> DEFINE o == requests[r]
           left == [o EXCEPT !.at = "answered", !.why = "noRoute"]
           found == [o EXCEPT !.at = "user", !.rule = rule]
           p(q) == [q EXCEPT !.ever = @ \cup Now(o), !.always = @ \cap Now(o)]
<1>1. /\ o.at = "route" /\ o \in RequestRecords /\ RequestOK(o) /\ Judging(o)
      /\ o.user \in Users /\ rule \in Rules
  BY UserKnown DEF ResolveRoute, Judging, EntryInv, EntryTypeOK
<1>2. left \in RequestRecords /\ found \in RequestRecords
  BY <1>1 DEF RequestRecords, EntrySteps, Reasons
<1>3. requests \in [Requests -> RequestRecords]
  BY DEF EntryInv, EntryTypeOK
<1>4. \/ requests' = Lived([requests EXCEPT ![r] = left])
      \/ requests' = Lived([requests EXCEPT ![r] = found])
  BY <1>3 DEF ResolveRoute, Goes, Answer
<1>5. /\ p(left).at = "answered" /\ p(left).why = "noRoute"
      /\ p(found).at = "user" /\ p(found).rule = rule /\ p(found).limit = o.limit
      /\ p(found).key = o.key /\ p(found).user = o.user /\ p(found).ip = o.ip
      /\ p(found).ever = o.ever \cup Now(o) /\ p(found).always = o.always \cap Now(o)
  BY <1>1 DEF RequestRecords
<1> HIDE DEF left, found, p
<1>6. RequestOK(p(left))
  BY <1>5 DEF RequestOK, KeyPart, AddressPart, GrantPart, LimitPart, RefusalPart, AfterAddress,
              AfterKey, AfterGrant
<1>7. RequestOK(p(found))
  <2>1. KeyPart(p(found))
    BY <1>1, <1>5 DEF RequestOK, KeyPart, AfterKey, EntrySteps
  <2>2. AddressPart(p(found))
    BY <1>1, <1>5, HoldsNow DEF AddressPart, AfterAddress
  <2>3. GrantPart(p(found)) /\ RefusalPart(p(found))
    BY <1>5 DEF GrantPart, AfterGrant, RefusalPart
  <2>4. LimitPart(p(found))
    BY <1>1, <1>5 DEF RequestOK, LimitPart, EntrySteps
  <2> QED
    BY <2>1, <2>2, <2>3, <2>4 DEF RequestOK
<1>8. CASE requests' = Lived([requests EXCEPT ![r] = left])
  BY <1>1, <1>2, <1>6, <1>8, JudgedStep DEF ResolveRoute, p
<1>9. CASE requests' = Lived([requests EXCEPT ![r] = found])
  BY <1>1, <1>2, <1>7, <1>9, JudgedStep DEF ResolveRoute, p
<1> QED
  BY <1>4, <1>8, <1>9

LEMMA AdmitKeeps == ASSUME EntryInv, NEW r \in Requests, Admit(r) PROVE EntryInv'
<1> DEFINE o == requests[r]
           busy == [o EXCEPT !.at = "answered", !.why = "busy"]
           runs == [o EXCEPT !.at = "served"]
           p(q) == [q EXCEPT !.ever = @ \cup Now(o), !.always = @ \cap Now(o)]
<1>1. o.at = "admission" /\ o \in RequestRecords /\ RequestOK(o) /\ Judging(o)
  BY UserKnown DEF Admit, Judging
<1>2. busy \in RequestRecords /\ runs \in RequestRecords
  BY <1>1 DEF RequestRecords, EntrySteps, Reasons
<1>3. requests \in [Requests -> RequestRecords]
  BY DEF EntryInv, EntryTypeOK
<1>4. \/ requests' = Lived([requests EXCEPT ![r] = busy])
      \/ requests' = Lived([requests EXCEPT ![r] = runs])
  BY <1>3 DEF Admit, Goes, Answer
<1>5. /\ p(busy).at = "answered" /\ p(busy).why = "busy"
      /\ p(runs).at = "served" /\ p(runs).limit = o.limit
      /\ p(runs).key = o.key /\ p(runs).user = o.user /\ p(runs).ip = o.ip
      /\ p(runs).ever = o.ever \cup Now(o) /\ p(runs).always = o.always \cap Now(o)
  BY <1>1 DEF RequestRecords
<1> HIDE DEF busy, runs, p
<1>6. RequestOK(p(busy))
  BY <1>5 DEF RequestOK, KeyPart, AddressPart, GrantPart, LimitPart, RefusalPart, AfterAddress,
              AfterKey, AfterGrant
<1>7. RequestOK(p(runs))
  <2>1. KeyPart(p(runs)) /\ AddressPart(p(runs))
    BY <1>1, <1>5 DEF RequestOK, KeyPart, AddressPart, AfterAddress, AfterKey, EntrySteps
  <2>2. Entitled(p(runs))
    BY <1>1, <1>5 DEF RequestOK, GrantPart, AfterGrant, Entitled
  <2>3. GrantPart(p(runs)) /\ RefusalPart(p(runs))
    BY <1>5, <2>2 DEF GrantPart, RefusalPart
  <2>4. LimitPart(p(runs))
    BY <1>1, <1>5 DEF RequestOK, LimitPart
  <2> QED
    BY <2>1, <2>3, <2>4 DEF RequestOK
<1>8. CASE requests' = Lived([requests EXCEPT ![r] = busy])
  BY <1>1, <1>2, <1>6, <1>8, JudgedStep DEF Admit, p
<1>9. CASE requests' = Lived([requests EXCEPT ![r] = runs])
  BY <1>1, <1>2, <1>7, <1>9, JudgedStep DEF Admit, p
<1> QED
  BY <1>4, <1>8, <1>9

\* The block list the check leaves is that of the text it read.
LEMMA AddressKeeps == ASSUME EntryInv, NEW r \in Requests, CheckAddress(r) PROVE EntryInv'
<1> DEFINE o == requests[r]
           ok == IsClientIpAllowed(o.ip, o.rule)
           q == IF ~ok THEN [o EXCEPT !.at = "answered", !.why = "forbidden"]
                ELSE IF Bypasses(o) THEN [o EXCEPT !.at = "limit"] ELSE [o EXCEPT !.at = "groups"]
           p == [q EXCEPT !.ever = @ \cup Now(o), !.always = @ \cap Now(o)]
<1>1. /\ o.at = "user" /\ o \in RequestRecords /\ RequestOK(o) /\ Judging(o)
      /\ o.user \in Users /\ rows[o.user] \in UserRows
  BY UserKnown DEF CheckAddress, Judging
<1>2. q \in RequestRecords
  BY <1>1 DEF RequestRecords, EntrySteps, Reasons
<1>3. requests \in [Requests -> RequestRecords]
  BY DEF EntryInv, EntryTypeOK
<1>4. requests' = Lived([requests EXCEPT ![r] = q])
  BY <1>3 DEF CheckAddress, Goes, Answer
<1>5. /\ p.at = (IF ~ok THEN "answered" ELSE IF Bypasses(o) THEN "limit" ELSE "groups")
      /\ ~ok => p.why = "forbidden"
      /\ p.key = o.key /\ p.user = o.user /\ p.ip = o.ip /\ p.limit = o.limit
      /\ p.ever = o.ever \cup Now(o) /\ p.always = o.always \cap Now(o)
  BY <1>1 DEF RequestRecords
<1> HIDE DEF q, p
<1>6. ok <=> Admits(o.rule, o.ip)
  <2>1. o.rule \in Rules /\ o.ip \in Addresses
    BY <1>1 DEF RequestRecords
  <2> QED
    BY <2>1, AllowedIsAdmitted DEF EntryInv
<1>7. Bypasses(o) <=> o.key = SystemKey \/ <<"role", "admin">> \in Now(o)
  BY <1>1, HoldsNow DEF Bypasses
<1>10. KeyPart(p)
  BY <1>1, <1>5 DEF RequestOK, KeyPart, AfterKey, EntrySteps
<1>11. AddressPart(p)
  <2>1. p.at # "user" /\ (p.at \in AfterAddress => ok)
    BY <1>5 DEF AfterAddress, AfterKey
  <2>2. Admits(o.rule, o.ip) => <<"address", o.ip>> \in o.ever
    BY <1>1 DEF RequestOK, AddressPart
  <2> QED
    BY <1>5, <1>6, <2>1, <2>2 DEF AddressPart
<1>12. GrantPart(p)
  <2>1. Bypasses(o) => Entitled(p)
    BY <1>5, <1>7 DEF Entitled
  <2> QED
    BY <1>5, <1>7, <2>1 DEF GrantPart, AfterGrant
<1>13. LimitPart(p)
  BY <1>1, <1>5 DEF RequestOK, LimitPart, EntrySteps
<1>14. RefusalPart(p)
  BY <1>1, <1>5, <1>6 DEF RequestOK, AddressPart, RefusalPart
<1>15. RequestOK(p)
  BY <1>10, <1>11, <1>12, <1>13, <1>14 DEF RequestOK
<1>16. /\ requests' \in [Requests -> RequestRecords]
       /\ \A s \in Requests : RequestOK(requests'[s])
  BY <1>1, <1>2, <1>4, <1>15, StepOf DEF p
<1>17. /\ compiled' \in [Rules -> [addresses : SUBSET (V4 \cup V6), there : BOOLEAN]]
       /\ CacheRight'
  <2>1. CompileIpAcl(o.rule) = BlockList(o.rule)
    BY <1>1 DEF CompileIpAcl, CacheKey, CacheRight, EntryInv, RequestRecords
  <2>2. BlockList(o.rule) \subseteq V4 \cup V6
    <3>1. o.rule \in Rules
      BY <1>1 DEF RequestRecords
    <3>2. \A t \in o.rule \ Open : Covers[t] \subseteq V4 \cup V6
      BY <3>1, AddressAssumption
    <3> QED
      BY <3>2 DEF BlockList
  <2>3. compiled \in [Rules -> [addresses : SUBSET (V4 \cup V6), there : BOOLEAN]] /\ CacheRight
    BY DEF EntryInv, EntryTypeOK
  <2>4. \/ compiled' = compiled
        \/ compiled' = [compiled EXCEPT ![o.rule] = [addresses |-> BlockList(o.rule), there |-> TRUE]]
    BY <2>1 DEF CheckAddress, CacheKey
  <2>5. \A text : BlockList(text)' = BlockList(text)
    BY DEF BlockList
  <2>6. o.rule \in Rules
    BY <1>1 DEF RequestRecords
  <2>7. compiled' \in [Rules -> [addresses : SUBSET (V4 \cup V6), there : BOOLEAN]]
    <3> DEFINE Lists == [addresses : SUBSET (V4 \cup V6), there : BOOLEAN]
               list == [addresses |-> BlockList(o.rule), there |-> TRUE]
    <3>1. list \in Lists
      BY <2>2
    <3>2. compiled \in [Rules -> Lists] /\ (compiled' = compiled \/ compiled' = [compiled EXCEPT ![o.rule] = list])
      BY <2>3, <2>4
    <3> HIDE DEF Lists, list
    <3>3. compiled' \in [Rules -> Lists]
      BY <3>1, <3>2
    <3> QED
      BY <3>3 DEF Lists
  <2>8. \A text \in Rules : compiled'[text].there =>
            compiled'[text].addresses = BlockList(text)
    BY <2>3, <2>4, <2>6 DEF CacheRight
  <2>9. CacheRight'
    BY <2>5, <2>8 DEF CacheRight
  <2> QED
    BY <2>7, <2>9
<1> QED
  BY <1>16, <1>17 DEF EntryInv, EntryTypeOK, CheckAddress, tableVars

\* Statements of others change a table and let the requests live on.
LEMMA StatementKeeps == ASSUME EntryInv, Statements PROVE EntryInv'
<1>1. requests' = Lived(requests) /\ compiled' = compiled
  BY DEF Statements, Changed, WriteKeyStatus, MoveExpiry, PatchUser, PatchGroup, RevokeGroup, Join,
         LeaveGroup, RevokeAll, InsertPending, SaveIpRule
<1>2. /\ requests' \in [Requests -> RequestRecords]
      /\ \A s \in Requests : RequestOK(requests'[s])
  BY <1>1, LivesOn
<1> DEFINE Tables == /\ keys' \in [Keys -> KeyRows] /\ rows' \in [Users -> UserRows]
                     /\ limits' \in [Groups -> 0..MaxTokens] /\ belongs' \subseteq Users \X Groups
                     /\ granted' \subseteq Users \cup Groups
                     /\ restoring' \subseteq Users \cup Groups /\ rule' \in Rules
<1>3. Tables
  <2> USE DEF EntryInv, EntryTypeOK
  <2>1. ASSUME NEW k \in Keys, WriteKeyStatus(k) \/ MoveExpiry(k) PROVE Tables
    BY <2>1 DEF WriteKeyStatus, MoveExpiry, KeyRows
  <2>2. ASSUME NEW u \in Users, PatchUser(u) PROVE Tables
    BY <2>2 DEF PatchUser, UserRows
  <2>3. ASSUME NEW g \in Groups, PatchGroup(g) PROVE Tables
    BY <2>3, LimitAssumption DEF PatchGroup, NormalizeTokenLimit
  <2>4. ASSUME NEW u \in Users, NEW g \in Groups, Join(u, g) \/ LeaveGroup(u, g) PROVE Tables
    BY <2>4 DEF Join, LeaveGroup
  <2>5. ASSUME RevokeAll \/ InsertPending \/ \E g \in Groups : RevokeGroup(g) PROVE Tables
    BY <2>5 DEF RevokeAll, InsertPending, RevokeGroup
  <2>6. ASSUME SaveIpRule PROVE Tables
    BY <2>6, AddressAssumption DEF SaveIpRule, ForStorage
  <2> QED
    BY <2>1, <2>2, <2>3, <2>4, <2>5, <2>6 DEF Statements
<1> QED
  BY <1>1, <1>2, <1>3 DEF EntryInv, EntryTypeOK, CacheRight

\* EntryInv holds of every request of the gateway in every instance.
THEOREM EntryInvariant == EntrySpec => []EntryInv
<1>1. EntryInit => EntryInv
  <2> SUFFICES ASSUME EntryInit PROVE EntryInv
    OBVIOUS
  <2>1. Idle \in RequestRecords
    BY IdleTypes
  <2>2. RequestOK(Idle)
    BY DEF RequestOK, KeyPart, AddressPart, GrantPart, LimitPart, RefusalPart, Idle, AfterKey,
           AfterAddress, AfterGrant
  <2>3. rule \in Rules
    BY AddressAssumption DEF EntryInit, ForStorage
  <2>4. compiled \in [Rules -> [addresses : SUBSET (V4 \cup V6), there : BOOLEAN]] /\ CacheRight
    BY DEF EntryInit, NotCompiled, CacheRight
  <2> QED
    BY <2>1, <2>2, <2>3, <2>4 DEF EntryInv, EntryTypeOK, EntryInit
<1>2. EntryInv /\ [EntryNext]_entryVars => EntryInv'
  <2> SUFFICES ASSUME EntryInv, [EntryNext]_entryVars PROVE EntryInv'
    OBVIOUS
  <2>1. ASSUME NEW r \in Requests, RequestSteps(r) PROVE EntryInv'
    BY <2>1, ArriveKeeps, KeyKeeps, RouteKeeps, AddressKeeps, GroupsKeeps, DirectKeeps, GroupKeeps,
       OverrideKeeps, GroupLimitsKeeps, AdmitKeeps, LeaveKeeps DEF RequestSteps
  <2>2. CASE Statements
    BY <2>2, StatementKeeps
  <2>3. CASE UNCHANGED entryVars
    BY <2>3 DEF EntryInv, EntryTypeOK, CacheRight, entryVars
  <2> QED
    BY <2>1, <2>2, <2>3 DEF EntryNext
<1> QED
  BY <1>1, <1>2, PTL DEF EntrySpec

\* ServedAsAllowed: no request the executor runs lacked a valid key, an admitted address or a
\* right to the route all its life, however the statements of administrators fall between the
\* reads of authentication and authorization.
THEOREM ServedOnlyAsAllowed == EntrySpec => []ServedAsAllowed
<1>1. EntryInv => ServedAsAllowed
  BY DEF EntryInv, RequestOK, KeyPart, AddressPart, GrantPart, ServedAsAllowed, AfterKey,
         AfterAddress, AfterGrant, EntrySteps
<1> QED
  BY <1>1, EntryInvariant, PTL

\* RefusedWithCause: a request whose key, address and right held all its life is not refused.
THEOREM RefusedOnlyWithCause == EntrySpec => []RefusedWithCause
<1>1. EntryInv => RefusedWithCause
  BY DEF EntryInv, RequestOK, RefusalPart, RefusedWithCause
<1> QED
  BY <1>1, EntryInvariant, PTL

\* LimitFounded: the limit of input tokens of a request is one its user had, the user's own
\* before the groups'.
THEOREM LimitIsFounded == EntrySpec => []LimitFounded
<1>1. EntryInv => LimitFounded
  BY DEF EntryInv, RequestOK, LimitPart, LimitFounded
<1> QED
  BY <1>1, EntryInvariant, PTL

\* EntryJudged: the three together, for every number of requests, users, groups and addresses.
THEOREM EntriesAreJudged == EntrySpec => []EntryJudged
<1>1. ServedAsAllowed /\ RefusedWithCause /\ LimitFounded => EntryJudged
  BY DEF EntryJudged
<1> QED
  BY <1>1, ServedOnlyAsAllowed, RefusedOnlyWithCause, LimitIsFounded, PTL

-----------------------------------------------------------------------------
(* ModelChoice: its operators.                                                 *)

LEMMA LeastIn ==
  ASSUME NEW T, T \subseteq Nat, T # {}
  PROVE  Least(T) \in T /\ \A j \in T : Least(T) <= j
<1>1. \E m \in T : \A j \in T : m <= j
  BY LeastNumber
<1> QED
  BY <1>1 DEF Least

LEMMA LargestIn ==
  ASSUME NEW n \in Nat, NEW T, T \subseteq 1..n, T # {}
  PROVE  Largest(T) \in T
<1> DEFINE U == {n - i : i \in T}
<1>1. U \subseteq Nat /\ U # {}
  <2>1. PICK j \in T : TRUE
    OBVIOUS
  <2>2. n - j \in U
    BY <2>1
  <2>3. \A i \in T : n - i \in Nat
    OBVIOUS
  <2> QED
    BY <2>2, <2>3
<1>2. PICK m \in U : \A j \in U : m <= j
  BY <1>1, LeastNumber
<1>3. PICK i \in T : m = n - i
  BY <1>2
<1>4. \A j \in T : j <= i
  <2> TAKE j \in T
  <2>1. n - j \in U
    OBVIOUS
  <2> QED
    BY <1>2, <1>3, <2>1
<1> QED
  BY <1>4 DEF Largest

\* A window that holds a moment began on that day or the day before: trying two days is enough.
LEMMA TwoDaysSuffice ==
  ASSUME NEW s \in Schedules, NEW t \in Nat
  PROVE  Due(s, t) <=> InWindow(s, t)
<1>1. EndOf(s) \in 0..(Day - 1) /\ s.start \in 0..(Day - 1)
  BY ChoiceAssumption DEF EndOf, Schedules
<1>2. t \div Day \in Nat /\ (t \div Day) * Day <= t /\ t < (t \div Day) * Day + Day
  BY DEF Day
<1>3. ASSUME Due(s, t) PROVE InWindow(s, t)
  <2>1. PICK d \in -7..(t \div Day + 7) : Holds(s, d, t)
    BY <1>3 DEF Due
  <2> DEFINE e == EndOf(s)
             b == s.start
  <2>6. d \in Int
    BY <1>2
  <2>5. d \in Int /\ e \in Int /\ b \in Int /\ 0 <= b /\ e < 1440
    <3>1. e \in 0..1439 /\ b \in 0..1439
      BY <1>1 DEF Day
    <3> HIDE DEF e, b
    <3> QED
      BY <2>6, <3>1
  <2>2. d * Day <= t /\ t < (d + 2) * Day
    <3>1. d * 1440 + b <= t
      BY <2>1 DEF Holds, Day
    <3>2. t < (d + 1) * 1440 + e \/ t < d * 1440 + e
      BY <2>1 DEF Holds, Day
    <3> HIDE DEF e, b
    <3> QED
      BY <2>5, <3>1, <3>2 DEF Day
  <2>3. d = t \div Day \/ d = t \div Day - 1
    BY <1>2, <2>2 DEF Day
  <2>4. PICK offset \in {-1, 0} : d = t \div Day + offset
    BY <1>2, <2>3
  <2> QED
    BY <2>1, <2>4 DEF InWindow
<1>4. ASSUME InWindow(s, t) PROVE Due(s, t)
  <2>1. PICK offset \in {-1, 0} : Holds(s, t \div Day + offset, t)
    BY <1>4 DEF InWindow
  <2>2. t \div Day + offset \in -7..(t \div Day + 7)
    BY <1>2
  <2> QED
    BY <2>1, <2>2 DEF Due
<1> QED
  BY <1>3, <1>4

\* The schedule found is the first of its list that is due.
LEMMA FirstDueFound ==
  ASSUME NEW list \in Seq(Schedules), NEW t \in Nat
  PROVE  LET s == FindActiveSchedule(list, t)
             due == {i \in DOMAIN list : Due(list[i], t)} IN
         /\ s \in Schedules \cup {NoSchedule}
         /\ s = NoSchedule => due = {}
         /\ s # NoSchedule => \E i \in due : s = list[i] /\ \A j \in due : i <= j
<1> DEFINE s == FindActiveSchedule(list, t)
           due == {i \in DOMAIN list : Due(list[i], t)}
<1>1. DOMAIN list \subseteq Nat /\ \A i \in DOMAIN list : list[i] \in Schedules
  OBVIOUS
<1>2. Active(list, t) = due
  BY <1>1, TwoDaysSuffice DEF Active
<1>3. NoSchedule \notin Schedules
  BY ChoiceAssumption
<1>4. CASE due = {}
  <2>1. s = NoSchedule
    BY <1>2, <1>4 DEF FindActiveSchedule
  <2> QED
    BY <1>4, <2>1
<1>5. CASE due # {}
  <2>1. Least(due) \in due /\ \A j \in due : Least(due) <= j
    BY <1>1, <1>5, LeastIn
  <2>2. s = list[Least(due)]
    BY <1>2, <1>5 DEF FindActiveSchedule
  <2>3. s \in Schedules
    BY <1>1, <2>1, <2>2
  <2> QED
    BY <1>3, <2>1, <2>2, <2>3
<1> QED
  BY <1>4, <1>5

LEMMA PlainIsLayer ==
  ASSUME NEW p \in Providers, NEW m \in Models PROVE <<PlainLayer(p, m)>> \in Seq(Layers)
<1>1. <<>> \in RuleLists
  BY DEF RuleLists
<1>2. PlainLayer(p, m) \in Layers
  BY <1>1 DEF PlainLayer, Layers
<1> QED
  BY <1>2

\* A schedule leaves the mode, the profiles and the schedules of a row.
LEMMA ScheduledRow ==
  ASSUME NEW table \in Rows, NEW s \in Schedules \cup {NoSchedule}
  PROVE  LET r == ResolveActiveRouteProperties(table, s) IN
         /\ r \in Rows /\ r.schedules = table.schedules
         /\ s # NoSchedule => r.provider = s.provider
<1>1. CASE s = NoSchedule
  BY <1>1 DEF ResolveActiveRouteProperties
<1>2. CASE s # NoSchedule
  <2>1. s \in Schedules
    BY <1>2
  <2>2. s.provider \in Providers /\ s.model \in Models /\ s.layers \in Seq(Layers)
        /\ s.allow \in BOOLEAN
    BY <2>1 DEF Schedules
  <2> DEFINE layers == IF s.layers = <<>> THEN <<PlainLayer(s.provider, s.model)>> ELSE s.layers
  <2>3. layers \in Seq(Layers)
    BY <2>2, PlainIsLayer
  <2>4. ResolveActiveRouteProperties(table, s) =
          [table EXCEPT !.layers = layers, !.provider = s.provider, !.model = s.model,
                        !.allow = s.allow, !.strategy = FALSE]
    BY <1>2 DEF ResolveActiveRouteProperties
  <2> HIDE DEF layers
  <2> QED
    BY <2>2, <2>3, <2>4 DEF Rows
<1> QED
  BY <1>1, <1>2

LEMMA ProfiledRow ==
  ASSUME NEW table \in Rows, NEW asked PROVE ApplyRouteModelProfile(table, asked) \in Rows
<1> DEFINE named == {i \in DOMAIN table.profiles : table.profiles[i].name = asked}
           p == table.profiles[Least(named)]
<1>1. CASE named = {}
  BY <1>1 DEF ApplyRouteModelProfile
<1>2. CASE named # {}
  <2>1. table.profiles \in Seq(Profiles)
    BY DEF Rows
  <2>9. DOMAIN table.profiles \subseteq Nat
        /\ \A i \in DOMAIN table.profiles : table.profiles[i] \in Profiles
    BY <2>1
  <2>2. Least(named) \in named
    <3> HIDE DEF p
    <3>1. named \subseteq Nat
      BY <2>9
    <3> QED
      BY <1>2, <3>1, LeastIn
  <2>3. p \in Profiles
    BY <2>2, <2>9
  <2>4. p.mode \in Modes /\ p.layers \in Seq(Layers) /\ p.layers # <<>>
    BY <2>3 DEF Profiles, Modes
  <2>5. p.layers[1] \in Layers
    BY <2>4
  <2>6. p.layers[1].provider \in Providers /\ p.layers[1].model \in Models
    BY <2>5 DEF Layers
  <2>7. <<>> \in RuleLists
    BY DEF RuleLists
  <2>8. ApplyRouteModelProfile(table, asked) =
          [table EXCEPT !.mode = p.mode, !.layers = p.layers, !.provider = p.layers[1].provider,
                        !.model = p.layers[1].model, !.strategy = FALSE, !.rules = <<>>,
                        !.allow = FALSE, !.schedules = <<>>]
    BY <1>2 DEF ApplyRouteModelProfile
  <2>10. <<>> \in Seq(Schedules)
    OBVIOUS
  <2> DEFINE layers == p.layers
             provider == p.layers[1].provider
             model == p.layers[1].model
             mode == p.mode
  <2>11. /\ mode \in Modes /\ layers \in Seq(Layers) /\ provider \in Providers
         /\ model \in Models
    BY <2>4, <2>6
  <2>12. ApplyRouteModelProfile(table, asked) =
          [table EXCEPT !.mode = mode, !.layers = layers, !.provider = provider,
                        !.model = model, !.strategy = FALSE, !.rules = <<>>,
                        !.allow = FALSE, !.schedules = <<>>]
    BY <2>8
  <2> HIDE DEF p, layers, provider, model, mode
  <2> QED
    BY <2>7, <2>10, <2>11, <2>12 DEF Rows
<1> QED
  BY <1>1, <1>2

\* The layer a request begins at is one of the table, with a weight if any has one.
RightLayer(table, layer) ==
    /\ layer \in Nat
    /\ IF table.layers = <<>> THEN layer = 1 ELSE layer \in DOMAIN table.layers
    /\ IF IsClassic(table) /\ Positive(table) # {} THEN layer \in Positive(table) ELSE layer = 1

LEMMA FirstLayerRight ==
  ASSUME NEW table \in Rows, NEW roll PROVE RightLayer(table, InitialLayer(table, roll))
<1>1. table.layers \in Seq(Layers)
  BY DEF Rows
<1>2. Positive(table) \subseteq 1..Len(table.layers) /\ Len(table.layers) \in Nat
  BY <1>1 DEF Positive
<1>3. \A i \in DOMAIN table.layers : table.layers[i].weight \in -1..100
  <2>1. \A i \in DOMAIN table.layers : table.layers[i] \in Layers
    BY <1>1
  <2> QED
    BY <2>1 DEF Layers
<1>4. CASE ~IsClassic(table)
  BY <1>1, <1>4 DEF RightLayer, InitialLayer
<1>5. CASE IsClassic(table)
  <2> DEFINE i == SelectClassicInitialTargetIndex(table, roll)
             sum == Cumulative(table)
             reached == {j \in Positive(table) : sum[j] >= 100 \/ roll < sum[j]}
  <2>1. InitialLayer(table, roll) = i
    BY <1>5 DEF InitialLayer
  <2>2. CASE table.layers = <<>>
    <3>1. i = 1 /\ Positive(table) = {}
      BY <1>2, <2>2 DEF SelectClassicInitialTargetIndex
    <3> QED
      BY <1>5, <2>1, <2>2, <3>1 DEF RightLayer
  <2>3. CASE Len(table.layers) = 1
    <3>1. i = 1
      BY <2>3 DEF SelectClassicInitialTargetIndex
    <3>2. Positive(table) # {} => 1 \in Positive(table)
      BY <1>2, <2>3
    <3> QED
      BY <1>1, <1>5, <2>1, <2>3, <3>1, <3>2 DEF RightLayer
  <2>4. CASE Len(table.layers) > 1 /\ Weight(table, 1) >= 100
    <3>1. i = 1
      BY <2>4 DEF SelectClassicInitialTargetIndex
    <3>4. table.layers[1].weight \in Int
      <4>1. 1 \in DOMAIN table.layers
        BY <1>1, <2>4
      <4>2. table.layers[1].weight \in -1..100
        BY <1>3, <4>1
      <4> QED
        BY <4>2
    <3>5. Weight(table, 1) \in Int
      BY <3>4 DEF Weight
    <3>2. Weight(table, 1) > 0
      BY <2>4, <3>5
    <3>3. 1 \in Positive(table)
      BY <1>1, <2>4, <3>2 DEF Positive
    <3> QED
      BY <1>1, <1>5, <2>1, <2>4, <3>1, <3>3 DEF RightLayer
  <2>5. CASE Len(table.layers) > 1 /\ ~(Weight(table, 1) >= 100)
    <3>1. i = IF reached = {} THEN BeyondWeights(table) ELSE Least(reached)
      BY <1>2, <2>5 DEF SelectClassicInitialTargetIndex
    <3>2. CASE Positive(table) = {}
      <4>1. i = 1
        BY <3>1, <3>2 DEF BeyondWeights
      <4> QED
        BY <1>1, <2>1, <2>5, <3>2, <4>1 DEF RightLayer
    <3>3. CASE Positive(table) # {} /\ reached = {}
      <4>1. i \in Positive(table)
        BY <1>2, <3>1, <3>3, LargestIn DEF BeyondWeights
      <4> QED
        BY <1>1, <1>2, <1>5, <2>1, <2>5, <3>3, <4>1 DEF RightLayer
    <3>4. CASE Positive(table) # {} /\ reached # {}
      <4>1. reached \subseteq Nat /\ reached \subseteq Positive(table)
        BY <1>2
      <4>2. i \in reached
        BY <3>1, <3>4, <4>1, LeastIn
      <4> QED
        BY <1>1, <1>2, <1>5, <2>1, <2>5, <3>4, <4>1, <4>2 DEF RightLayer
    <3> QED
      BY <3>2, <3>3, <3>4
  <2>6. table.layers = <<>> \/ Len(table.layers) = 1 \/ Len(table.layers) > 1
    <3>1. Len(table.layers) = 0 => table.layers = <<>>
      BY <1>1
    <3>2. Len(table.layers) \in Nat
      BY <1>1
    <3>3. \A n \in Nat : n = 0 \/ n = 1 \/ n > 1
      OBVIOUS
    <3> QED
      BY <3>1, <3>2, <3>3
  <2> QED
    BY <2>2, <2>3, <2>4, <2>5, <2>6
<1> QED
  BY <1>4, <1>5

LEMMA RulePairs ==
  ASSUME NEW rules \in RuleLists
  PROVE  /\ DOMAIN rules \subseteq Nat /\ RulesOf(rules) \subseteq Providers \X Models
         /\ \A i \in DOMAIN rules : Pair(rules[i]) \in RulesOf(rules)
<1>1. rules \in Seq(RuleRecords)
  BY DEF RuleLists
<1>2. DOMAIN rules \subseteq Nat /\ \A i \in DOMAIN rules : rules[i] \in RuleRecords
  BY <1>1
<1>3. \A i \in DOMAIN rules : Pair(rules[i]) \in Providers \X Models
  BY <1>2 DEF Pair, RuleRecords
<1> QED
  BY <1>2, <1>3 DEF RulesOf

LEMMA LayerPairs ==
  ASSUME NEW table \in Rows
  PROVE  /\ Pair(table) \in Configured(table) /\ Pair(table) \in Providers \X Models
         /\ table.rules \in RuleLists /\ RulesOf(table.rules) \subseteq Configured(table)
         /\ table.layers \in Seq(Layers)
         /\ \A i \in DOMAIN table.layers :
               /\ table.layers[i] \in Layers /\ table.layers[i].rules \in RuleLists
               /\ Pair(table.layers[i]) \in Configured(table)
               /\ Pair(table.layers[i]) \in Providers \X Models
               /\ RulesOf(table.layers[i].rules) \subseteq Configured(table)
<1>1. table.layers \in Seq(Layers) /\ table.rules \in RuleLists
      /\ table.provider \in Providers /\ table.model \in Models
  BY DEF Rows
<1>2. \A i \in DOMAIN table.layers : table.layers[i] \in Layers
  BY <1>1
<1>3. \A i \in DOMAIN table.layers :
         table.layers[i].rules \in RuleLists /\ Pair(table.layers[i]) \in Providers \X Models
  BY <1>2 DEF Layers, Pair
<1>4. \A i \in DOMAIN table.layers :
         Pair(table.layers[i]) \in Configured(table)
         /\ RulesOf(table.layers[i].rules) \subseteq Configured(table)
  BY DEF Configured
<1>5. Pair(table) \in Configured(table) /\ RulesOf(table.rules) \subseteq Configured(table)
  BY DEF Configured
<1> QED
  BY <1>1, <1>2, <1>3, <1>4, <1>5 DEF Pair

\* The pair a request begins with is configured.
LEMMA InitialPairRight ==
  ASSUME NEW table \in Rows, NEW layer, RightLayer(table, layer)
  PROVE  InitialPair(table, layer) \in Configured(table) \cap (Providers \X Models)
<1>1. CASE table.layers = <<>>
  BY <1>1, LayerPairs DEF InitialPair
<1>2. CASE table.layers # <<>>
  <2> DEFINE l == table.layers[layer]
  <2>1. layer \in DOMAIN table.layers
    BY <1>2 DEF RightLayer
  <2>2. /\ l \in Layers /\ l.rules \in RuleLists
        /\ Pair(l) \in Configured(table) /\ Pair(l) \in Providers \X Models
        /\ RulesOf(l.rules) \subseteq Configured(table)
    BY <2>1, LayerPairs
  <2> HIDE DEF l
  <2>3. SeedModelFromLegacyTarget(l) \in RulesOf(l.rules) \cup {Pair(l)}
    <3>1. CASE GeneralRules(l.rules) # {}
      <4>1. (CHOOSE i \in GeneralRules(l.rules) : TRUE) \in GeneralRules(l.rules)
        BY <3>1
      <4>2. (CHOOSE i \in GeneralRules(l.rules) : TRUE) \in DOMAIN l.rules
        BY <4>1 DEF GeneralRules
      <4> QED
        BY <2>2, <3>1, <4>2, RulePairs DEF SeedModelFromLegacyTarget
    <3>2. CASE GeneralRules(l.rules) = {} /\ l.rules # <<>>
      <4>1. 1 \in DOMAIN l.rules
        <5>1. l.rules \in Seq(RuleRecords)
          BY <2>2 DEF RuleLists
        <5> QED
          BY <3>2, <5>1
      <4> QED
        BY <2>2, <3>2, <4>1, RulePairs DEF SeedModelFromLegacyTarget
    <3>3. CASE GeneralRules(l.rules) = {} /\ l.rules = <<>>
      BY <3>3 DEF SeedModelFromLegacyTarget
    <3> QED
      BY <3>1, <3>2, <3>3
  <2>4. InitialPair(table, layer) \in {SeedModelFromLegacyTarget(l), Pair(l)}
    BY <1>2 DEF InitialPair, l
  <2> QED
    BY <2>2, <2>3, <2>4, RulePairs
<1> QED
  BY <1>1, <1>2

\* The pair of the client's model is the one the README promises.
LEMMA ClientsPairRight ==
  ASSUME NEW table \in Rows, NEW asked
  PROVE  LET pair == ResolveClientModelAgainstL0(table, asked) IN
         pair \in Configured(table) \cap (Providers \X Models) /\ IsClients(pair, table, asked)
<1> DEFINE rules == L0Rules(table)
           base == L0Base(table)
           pair == ResolveClientModelAgainstL0(table, asked)
           hits == {i \in DOMAIN rules : rules[i].on /\ rules[i].model = asked}
           general == {i \in GeneralRules(rules) : rules[i].on}
<1> SUFFICES pair \in Configured(table) \cap (Providers \X Models) /\ IsClients(pair, table, asked)
  OBVIOUS
<1>1. /\ rules \in RuleLists /\ RulesOf(rules) \subseteq Configured(table)
      /\ base \in Configured(table) /\ base \in Providers \X Models
  <2>1. CASE table.layers = <<>>
    BY <2>1, LayerPairs DEF L0Rules, L0Base
  <2>2. CASE table.layers # <<>>
    <3>1. 1 \in DOMAIN table.layers
      <4>1. table.layers \in Seq(Layers)
        BY LayerPairs
      <4> QED
        BY <2>2, <4>1
    <3> QED
      BY <2>2, <3>1, LayerPairs DEF L0Rules, L0Base
  <2> QED
    BY <2>1, <2>2
<1>2. pair = IF hits # {} THEN Pair(rules[Least(hits)])
             ELSE IF base[2] = asked THEN base
             ELSE IF general # {} THEN Pair(rules[Least(general)]) ELSE base
  BY DEF ResolveClientModelAgainstL0
<1>3. hits # {} => Least(hits) \in hits
  BY <1>1, RulePairs, LeastIn
<1>4. general # {} => Least(general) \in general
  <2>1. general \subseteq Nat
    BY <1>1, RulePairs DEF GeneralRules
  <2> QED
    BY <2>1, LeastIn
<1>5. general \subseteq DOMAIN rules /\ general = {j \in GeneralRules(rules) : rules[j].on}
  BY DEF GeneralRules
<1>6. pair \in Configured(table) \cap (Providers \X Models)
  <2>1. pair \in RulesOf(rules) \cup {base}
    <3> HIDE DEF pair, rules, base
    <3>1. hits \subseteq DOMAIN rules
      OBVIOUS
    <3> HIDE DEF hits, general
    <3> QED
      BY <1>1, <1>2, <1>3, <1>4, <1>5, <3>1, RulePairs
  <2> QED
    BY <1>1, <2>1, RulePairs
<1>7. OnOf(rules) = {Pair(rules[i]) : i \in {j \in DOMAIN rules : rules[j].on}}
      /\ GeneralOf(rules) = {Pair(rules[i]) : i \in general}
  BY DEF OnOf, GeneralOf
<1>8. \A i : Pair(rules[i])[2] = rules[i].model
  BY DEF Pair
<1> DEFINE pairs == OnOf(rules) \cup {base}
<1>9. IsClients(pair, table, asked) <=>
         IF \E p \in pairs : p[2] = asked THEN pair \in pairs /\ pair[2] = asked
         ELSE IF GeneralOf(rules) # {} THEN pair \in GeneralOf(rules) ELSE pair = base
  BY DEF IsClients
<1> HIDE DEF pair, rules, base
<1>10. CASE hits # {}
  <2>1. pair = Pair(rules[Least(hits)]) /\ Least(hits) \in DOMAIN rules /\ rules[Least(hits)].on
        /\ rules[Least(hits)].model = asked
    BY <1>2, <1>3, <1>10
  <2>2. pair \in pairs /\ pair[2] = asked
    BY <1>7, <1>8, <2>1
  <2> QED
    BY <1>6, <1>9, <2>2
<1>11. CASE hits = {} /\ base[2] = asked
  BY <1>2, <1>6, <1>9, <1>11
<1>12. CASE hits = {} /\ base[2] # asked
  <2>1. ~\E p \in pairs : p[2] = asked
    <3>1. \A i \in DOMAIN rules : rules[i].on => rules[i].model # asked
      BY <1>12
    <3> QED
      BY <1>7, <1>8, <1>12, <3>1
  <2>2. CASE general # {}
    <3>1. pair \in GeneralOf(rules)
      BY <1>2, <1>4, <1>7, <1>12, <2>2
    <3> QED
      BY <1>6, <1>9, <2>1, <3>1
  <2>3. CASE general = {}
    <3>1. pair = base /\ GeneralOf(rules) = {}
      BY <1>2, <1>7, <1>12, <2>3
    <3> QED
      BY <1>6, <1>9, <2>1, <3>1
  <2> QED
    BY <2>2, <2>3
<1> QED
  BY <1>10, <1>11, <1>12

\* With the strategy off, no rule moves a request whose layer is the first or never had one.
LEMMA StrategyOffRow ==
  ASSUME NEW table \in Rows
  PROVE  LET off == StrategyOff(table) IN
         /\ off \in Rows /\ Pair(off) = Pair(table)
         /\ \A layer : LayerStrategy(off, layer) => layer # 1 /\ LayerStrategy(table, layer)
         /\ \A layer : RightLayer(table, layer) => LayerRules(off, layer) = LayerRules(table, layer)
<1> DEFINE off == StrategyOff(table)
<1>1. table.layers \in Seq(Layers)
  BY LayerPairs
<1>2. CASE table.layers = <<>>
  <2>1. off = [table EXCEPT !.strategy = FALSE]
    BY <1>2 DEF StrategyOff
  <2>2. off \in Rows /\ off.layers = <<>> /\ off.strategy = FALSE /\ Pair(off) = Pair(table)
        /\ off.rules = table.rules
    BY <1>2, <2>1 DEF Rows, Pair
  <2>3. DOMAIN off.layers = {}
    BY <2>2
  <2> HIDE DEF off
  <2> QED
    BY <1>2, <2>2, <2>3 DEF LayerStrategy, LayerRules, off
<1>3. CASE table.layers # <<>>
  <2> DEFINE first == [table.layers[1] EXCEPT !.strategy = FALSE]
             layers == [table.layers EXCEPT ![1] = first]
  <2>1. 1 \in DOMAIN table.layers /\ table.layers[1] \in Layers
    BY <1>1, <1>3
  <2>2. first \in Layers /\ first.strategy = FALSE /\ first.rules = table.layers[1].rules
    BY <2>1 DEF Layers
  <2> HIDE DEF first
  <2>3. layers \in Seq(Layers) /\ DOMAIN layers = DOMAIN table.layers /\ layers[1] = first
        /\ \A i \in DOMAIN table.layers : i # 1 => layers[i] = table.layers[i]
    BY <1>1, <2>1, <2>2
  <2>4. off = [table EXCEPT !.strategy = FALSE, !.layers = layers]
    BY <1>3 DEF StrategyOff, first
  <2> HIDE DEF layers
  <2>5. off \in Rows /\ off.layers = layers /\ Pair(off) = Pair(table)
        /\ off.rules = table.rules /\ off.strategy = FALSE
    BY <2>3, <2>4 DEF Rows, Pair
  <2> HIDE DEF off
  <2>6. \A layer : LayerStrategy(off, layer) => layer # 1 /\ LayerStrategy(table, layer)
    BY <2>1, <2>2, <2>3, <2>5 DEF LayerStrategy
  <2>7. \A layer : LayerRules(off, layer) = LayerRules(table, layer)
    BY <2>1, <2>2, <2>3, <2>5 DEF LayerRules
  <2> QED
    BY <2>5, <2>6, <2>7 DEF off
<1> QED
  BY <1>2, <1>3

-----------------------------------------------------------------------------
(* ModelChoice: the inductive invariant.                                       *)

\* A choice is of one kind.
OneKind(choice) ==
    \/ choice.client /\ choice.model = NoModel /\ choice.rules = <<>>
    \/ ~choice.client /\ choice.model # NoModel /\ choice.rules = <<>>
    \/ ~choice.client /\ choice.model = NoModel /\ choice.rules # <<>>

\* What a start leaves behind, until the request is over: the layer and the schedule.
ScheduleRight(q) ==
    LET due == {i \in DOMAIN q.source.schedules : Due(q.source.schedules[i], q.when)} IN
    IF q.schedule = NoSchedule THEN due = {}
    ELSE \E i \in due : /\ q.schedule = q.source.schedules[i]
                         /\ \A j \in due : i <= j
                         /\ q.source.provider = q.schedule.provider

StartPart(q) ==
    q.at \notin {"idle", "read"} => RightLayer(q.source, q.layer) /\ ScheduleRight(q)

\* What the choice has made of the table that was read and of the pair the request began with.
TablePart(q) ==
    /\ q.at \in {"read", "started", "fixed"} => q.by = "nobody"
    /\ q.at = "fixed" => q.choice \in StoredChoices /\ q.choice.model # NoModel
    /\ q.at \in {"started", "fixed", "decide"} =>
          /\ q.by = "nobody" =>
                q.table = q.source /\ q.pair = InitialPair(q.source, q.layer)
          /\ q.by = "rules" =>
                /\ q.choice \in StoredChoices /\ q.table = [q.source EXCEPT !.rules = q.choice.rules]
                /\ q.pair = InitialPair(q.source, q.layer)
          /\ q.by = "client" =>
                /\ q.table = StrategyOff(q.source) /\ q.pair \in Configured(q.source)
                /\ IsClients(q.pair, q.source, q.named)
          /\ q.by = "fixed" =>
                /\ q.table = StrategyOff(q.source)
                /\ q.pair[1] = InitialPair(q.source, q.layer)[1]
                /\ q.pair[2] = q.choice.model /\ <<q.source.provider, q.pair[2]>> \in q.seen

StandsFor(q) ==
    q.layer = 1 \/ ~LayerStrategy(q.source, q.layer) =>
        /\ q.by = "client" => IsClients(q.pair, q.source, q.named)
        /\ q.by = "fixed" =>
              q.pair[2] = q.choice.model /\ <<q.source.provider, q.pair[2]>> \in q.seen

ConfiguredFor(q) ==
    \/ q.pair \in Configured(q.source)
    \/ /\ q.by = "fixed" /\ q.pair[2] = q.choice.model
       /\ \E p \in Configured(q.source) : p[1] = q.pair[1]
    \/ q.by = "rules" /\ q.source.layers = <<>> /\ q.pair \in RulesOf(q.choice.rules)

AskedPart(q) == q.at = "asked" => StandsFor(q) /\ ConfiguredFor(q)

CallerOK(q) == StartPart(q) /\ TablePart(q) /\ AskedPart(q)

\* A call that may write a choice has one kind of it at hand.
SaverOK(q) ==
    /\ q.at = "judge" => OneKind(q.want) \/ IsDefault(q.want)
    /\ q.at \in {"check", "find", "write"} => OneKind(q.want)

ChoiceInv ==
    /\ ChoiceTypeOK
    /\ row # NoRow => OneKind(row)
    /\ \A s \in Savers : SaverOK(savers[s])
    /\ \A c \in Callers : CallerOK(callers[c])

LEMMA ChoiceInitInv == ChoiceInit => ChoiceInv
<1> SUFFICES ASSUME ChoiceInit PROVE ChoiceInv
  OBVIOUS
<1> USE DEF ChoiceInit
<1>1. route \in Rows /\ Pair(route) \in Providers \X Models
  BY ChoiceAssumption, LayerPairs
<1>2. NoChoice \in StoredChoices
  <2>1. <<>> \in RuleLists
    BY DEF RuleLists
  <2> QED
    BY <2>1 DEF NoChoice, StoredChoices
<1>3. \A s \in Savers : savers[s] \in SaverRecords /\ savers[s].at = "idle"
  <2>1. (CHOOSE want \in Wants : TRUE) \in Wants
    BY ChoiceAssumption
  <2> QED
    BY <1>1, <1>2, <2>1 DEF SaverRecords
<1>4. savers \in [Savers -> SaverRecords]
  BY <1>3
<1>5. \A c \in Callers : callers[c] \in CallerRecords /\ callers[c].at = "idle"
  BY <1>1 DEF CallerRecords
<1>6. callers \in [Callers -> CallerRecords]
  BY <1>5
<1>7. ChoiceTypeOK
  BY <1>4, <1>6 DEF ChoiceTypeOK
<1>8. \A c \in Callers : CallerOK(callers[c])
  BY <1>5 DEF CallerOK, StartPart, TablePart, AskedPart
<1> QED
  BY <1>3, <1>7, <1>8 DEF ChoiceInv, SaverOK

\* A step of one request.
LEMMA CallerStep ==
  ASSUME ChoiceInv, NEW c \in Callers, NEW q, q \in CallerRecords, CallerOK(q),
         callers' = [callers EXCEPT ![c] = q], Keep
  PROVE  ChoiceInv'
<1>1. ChoiceTypeOK'
  BY DEF ChoiceInv, ChoiceTypeOK, Keep
<1>2. \A d \in Callers : CallerOK(callers'[d])
  BY DEF ChoiceInv, ChoiceTypeOK
<1>3. (\A d \in Callers : CallerOK(callers[d]))'
  BY <1>2 DEF CallerOK, StartPart, TablePart, AskedPart, ScheduleRight, StandsFor, ConfiguredFor
<1>4. (\A s \in Savers : SaverOK(savers[s]))' /\ (row # NoRow => OneKind(row))'
  BY DEF ChoiceInv, Keep, SaverOK, OneKind, IsDefault
<1> QED
  BY <1>1, <1>3, <1>4 DEF ChoiceInv

LEMMA ReadRouteKeeps ==
  ASSUME ChoiceInv, NEW c \in Callers, ReadRoute(c) PROVE ChoiceInv'
<1> DEFINE q == callers[c]
<1>1. q \in CallerRecords
  BY DEF ChoiceInv, ChoiceTypeOK
<1>2. PICK named \in Models \cup {NoModel} :
         callers' = [callers EXCEPT ![c] =
             [q EXCEPT !.at = "read", !.named = named,
                       !.table = ApplyRouteModelProfile(route, named),
                       !.source = ApplyRouteModelProfile(route, named),
                       !.schedule = NoSchedule, !.by = "nobody", !.choice = NoRow,
                       !.seen = {}]]
  BY <1>1 DEF ReadRoute, ChoiceInv, ChoiceTypeOK
<1> DEFINE table == ApplyRouteModelProfile(route, named)
           p == [q EXCEPT !.at = "read", !.named = named, !.table = table, !.source = table,
                          !.schedule = NoSchedule, !.by = "nobody", !.choice = NoRow,
                          !.seen = {}]
<1>3. table \in Rows
  <2>1. route \in Rows
    BY ChoiceAssumption DEF ChoiceInv, ChoiceTypeOK
  <2> QED
    BY <2>1, ProfiledRow
<1>4. p \in CallerRecords /\ p.at = "read" /\ p.by = "nobody"
  <2> HIDE DEF table
  <2> QED
    BY <1>1, <1>3 DEF CallerRecords
<1>5. CallerOK(p)
  BY <1>4 DEF CallerOK, StartPart, TablePart, AskedPart
<1>6. callers' = [callers EXCEPT ![c] = p] /\ Keep
  BY <1>2 DEF ReadRoute
<1> HIDE DEF p
<1> QED
  BY <1>4, <1>5, <1>6, CallerStep

LEMMA StartKeeps ==
  ASSUME ChoiceInv, NEW c \in Callers, StartAttempt(c) PROVE ChoiceInv'
<1> DEFINE q == callers[c]
           s == FindActiveSchedule(q.table.schedules, now)
           table == ResolveActiveRouteProperties(q.table, s)
<1>1. q \in CallerRecords /\ q.at = "read" /\ q.by = "nobody" /\ q.table \in Rows
  BY DEF ChoiceInv, ChoiceTypeOK, StartAttempt, CallerOK, TablePart, CallerRecords
<1>2. PICK roll \in Rolls :
         callers' = [callers EXCEPT ![c] =
             [q EXCEPT !.at = IF table.allow THEN "started" ELSE "decide",
                       !.table = table, !.source = table, !.schedule = s, !.when = now,
                       !.layer = InitialLayer(table, roll),
                       !.pair = InitialPair(table, InitialLayer(table, roll))]]
  BY <1>1 DEF StartAttempt, ChoiceInv, ChoiceTypeOK
<1> DEFINE layer == InitialLayer(table, roll)
           pair == InitialPair(table, layer)
           p == [q EXCEPT !.at = IF table.allow THEN "started" ELSE "decide",
                          !.table = table, !.source = table, !.schedule = s, !.when = now,
                          !.layer = layer, !.pair = pair]
<1>3. q.table.schedules \in Seq(Schedules) /\ now \in Nat
  BY <1>1, ChoiceAssumption DEF Rows, ChoiceInv, ChoiceTypeOK
<1>4. /\ s \in Schedules \cup {NoSchedule}
      /\ s = NoSchedule => {i \in DOMAIN q.table.schedules : Due(q.table.schedules[i], now)} = {}
      /\ s # NoSchedule =>
            \E i \in {i \in DOMAIN q.table.schedules : Due(q.table.schedules[i], now)} :
               /\ s = q.table.schedules[i]
               /\ \A j \in {j \in DOMAIN q.table.schedules : Due(q.table.schedules[j], now)} :
                     i <= j
  BY <1>3, FirstDueFound
<1> HIDE DEF s
<1>5. table \in Rows /\ table.schedules = q.table.schedules
      /\ (s # NoSchedule => table.provider = s.provider)
  BY <1>1, <1>4, ScheduledRow
<1> HIDE DEF table
<1>6. RightLayer(table, layer) /\ layer \in Nat /\ pair \in Providers \X Models
  <2>1. RightLayer(table, layer)
    BY <1>5, FirstLayerRight
  <2> HIDE DEF layer
  <2> QED
    BY <1>5, <2>1, InitialPairRight DEF RightLayer
<1> DEFINE at == IF table.allow THEN "started" ELSE "decide"
<1>7. /\ p \in CallerRecords /\ p.at \in {"started", "decide"} /\ p.table = table
      /\ p.source = table /\ p.schedule = s /\ p.when = now /\ p.layer = layer
      /\ p.pair = pair /\ p.by = "nobody"
  <2>1. at \in {"started", "decide"}
    OBVIOUS
  <2> HIDE DEF layer, pair, at
  <2>2. p = [q EXCEPT !.at = at, !.table = table, !.source = table, !.schedule = s,
                      !.when = now, !.layer = layer, !.pair = pair]
    BY DEF at
  <2> HIDE DEF p
  <2> QED
    BY <1>1, <1>3, <1>4, <1>5, <1>6, <2>1, <2>2 DEF CallerRecords
<1>8. callers' = [callers EXCEPT ![c] = p] /\ Keep
  BY <1>2 DEF StartAttempt
<1> HIDE DEF p, layer, pair
<1>9. StartPart(p)
  BY <1>4, <1>5, <1>6, <1>7 DEF StartPart, ScheduleRight
<1>10. TablePart(p) /\ AskedPart(p)
  BY <1>7 DEF TablePart, AskedPart, pair
<1> QED
  BY <1>7, <1>8, <1>9, <1>10, CallerStep DEF CallerOK

LEMMA ReadChoiceKeeps ==
  ASSUME ChoiceInv, NEW c \in Callers, ReadChoice(c) PROVE ChoiceInv'
<1> DEFINE q == callers[c]
<1>1. /\ q \in CallerRecords /\ q.at = "started" /\ q.by = "nobody" /\ q.table = q.source
      /\ q.table \in Rows /\ StartPart(q) /\ q.pair = InitialPair(q.source, q.layer)
  BY DEF ChoiceInv, ChoiceTypeOK, ReadChoice, CallerOK, TablePart, CallerRecords
<1>2. Keep
  BY DEF ReadChoice
<1>3. CASE row = NoRow /\ callers' = [callers EXCEPT ![c].at = "decide"]
  <2> DEFINE p == [q EXCEPT !.at = "decide"]
  <2>1. p \in CallerRecords /\ callers' = [callers EXCEPT ![c] = p]
    BY <1>1, <1>3 DEF CallerRecords, ChoiceInv, ChoiceTypeOK
  <2>2. /\ p.at = "decide" /\ p.by = "nobody" /\ p.table = q.table /\ p.source = q.source
        /\ p.layer = q.layer /\ p.pair = q.pair /\ p.schedule = q.schedule /\ p.when = q.when
    BY <1>1 DEF CallerRecords
  <2> HIDE DEF p
  <2>3. CallerOK(p)
    BY <1>1, <2>2 DEF CallerOK, StartPart, ScheduleRight, TablePart, AskedPart
  <2> QED
    BY <1>2, <2>1, <2>3, CallerStep
<1>4. ASSUME row # NoRow, row.client, row.model = NoModel,
             callers' = [callers EXCEPT ![c] =
                [q EXCEPT !.at = "decide", !.by = "client", !.choice = row,
                          !.pair = ResolveClientModelAgainstL0(q.table, q.named),
                          !.table = StrategyOff(q.table)]]
      PROVE  ChoiceInv'
  <2> DEFINE pair == ResolveClientModelAgainstL0(q.table, q.named)
             off == StrategyOff(q.table)
             p == [q EXCEPT !.at = "decide", !.by = "client", !.choice = row, !.pair = pair,
                            !.table = off]
  <2>1. /\ pair \in Providers \X Models /\ pair \in Configured(q.source)
        /\ IsClients(pair, q.source, q.named)
    BY <1>1, ClientsPairRight
  <2>2. off \in Rows
    BY <1>1, StrategyOffRow
  <2>3. row \in StoredChoices
    BY <1>4 DEF ChoiceInv, ChoiceTypeOK
  <2>4. callers' = [callers EXCEPT ![c] = p]
    BY <1>4
  <2> HIDE DEF pair
  <2>5. /\ p.at = "decide" /\ p.by = "client" /\ p.table = off /\ p.source = q.source
        /\ p.layer = q.layer /\ p.pair = pair /\ p.schedule = q.schedule /\ p.when = q.when
        /\ p.named = q.named /\ off = StrategyOff(q.source)
    BY <1>1 DEF CallerRecords
  <2> HIDE DEF off
  <2>6. p \in CallerRecords
    BY <1>1, <2>1, <2>2, <2>3 DEF CallerRecords
  <2> HIDE DEF p
  <2>7. CallerOK(p)
    BY <1>1, <2>1, <2>5 DEF CallerOK, StartPart, ScheduleRight, TablePart, AskedPart
  <2> QED
    BY <1>2, <2>4, <2>6, <2>7, CallerStep
<1>5. ASSUME row # NoRow, ~(row.client /\ row.model = NoModel),
             callers' = [callers EXCEPT ![c] =
                [q EXCEPT !.at = IF row.model = NoModel THEN "decide" ELSE "fixed",
                          !.by = IF row.rules = <<>> THEN "nobody" ELSE "rules",
                          !.choice = row,
                          !.table = WithRules(q.table, row.rules)]]
      PROVE  ChoiceInv'
  <2>1. row \in StoredChoices /\ OneKind(row)
    BY <1>5 DEF ChoiceInv, ChoiceTypeOK
  <2>2. CASE row.model # NoModel /\ row.rules = <<>>
    <3> DEFINE p == [q EXCEPT !.at = "fixed", !.by = "nobody", !.choice = row]
    <3>2. [q EXCEPT !.at = IF row.model = NoModel THEN "decide" ELSE "fixed",
                    !.by = IF row.rules = <<>> THEN "nobody" ELSE "rules",
                    !.choice = row,
                    !.table = WithRules(q.table, row.rules)] = p
      BY <1>1, <2>2 DEF CallerRecords, WithRules
    <3>3. callers' = [callers EXCEPT ![c] = p]
      BY <1>5, <3>2
    <3>4. /\ p.at = "fixed" /\ p.by = "nobody" /\ p.table = q.table /\ p.source = q.source
          /\ p.layer = q.layer /\ p.pair = q.pair /\ p.schedule = q.schedule
          /\ p.when = q.when /\ p.choice = row /\ p \in CallerRecords
      BY <1>1, <2>1 DEF CallerRecords
    <3> HIDE DEF p
    <3>5. CallerOK(p)
      BY <1>1, <2>1, <2>2, <3>4 DEF CallerOK, StartPart, ScheduleRight, TablePart, AskedPart
    <3> QED
      BY <1>2, <3>3, <3>4, <3>5, CallerStep
  <2>3. CASE row.model = NoModel /\ row.rules # <<>>
    <3> DEFINE table == [q.table EXCEPT !.rules = row.rules]
               p == [q EXCEPT !.at = "decide", !.by = "rules", !.choice = row, !.table = table]
    <3>1. row.rules \in RuleLists
      BY <2>1 DEF StoredChoices
    <3>2. table \in Rows /\ table = [q.source EXCEPT !.rules = row.rules]
      BY <1>1, <3>1 DEF Rows
    <3>3. [q EXCEPT !.at = IF row.model = NoModel THEN "decide" ELSE "fixed",
                    !.by = IF row.rules = <<>> THEN "nobody" ELSE "rules",
                    !.choice = row,
                    !.table = WithRules(q.table, row.rules)] = p
      BY <1>1, <2>3 DEF CallerRecords, WithRules
    <3>4. callers' = [callers EXCEPT ![c] = p]
      BY <1>5, <3>3
    <3> HIDE DEF table
    <3>5. /\ p.at = "decide" /\ p.by = "rules" /\ p.table = table /\ p.source = q.source
          /\ p.layer = q.layer /\ p.pair = q.pair /\ p.schedule = q.schedule
          /\ p.when = q.when /\ p.choice = row /\ p \in CallerRecords
      BY <1>1, <2>1, <3>2 DEF CallerRecords
    <3> HIDE DEF p
    <3>6. CallerOK(p)
      BY <1>1, <2>1, <3>2, <3>5 DEF CallerOK, StartPart, ScheduleRight, TablePart, AskedPart
    <3> QED
      BY <1>2, <3>4, <3>5, <3>6, CallerStep
  <2> QED
    BY <1>5, <2>1, <2>2, <2>3 DEF OneKind
<1>6. CASE row = NoRow
  BY <1>3, <1>6 DEF ReadChoice
<1>7. CASE row # NoRow /\ row.client /\ row.model = NoModel
  BY <1>4, <1>7 DEF ReadChoice
<1>8. CASE row # NoRow /\ ~(row.client /\ row.model = NoModel)
  BY <1>5, <1>8 DEF ReadChoice
<1> QED
  BY <1>6, <1>7, <1>8

LEMMA CheckFixedModelKeeps ==
  ASSUME ChoiceInv, NEW c \in Callers, CheckFixedModel(c) PROVE ChoiceInv'
<1> DEFINE q == callers[c]
<1>1. /\ q \in CallerRecords /\ q.at = "fixed" /\ q.by = "nobody" /\ q.table = q.source
      /\ q.table \in Rows /\ StartPart(q) /\ q.pair = InitialPair(q.source, q.layer)
      /\ q.choice \in StoredChoices /\ q.choice.model # NoModel /\ q.pair \in Providers \X Models
  BY DEF ChoiceInv, ChoiceTypeOK, CheckFixedModel, CallerOK, TablePart, CallerRecords
<1>2. Keep
  BY DEF CheckFixedModel
<1>3. ASSUME <<q.table.provider, q.choice.model>> \in listed,
             callers' = [callers EXCEPT ![c] =
                [q EXCEPT !.at = "decide", !.by = "fixed", !.seen = listed,
                          !.pair = <<q.pair[1], q.choice.model>>,
                          !.table = StrategyOff(q.table)]]
      PROVE  ChoiceInv'
  <2> DEFINE pair == <<q.pair[1], q.choice.model>>
             off == StrategyOff(q.table)
             p == [q EXCEPT !.at = "decide", !.by = "fixed", !.seen = listed, !.pair = pair,
                            !.table = off]
  <2>1. pair \in Providers \X Models /\ pair[1] = q.pair[1] /\ pair[2] = q.choice.model
    BY <1>1 DEF StoredChoices
  <2>2. off \in Rows
    BY <1>1, StrategyOffRow
  <2>3. listed \in SUBSET (Providers \X Models)
    BY ChoiceAssumption DEF ChoiceInv, ChoiceTypeOK
  <2>4. callers' = [callers EXCEPT ![c] = p]
    BY <1>3
  <2> HIDE DEF pair
  <2>5. /\ p.at = "decide" /\ p.by = "fixed" /\ p.table = off /\ p.source = q.source
        /\ p.layer = q.layer /\ p.pair = pair /\ p.schedule = q.schedule /\ p.when = q.when
        /\ p.choice = q.choice /\ p.seen = listed /\ off = StrategyOff(q.source)
    BY <1>1 DEF CallerRecords
  <2> HIDE DEF off
  <2>6. p \in CallerRecords
    BY <1>1, <2>1, <2>2, <2>3 DEF CallerRecords
  <2> HIDE DEF p
  <2>7. <<p.source.provider, p.pair[2]>> \in p.seen
    BY <1>1, <1>3, <2>1, <2>5
  <2>8. CallerOK(p)
    BY <1>1, <2>1, <2>5, <2>7 DEF CallerOK, StartPart, ScheduleRight, TablePart, AskedPart
  <2> QED
    BY <1>2, <2>4, <2>6, <2>8, CallerStep
<1>4. CASE callers' = [callers EXCEPT ![c].at = "decide"]
  <2> DEFINE p == [q EXCEPT !.at = "decide"]
  <2>1. p \in CallerRecords /\ callers' = [callers EXCEPT ![c] = p]
    BY <1>1, <1>4 DEF CallerRecords, ChoiceInv, ChoiceTypeOK
  <2>2. /\ p.at = "decide" /\ p.by = "nobody" /\ p.table = q.table /\ p.source = q.source
        /\ p.layer = q.layer /\ p.pair = q.pair /\ p.schedule = q.schedule /\ p.when = q.when
    BY <1>1 DEF CallerRecords
  <2> HIDE DEF p
  <2>3. CallerOK(p)
    BY <1>1, <2>2 DEF CallerOK, StartPart, ScheduleRight, TablePart, AskedPart
  <2> QED
    BY <1>2, <2>1, <2>3, CallerStep
<1> QED
  BY <1>1, <1>3, <1>4 DEF CheckFixedModel, ChoiceInv, ChoiceTypeOK

\* Of a request that is to be decided: what its table still allows.
LEMMA DecidesRight ==
  ASSUME NEW q \in CallerRecords, q.at = "decide", StartPart(q), TablePart(q)
  PROVE  /\ ConfiguredFor(q) /\ StandsFor(q)
         /\ Pair(q.table) \in Configured(q.source) /\ Pair(q.table) \in Providers \X Models
         /\ LayerStrategy(q.table, q.layer) =>
               ~(q.by \in {"client", "fixed"} /\ (q.layer = 1 \/ ~LayerStrategy(q.source, q.layer)))
         /\ \A i \in DOMAIN LayerRules(q.table, q.layer) :
               LET pair == Pair(LayerRules(q.table, q.layer)[i]) IN
               /\ pair \in Providers \X Models
               /\ \/ pair \in Configured(q.source)
                  \/ q.by = "rules" /\ q.source.layers = <<>> /\ pair \in RulesOf(q.choice.rules)
<1>1. /\ q.source \in Rows /\ RightLayer(q.source, q.layer)
      /\ q.by \in {"nobody", "client", "fixed", "rules"}
  BY DEF CallerRecords, StartPart
<1>2. InitialPair(q.source, q.layer) \in Configured(q.source)
  BY <1>1, InitialPairRight
<1>3. ConfiguredFor(q) /\ StandsFor(q)
  BY <1>1, <1>2 DEF TablePart, ConfiguredFor, StandsFor
<1>4. Pair(q.source) \in Configured(q.source) /\ Pair(q.source) \in Providers \X Models
  BY <1>1, LayerPairs
<1>5. LayerRules(q.source, q.layer) \in RuleLists
      /\ RulesOf(LayerRules(q.source, q.layer)) \subseteq Configured(q.source)
  BY <1>1, LayerPairs DEF LayerRules
<1>6. CASE q.by = "nobody"
  <2>1. q.table = q.source
    BY <1>6 DEF TablePart
  <2> QED
    BY <1>3, <1>4, <1>5, <1>6, <2>1, RulePairs
<1>7. CASE q.by \in {"client", "fixed"}
  <2>1. q.table = StrategyOff(q.source)
    BY <1>7 DEF TablePart
  <2>2. /\ Pair(q.table) = Pair(q.source)
        /\ LayerStrategy(q.table, q.layer) => q.layer # 1 /\ LayerStrategy(q.source, q.layer)
        /\ LayerRules(q.table, q.layer) = LayerRules(q.source, q.layer)
    BY <1>1, <2>1, StrategyOffRow
  <2> QED
    BY <1>3, <1>4, <1>5, <2>2, RulePairs
<1>8. CASE q.by = "rules"
  <2>1. q.choice \in StoredChoices /\ q.table = [q.source EXCEPT !.rules = q.choice.rules]
    BY <1>8 DEF TablePart
  <2>2. q.choice.rules \in RuleLists
    BY <2>1 DEF StoredChoices
  <2>3. /\ q.table.layers = q.source.layers /\ q.table.rules = q.choice.rules
        /\ Pair(q.table) = Pair(q.source)
    BY <1>1, <2>1 DEF Rows, Pair
  <2>4. CASE q.source.layers = <<>>
    <3>1. LayerRules(q.table, q.layer) = q.choice.rules
      BY <2>3, <2>4 DEF LayerRules
    <3> QED
      BY <1>3, <1>4, <1>8, <2>2, <2>3, <2>4, <3>1, RulePairs
  <2>5. CASE q.source.layers # <<>>
    <3>1. q.layer \in DOMAIN q.source.layers
      BY <1>1, <2>5 DEF RightLayer
    <3>2. LayerRules(q.table, q.layer) = LayerRules(q.source, q.layer)
      BY <2>3, <3>1 DEF LayerRules
    <3> QED
      BY <1>3, <1>4, <1>5, <1>8, <2>3, <3>2, RulePairs
  <2> QED
    BY <2>4, <2>5
<1> QED
  BY <1>1, <1>6, <1>7, <1>8

LEMMA DecideKeeps ==
  ASSUME ChoiceInv, NEW c \in Callers, DecideStrategy(c) PROVE ChoiceInv'
<1> DEFINE q == callers[c]
           rules == LayerRules(q.table, q.layer)
<1>1. q \in CallerRecords /\ q.at = "decide" /\ StartPart(q) /\ TablePart(q)
  BY DEF ChoiceInv, ChoiceTypeOK, DecideStrategy, CallerOK
<1>2. Keep
  BY DEF DecideStrategy
<1>3. /\ ConfiguredFor(q) /\ StandsFor(q)
      /\ Pair(q.table) \in Configured(q.source) /\ Pair(q.table) \in Providers \X Models
      /\ LayerStrategy(q.table, q.layer) =>
            ~(q.by \in {"client", "fixed"} /\ (q.layer = 1 \/ ~LayerStrategy(q.source, q.layer)))
      /\ \A i \in DOMAIN rules :
            LET pair == Pair(rules[i]) IN
            /\ pair \in Providers \X Models
            /\ \/ pair \in Configured(q.source)
               \/ q.by = "rules" /\ q.source.layers = <<>> /\ pair \in RulesOf(q.choice.rules)
  BY <1>1, DecidesRight
<1>4. ASSUME NEW pair \in Providers \X Models,
             callers' = [callers EXCEPT ![c] = [q EXCEPT !.at = "asked", !.pair = pair]],
             \/ pair = q.pair
             \/ /\ LayerStrategy(q.table, q.layer)
                /\ \/ pair \in Configured(q.source)
                   \/ q.by = "rules" /\ q.source.layers = <<>> /\ pair \in RulesOf(q.choice.rules)
      PROVE  ChoiceInv'
  <2> DEFINE p == [q EXCEPT !.at = "asked", !.pair = pair]
  <2>1. /\ p \in CallerRecords /\ p.at = "asked" /\ p.pair = pair /\ p.source = q.source
        /\ p.layer = q.layer /\ p.by = q.by /\ p.choice = q.choice /\ p.seen = q.seen
        /\ p.named = q.named /\ p.schedule = q.schedule /\ p.when = q.when
    BY <1>1 DEF CallerRecords
  <2> HIDE DEF p
  <2>2. StartPart(p) /\ TablePart(p)
    BY <1>1, <2>1 DEF StartPart, ScheduleRight, TablePart
  <2>3. ConfiguredFor(p)
    BY <1>3, <1>4, <2>1 DEF ConfiguredFor
  <2>4. StandsFor(p)
    BY <1>3, <1>4, <2>1 DEF StandsFor
  <2> QED
    BY <1>2, <1>4, <2>1, <2>2, <2>3, <2>4, CallerStep DEF CallerOK, AskedPart, p
<1>5. CASE callers' = [callers EXCEPT ![c].at = "asked"]
  <2>1. [q EXCEPT !.at = "asked"] = [q EXCEPT !.at = "asked", !.pair = q.pair]
        /\ q.pair \in Providers \X Models
    BY <1>1 DEF CallerRecords
  <2>2. callers' = [callers EXCEPT ![c] = [q EXCEPT !.at = "asked", !.pair = q.pair]]
    BY <1>5, <2>1
  <2> QED
    BY <1>4, <2>1, <2>2
<1>6. CASE /\ LayerStrategy(q.table, q.layer)
           /\ callers' = [callers EXCEPT ![c] = [q EXCEPT !.at = "asked", !.pair = Pair(q.table)]]
  BY <1>3, <1>4, <1>6
<1>7. ASSUME LayerStrategy(q.table, q.layer), NEW i \in DOMAIN rules,
             callers' = [callers EXCEPT ![c] = [q EXCEPT !.at = "asked", !.pair = Pair(rules[i])]]
      PROVE  ChoiceInv'
  BY <1>3, <1>4, <1>7
<1> QED
  BY <1>5, <1>6, <1>7 DEF DecideStrategy, ChoiceInv, ChoiceTypeOK

LEMMA LeaveCallerKeeps ==
  ASSUME ChoiceInv, NEW c \in Callers, LeaveCaller(c) PROVE ChoiceInv'
<1> DEFINE p == [callers[c] EXCEPT !.at = "idle"]
<1>1. p \in CallerRecords /\ p.at = "idle" /\ callers' = [callers EXCEPT ![c] = p] /\ Keep
  BY DEF ChoiceInv, ChoiceTypeOK, LeaveCaller, CallerRecords
<1>2. CallerOK(p)
  BY <1>1 DEF CallerOK, StartPart, TablePart, AskedPart
<1> QED
  BY <1>1, <1>2, CallerStep

\* A step of one call of the user's.
LEMMA SaverStep ==
  ASSUME ChoiceInv, NEW s \in Savers, NEW q, q \in SaverRecords, SaverOK(q),
         savers' = [savers EXCEPT ![s] = q], KeepAll,
         row' \in StoredChoices \cup {NoRow}, row' # NoRow => OneKind(row'), saves' \in Nat
  PROVE  ChoiceInv'
<1>1. ChoiceTypeOK'
  BY DEF ChoiceInv, ChoiceTypeOK, KeepAll
<1>2. \A d \in Savers : SaverOK(savers'[d])
  BY DEF ChoiceInv, ChoiceTypeOK
<1>3. (\A d \in Savers : SaverOK(savers[d]))'
  BY <1>2 DEF SaverOK, OneKind, IsDefault
<1>4. (\A c \in Callers : CallerOK(callers[c]))'
  BY DEF ChoiceInv, KeepAll, CallerOK, StartPart, TablePart, AskedPart, ScheduleRight,
         StandsFor, ConfiguredFor
<1>5. (row # NoRow => OneKind(row))'
  BY DEF OneKind
<1> QED
  BY <1>1, <1>3, <1>4, <1>5 DEF ChoiceInv

LEMMA Normalized ==
  ASSUME NEW want \in Wants
  PROVE  LET choice == NormalizeUserRouteOverridePayload(want) IN
         choice \in StoredChoices /\ (OneKind(choice) \/ IsDefault(choice))
<1>1. want.client \in BOOLEAN /\ want.model \in Models \cup {NoModel} /\ want.rules \in RuleLists
  BY ChoiceAssumption
<1>2. <<>> \in RuleLists
  BY DEF RuleLists
<1> QED
  BY <1>1, <1>2 DEF NormalizeUserRouteOverridePayload, StoredChoices, OneKind, IsDefault

LEMMA SavesKeep ==
  ASSUME ChoiceInv, NEW s \in Savers, SaverSteps(s) PROVE ChoiceInv'
<1> DEFINE q == savers[s]
<1>1. /\ q \in SaverRecords /\ SaverOK(q) /\ row \in StoredChoices \cup {NoRow}
      /\ row # NoRow => OneKind(row)
  BY DEF ChoiceInv, ChoiceTypeOK
<1>2. q.want \in StoredChoices /\ saves \in Nat /\ route \in Rows
  BY <1>1, ChoiceAssumption DEF SaverRecords, ChoiceInv, ChoiceTypeOK
<1>3. ASSUME NEW at \in {"idle", "find"}, SaverGoes(s, at), at = "find" => OneKind(q.want),
             row' \in {row, NoRow}, KeepAll, saves' = saves
      PROVE  ChoiceInv'
  <2> DEFINE p == [q EXCEPT !.at = at]
  <2>1. p \in SaverRecords /\ p.at = at /\ p.want = q.want
    BY <1>1 DEF SaverRecords
  <2>2. SaverOK(p)
    BY <1>3, <2>1 DEF SaverOK
  <2>3. savers' = [savers EXCEPT ![s] = p]
    BY <1>3 DEF SaverGoes, ChoiceInv, ChoiceTypeOK
  <2> QED
    BY <1>1, <1>2, <1>3, <2>1, <2>2, <2>3, SaverStep
<1>4. CASE SaveRead(s)
  <2>1. PICK want \in Wants :
           savers' = [savers EXCEPT ![s] =
              [q EXCEPT !.at = "judge", !.given = want, !.table = route,
                        !.want = NormalizeUserRouteOverridePayload(want)]]
    BY <1>4 DEF SaveRead
  <2> DEFINE choice == NormalizeUserRouteOverridePayload(want)
             p == [q EXCEPT !.at = "judge", !.given = want, !.table = route, !.want = choice]
  <2>2. choice \in StoredChoices /\ (OneKind(choice) \/ IsDefault(choice))
    BY Normalized
  <2>3. savers' = [savers EXCEPT ![s] = p]
    BY <2>1
  <2> HIDE DEF choice
  <2>4. p \in SaverRecords /\ p.at = "judge" /\ p.want = choice
    BY <1>1, <1>2, <2>2 DEF SaverRecords
  <2> HIDE DEF p
  <2>5. SaverOK(p)
    BY <2>2, <2>4 DEF SaverOK
  <2>6. KeepAll /\ row' = row /\ saves' \in Nat
    BY <1>2, <1>4 DEF SaveRead
  <2> QED
    BY <1>1, <2>3, <2>4, <2>5, <2>6, SaverStep
<1>5. CASE SaveJudge(s)
  <2> DEFINE table == ResolveActiveRouteProperties(q.table,
                          FindActiveSchedule(q.table.schedules, now))
             at == IF IsDefault(q.want) THEN "delete"
                   ELSE IF q.want.client THEN "find" ELSE "check"
             p == [q EXCEPT !.table = table, !.at = at]
  <2>1. q.at = "judge" /\ KeepAll /\ row' = row /\ saves' = saves
    BY <1>5 DEF SaveJudge
  <2>2. CASE SaverGoes(s, "idle")
    BY <1>3, <2>1, <2>2
  <2>3. CASE savers' = [savers EXCEPT ![s].table = table, ![s].at = at]
    <3>1. table \in Rows
      <4>1. q.table \in Rows /\ q.table.schedules \in Seq(Schedules) /\ now \in Nat
        BY <1>1, ChoiceAssumption DEF SaverRecords, Rows, ChoiceInv, ChoiceTypeOK
      <4>2. FindActiveSchedule(q.table.schedules, now) \in Schedules \cup {NoSchedule}
        BY <4>1, FirstDueFound
      <4> QED
        BY <4>1, <4>2, ScheduledRow
    <3>2. at \in {"delete", "find", "check"} /\ (at # "delete" => OneKind(q.want))
      BY <1>1, <2>1 DEF SaverOK
    <3> HIDE DEF table, at
    <3>3. savers' = [savers EXCEPT ![s] = p]
      BY <2>3 DEF ChoiceInv, ChoiceTypeOK
    <3>4. p \in SaverRecords /\ p.at = at /\ p.want = q.want
      BY <1>1, <3>1, <3>2 DEF SaverRecords
    <3> HIDE DEF p
    <3>5. SaverOK(p)
      BY <3>2, <3>4 DEF SaverOK
    <3> QED
      BY <1>1, <1>2, <2>1, <3>3, <3>4, <3>5, SaverStep
  <2> QED
    BY <1>5, <2>2, <2>3 DEF SaveJudge
<1>6. CASE SaveDelete(s)
  BY <1>3, <1>6 DEF SaveDelete
<1>7. CASE SaveCheck(s)
  <2>1. q.at = "check" /\ KeepAll /\ row' = row /\ saves' = saves
        /\ (SaverGoes(s, "find") \/ SaverGoes(s, "idle"))
    BY <1>7 DEF SaveCheck
  <2>2. OneKind(q.want)
    BY <1>1, <2>1 DEF SaverOK
  <2> QED
    BY <1>3, <2>1, <2>2
<1>8. CASE SaveFind(s)
  <2> DEFINE found == IF row = NoRow THEN -1 ELSE row.id
             p == [q EXCEPT !.at = "write", !.found = found]
  <2>1. q.at = "find" /\ KeepAll /\ row' = row /\ saves' = saves
        /\ savers' = [savers EXCEPT ![s].at = "write", ![s].found = found]
    BY <1>8 DEF SaveFind
  <2>2. OneKind(q.want)
    BY <1>1, <2>1 DEF SaverOK
  <2>3. found \in {-1} \cup Nat
    BY <1>1 DEF StoredChoices
  <2> HIDE DEF found
  <2>4. savers' = [savers EXCEPT ![s] = p]
    BY <2>1 DEF ChoiceInv, ChoiceTypeOK
  <2>5. p \in SaverRecords /\ p.at = "write" /\ p.want = q.want
    BY <1>1, <2>3 DEF SaverRecords
  <2> HIDE DEF p
  <2>6. SaverOK(p)
    BY <2>2, <2>5 DEF SaverOK
  <2> QED
    BY <1>1, <1>2, <2>1, <2>4, <2>5, <2>6, SaverStep
<1>9. CASE SaveWrite(s)
  <2> DEFINE p == [q EXCEPT !.at = "idle"]
  <2>1. q.at = "write" /\ KeepAll /\ saves' = saves
        /\ row' \in {row, Updated(row, q.want), [q.want EXCEPT !.id = saves]}
        /\ (row' = Updated(row, q.want) => row # NoRow \/ row' = row
                                           \/ row' = [q.want EXCEPT !.id = saves])
        /\ SaverGoes(s, "idle")
    BY <1>9 DEF SaveWrite
  <2>2. OneKind(q.want)
    BY <1>1, <2>1 DEF SaverOK
  <2>3. row # NoRow => Updated(row, q.want) \in StoredChoices /\ OneKind(Updated(row, q.want))
    BY <1>1, <1>2, <2>2 DEF Updated, StoredChoices, OneKind
  <2>4. [q.want EXCEPT !.id = saves] \in StoredChoices /\ OneKind([q.want EXCEPT !.id = saves])
    BY <1>2, <2>2 DEF StoredChoices, OneKind
  <2>5. row' \in StoredChoices \cup {NoRow} /\ (row' # NoRow => OneKind(row'))
    BY <1>1, <2>1, <2>3, <2>4
  <2>6. p \in SaverRecords /\ p.at = "idle" /\ savers' = [savers EXCEPT ![s] = p]
    BY <1>1, <2>1 DEF SaverRecords, SaverGoes, ChoiceInv, ChoiceTypeOK
  <2> HIDE DEF p
  <2>7. SaverOK(p)
    BY <2>6 DEF SaverOK
  <2> QED
    BY <1>2, <2>1, <2>5, <2>6, <2>7, SaverStep
<1> QED
  BY <1>4, <1>5, <1>6, <1>7, <1>8, <1>9 DEF SaverSteps

LEMMA ChoiceStep == ASSUME ChoiceInv, [ChoiceNext]_choiceVars PROVE ChoiceInv'
<1> USE DEF ChoiceInv, ChoiceTypeOK, SaverOK, OneKind, IsDefault, CallerOK, StartPart, TablePart,
            AskedPart, ScheduleRight, StandsFor, ConfiguredFor
<1>1. ASSUME NEW c \in Callers, CallerSteps(c) PROVE ChoiceInv'
  <2> USE <1>1
  <2> HIDE DEF ChoiceInv
  <2> QED
    BY ReadRouteKeeps, StartKeeps, ReadChoiceKeeps, CheckFixedModelKeeps, DecideKeeps,
       LeaveCallerKeeps DEF CallerSteps
<1>2. ASSUME NEW s \in Savers, SaverSteps(s) PROVE ChoiceInv'
  BY <1>2, SavesKeep
<1>3. CASE SaveRoute
  BY <1>3 DEF SaveRoute
<1>4. CASE SaveModels
  BY <1>4 DEF SaveModels
<1>5. CASE Tick
  BY <1>5 DEF Tick
<1>6. CASE UNCHANGED choiceVars
  BY <1>6 DEF choiceVars
<1> QED
  BY <1>1, <1>2, <1>3, <1>4, <1>5, <1>6 DEF ChoiceNext

\* The inductive invariant of the choice of a model (authorization.ts, userRouteController.ts).
THEOREM ChoiceInvariant == ChoiceSpec => []ChoiceInv
<1>1. ChoiceInv /\ [ChoiceNext]_choiceVars => ChoiceInv'
  BY ChoiceStep
<1> QED
  BY ChoiceInitInv, <1>1, PTL DEF ChoiceSpec

\* Whatever a user's choice was when it was read, the request keeps to it, for every table and
\* every change of the routes, the models and the choice meanwhile.
THEOREM ChoicesStand == ChoiceSpec => []ChoiceStands
<1>1. ChoiceInv => ChoiceStands
  BY DEF ChoiceInv, ChoiceStands, CallerOK, AskedPart, StandsFor
<1> QED
  BY ChoiceInvariant, <1>1, PTL

\* A request is asked of nothing the table it went by does not name, but a model the user fixed
\* or the rules of the user for a row without layers.
THEOREM PairsConfigured == ChoiceSpec => []PairConfigured
<1>1. ChoiceInv => PairConfigured
  BY DEF ChoiceInv, PairConfigured, CallerOK, AskedPart, ConfiguredFor
<1> QED
  BY ChoiceInvariant, <1>1, PTL

\* No weights and no roll make a request begin at a layer that has none
\* (selectClassicInitialTargetIndex).
THEOREM FirstLayersWeighted == ChoiceSpec => []FirstLayerWeighted
<1>1. ChoiceInv => FirstLayerWeighted
  BY DEF ChoiceInv, FirstLayerWeighted, CallerOK, StartPart, RightLayer
<1> QED
  BY ChoiceInvariant, <1>1, PTL

\* The two days findActiveSchedule tries are enough for windows of any days and hours.
THEOREM SchedulesInForce == ChoiceSpec => []ScheduleInForce
<1>1. ChoiceInv => ScheduleInForce
  BY DEF ChoiceInv, ScheduleInForce, CallerOK, StartPart, ScheduleRight
<1> QED
  BY ChoiceInvariant, <1>1, PTL

\* However the calls of a user overlap, the row they leave holds one kind of choice
\* (overrideUserRoute).
THEOREM ChoicesOfOneKind == ChoiceSpec => []ChoicesExclusive
<1>1. ASSUME OneKind(row)
      PROVE  \E kind : {k \in {"client", "fixed", "rules"} :
                           \/ k = "client" /\ row.client
                           \/ k = "fixed" /\ row.model # NoModel
                           \/ k = "rules" /\ row.rules # <<>>} = {kind}
  <2> DEFINE K == {k \in {"client", "fixed", "rules"} :
                      \/ k = "client" /\ row.client
                      \/ k = "fixed" /\ row.model # NoModel
                      \/ k = "rules" /\ row.rules # <<>>}
  <2>1. row.client /\ row.model = NoModel /\ row.rules = <<>> => K = {"client"}
    OBVIOUS
  <2>2. ~row.client /\ row.model # NoModel /\ row.rules = <<>> => K = {"fixed"}
    OBVIOUS
  <2>3. ~row.client /\ row.model = NoModel /\ row.rules # <<>> => K = {"rules"}
    OBVIOUS
  <2> QED
    BY <1>1, <2>1, <2>2, <2>3 DEF OneKind
<1>2. ChoiceInv => ChoicesExclusive
  BY <1>1, FS_Singleton DEF ChoiceInv, ChoicesExclusive
<1> QED
  BY ChoiceInvariant, <1>2, PTL

\* ModelChosen: the pair, the layer, the schedule and the kind of choice of every request are
\* the ones its table and its user allow.
THEOREM ModelsAreChosen == ChoiceSpec => []ModelChosen
<1>1. ChoiceStands /\ PairConfigured /\ FirstLayerWeighted /\ ScheduleInForce /\ ChoicesExclusive
        => ModelChosen
  BY DEF ModelChosen
<1> QED
  BY <1>1, ChoicesStand, PairsConfigured, FirstLayersWeighted, SchedulesInForce, ChoicesOfOneKind,
     PTL

=============================================================================
