------------------------------ MODULE Accounts ------------------------------
(***************************************************************************)
(* Users, the group each belongs to, their API keys and the invite code by     *)
(* which they register (routes/auth.ts, users.ts, groups.ts, apiKeys.ts,       *)
(* inviteCodes.ts), and the repair of the memberships at every start           *)
(* (startup/migrations.ts, ensureExclusiveUserGroupMembership).                *)
(*                                                                         *)
(* A handler is a few SQL statements with an await between them: each is a     *)
(* step here, and the calls of several administrators and users interleave.    *)
(* Only register uses a transaction.                                          *)
(***************************************************************************)
EXTENDS Naturals, Sequences, FiniteSets

CONSTANTS
    Callers, Users, Groups,
    DefaultGroup,        \* the group with isDefault, which is never deleted
    MaxUses,             \* of the invite code
    ChunkSize,           \* memberships one DELETE of the repair takes (500)
    MaxCalls, MaxKeys, MaxRestarts    \* bounds

ASSUME DefaultAssumption == DefaultGroup \in Groups
ASSUME ChunkAssumption == ChunkSize \in Nat \ {0}
ASSUME CountsAssumption == Users # {} /\ MaxUses \in Nat /\ MaxKeys \in Nat \ {0}

VARIABLES
    users,      \* status of each user: "absent" before the row exists
    groups,     \* rows of user_groups
    members,    \* rows of user_group_members, <<user, group>>
    indexed,    \* the index unq_user_one_group exists
    keys,       \* the API keys of each user, in order of creation: their status
    invite,     \* the invite code: its usedCount and status
    calls,      \* what each caller's request is doing
    stage,       \* "repair", "index" or "up"
    surplus,    \* memberships the repair still has to delete
    made,       \* number of calls so far
    restarts,
    excused,    \* history: users someone removed from their group, or whose
                \* call a restart cut between two statements
    clashed     \* history: users with two overlapping calls about their keys

accountVars == <<users, groups, members, indexed, keys, invite, calls, stage,
                 surplus, made, restarts, excused, clashed>>

-----------------------------------------------------------------------------
KeyStatus == {"active", "disabled", "revoked"}
Ops == {"idle", "register", "createUser", "patchUser", "deleteUser", "addMember",
        "removeMember", "deleteGroup", "createKey", "patchKey", "revokeKey"}
KeyOps == {"createKey", "patchKey", "revokeKey", "deleteUser"}

\* A request: the handler, the statement it is at, its arguments, what it read.
Call == [op : Ops, at : {"read", "check", "clear", "write", "join"},
         user : Users, group : Groups, key : 1..MaxKeys, status : KeyStatus,
         saw : SUBSET Groups, used : 0..MaxUses]

Resting == [op |-> "idle", at |-> "read", user |-> CHOOSE u \in Users : TRUE,
            group |-> DefaultGroup, key |-> 1, status |-> "active",
            saw |-> {}, used |-> 0]

GroupsOf(u) == {g \in Groups : <<u, g>> \in members}
Unrevoked(u) == {i \in DOMAIN keys[u] : keys[u][i] # "revoked"}

AccountTypeOK ==
    /\ users \in [Users -> {"absent", "active", "disabled", "deleted"}]
    /\ groups \subseteq Groups /\ DefaultGroup \in groups
    /\ members \subseteq Users \X Groups
    /\ indexed \in BOOLEAN
    /\ \A u \in Users : Len(keys[u]) <= MaxKeys /\ \A i \in DOMAIN keys[u] : keys[u][i] \in KeyStatus
    /\ invite \in [used : 0..MaxUses, active : BOOLEAN]
    /\ calls \in [Callers -> Call]
    /\ stage \in {"repair", "index", "up"} /\ surplus \subseteq members

\* A database of a version without the index, whose users are in one or several groups.
AccountInit ==
    /\ users \in [Users -> {"absent", "active"}]
    /\ groups = Groups
    /\ members \in SUBSET (Users \X Groups)
    /\ \A u \in Users : GroupsOf(u) = {} <=> users[u] = "absent"
    /\ indexed = FALSE
    /\ keys = [u \in Users |-> <<>>]
    /\ invite = [used |-> 0, active |-> TRUE]
    /\ calls = [c \in Callers |-> Resting]
    /\ stage = "repair" /\ surplus = {}
    /\ made = 0 /\ restarts = 0 /\ excused = {} /\ clashed = {}

-----------------------------------------------------------------------------
(* The start: at most one group per user, a custom group before the default.  *)

\* One membership is kept of each user; among several custom groups the one
\* with the latest createdAt, which is not modelled.
KeepOne(u, kept) ==
    /\ kept \in GroupsOf(u)
    /\ kept = DefaultGroup => GroupsOf(u) = {DefaultGroup}

Repair ==
    /\ stage = "repair"
    /\ \E kept \in [Users -> Groups] :
          /\ \A u \in Users : GroupsOf(u) # {} => KeepOne(u, kept[u])
          /\ \A u \in Users : GroupsOf(u) = {} => kept[u] = DefaultGroup
          /\ surplus' = {m \in members : m[2] # kept[m[1]]}
    /\ stage' = "index"
    /\ UNCHANGED <<users, groups, members, indexed, keys, invite, calls, made,
                   restarts, excused, clashed>>

\* DELETE ... WHERE id IN (a chunk of the rows)
RepairChunk ==
    /\ stage = "index" /\ surplus # {}
    /\ \E chunk \in SUBSET surplus :
          /\ Cardinality(chunk) = IF Cardinality(surplus) < ChunkSize
                                  THEN Cardinality(surplus) ELSE ChunkSize
          /\ members' = members \ chunk
          /\ surplus' = surplus \ chunk
    /\ UNCHANGED <<users, groups, indexed, keys, invite, calls, stage, made,
                   restarts, excused, clashed>>

\* CREATE UNIQUE INDEX, whose failure is ignored; then the server listens.
CreateIndex ==
    /\ stage = "index" /\ surplus = {}
    /\ indexed' = \A u \in Users : Cardinality(GroupsOf(u)) <= 1
    /\ stage' = "up"
    /\ UNCHANGED <<users, groups, members, keys, invite, calls, surplus, made,
                   restarts, excused, clashed>>

\* A call cut between the DELETE and the INSERT of a membership is not resumed.
Restart ==
    /\ restarts < MaxRestarts
    /\ restarts' = restarts + 1
    /\ stage' = "repair" /\ surplus' = {}
    /\ excused' = excused \cup {calls[c].user : c \in {d \in Callers :
                       /\ calls[d].op \in {"addMember", "createUser"}
                       /\ calls[d].at \in {"write", "join"}}}
    /\ calls' = [c \in Callers |-> Resting]
    /\ UNCHANGED <<users, groups, members, indexed, keys, invite, made, clashed>>

-----------------------------------------------------------------------------
(* Calls.                                                                    *)

AboutKeysOf(u) == {c \in Callers : calls[c].op \in KeyOps /\ calls[c].user = u}

\* A request arrives; the handler has not run a statement yet.
Arrive(c, op, u) ==
    /\ stage = "up" /\ calls[c].op = "idle" /\ made < MaxCalls
    /\ made' = made + 1
    /\ \E g \in Groups, k \in 1..MaxKeys, s \in KeyStatus :
          /\ op \in {"addMember", "removeMember", "deleteGroup"} \/ g = DefaultGroup
          /\ op \in {"patchKey", "revokeKey"} \/ k = 1
          /\ op \in {"patchKey", "patchUser"} \/ s = "active"
          /\ op = "patchUser" => s # "revoked"
          /\ calls' = [calls EXCEPT ![c] = [Resting EXCEPT !.op = op, !.user = u,
                                            !.group = g, !.key = k, !.status = s]]
    /\ clashed' = IF op \in KeyOps /\ AboutKeysOf(u) # {} THEN clashed \cup {u} ELSE clashed
    /\ UNCHANGED <<users, groups, members, indexed, keys, invite, stage, surplus,
                   restarts, excused>>

At(c, op, at) == stage = "up" /\ calls[c].op = op /\ calls[c].at = at
Goes(c, at) == calls' = [calls EXCEPT ![c].at = at]
Ends(c) == calls' = [calls EXCEPT ![c] = Resting]

\* Mutant: the index is not there and a second group is accepted.
JoinedAnyway(u, g) == members \cup {<<u, g>>}

\* INSERT INTO user_group_members; the index refuses a second group of a user.
Joined(u, g) == IF indexed /\ GroupsOf(u) # {} THEN members ELSE members \cup {<<u, g>>}

-----------------------------------------------------------------------------
(* POST /api/admin/groups/:id/members moves a user to a group.                *)

AddMemberRead(c) ==
    /\ At(c, "addMember", "read")
    /\ IF calls[c].group \in groups /\ users[calls[c].user] # "absent"
       THEN Goes(c, "check") ELSE Ends(c)
    /\ UNCHANGED <<users, groups, members, indexed, keys, invite, stage, surplus,
                   made, restarts, excused, clashed>>

AddMemberCheck(c) ==
    /\ At(c, "addMember", "check")
    /\ LET saw == GroupsOf(calls[c].user) IN
       calls' = [calls EXCEPT ![c].saw = saw,
                              ![c].at = IF saw \ {calls[c].group} # {} THEN "clear" ELSE "write"]
    /\ UNCHANGED <<users, groups, members, indexed, keys, invite, stage, surplus,
                   made, restarts, excused, clashed>>

\* The memberships deleted are those of now, not those it read.
AddMemberClear(c) ==
    /\ At(c, "addMember", "clear")
    /\ members' = {m \in members : m[1] = calls[c].user => m[2] = calls[c].group}
    /\ Goes(c, "write")
    /\ UNCHANGED <<users, groups, indexed, keys, invite, stage, surplus, made,
                   restarts, excused, clashed>>

AddMemberWrite(c) ==
    /\ At(c, "addMember", "write")
    /\ members' = IF calls[c].group \in calls[c].saw THEN members
                  ELSE Joined(calls[c].user, calls[c].group)
    /\ Ends(c)
    /\ UNCHANGED <<users, groups, indexed, keys, invite, stage, surplus, made,
                   restarts, excused, clashed>>

RemoveMember(c) ==
    /\ At(c, "removeMember", "read")
    /\ IF calls[c].group \in groups
       THEN /\ members' = members \ {<<calls[c].user, calls[c].group>>}
            /\ excused' = excused \cup {calls[c].user}
       ELSE UNCHANGED <<members, excused>>
    /\ Ends(c)
    /\ UNCHANGED <<users, groups, indexed, keys, invite, stage, surplus, made,
                   restarts, clashed>>

-----------------------------------------------------------------------------
(* DELETE /api/admin/groups/:id: the memberships, then the group.             *)

DeleteGroupMembers(c) ==
    /\ At(c, "deleteGroup", "read")
    /\ IF calls[c].group \in groups \ {DefaultGroup}
       THEN /\ members' = {m \in members : m[2] # calls[c].group}
            /\ excused' = excused \cup {u \in Users : <<u, calls[c].group>> \in members}
            /\ Goes(c, "write")
       ELSE Ends(c) /\ UNCHANGED <<members, excused>>
    /\ UNCHANGED <<users, groups, indexed, keys, invite, stage, surplus, made,
                   restarts, clashed>>

DeleteGroup(c) ==
    /\ At(c, "deleteGroup", "write")
    /\ groups' = groups \ {calls[c].group}
    /\ Ends(c)
    /\ UNCHANGED <<users, members, indexed, keys, invite, stage, surplus, made,
                   restarts, excused, clashed>>

-----------------------------------------------------------------------------
(* New users: by an administrator, or with an invite code.                    *)

NewUserRead(c, op) ==
    /\ At(c, op, "read")
    /\ IF users[calls[c].user] = "absent" THEN Goes(c, "check") ELSE Ends(c)
    /\ UNCHANGED <<users, groups, members, indexed, keys, invite, stage, surplus,
                   made, restarts, excused, clashed>>

\* The password is hashed, then the row is inserted; the name is unique.
CreateUserInsert(c) ==
    /\ At(c, "createUser", "check")
    /\ IF users[calls[c].user] = "absent"
       THEN users' = [users EXCEPT ![calls[c].user] = "active"] /\ Goes(c, "join")
       ELSE UNCHANGED users /\ Ends(c)
    /\ UNCHANGED <<groups, members, indexed, keys, invite, stage, surplus, made,
                   restarts, excused, clashed>>

CreateUserJoin(c) ==
    /\ At(c, "createUser", "join")
    /\ members' = Joined(calls[c].user, DefaultGroup)
    /\ Ends(c)
    /\ UNCHANGED <<users, groups, indexed, keys, invite, stage, surplus, made,
                   restarts, excused, clashed>>

RegisterCheck(c) ==
    /\ At(c, "register", "check")
    /\ IF invite.active /\ invite.used < MaxUses
       THEN calls' = [calls EXCEPT ![c].at = "write", ![c].used = invite.used]
       ELSE Ends(c)
    /\ UNCHANGED <<users, groups, members, indexed, keys, invite, stage, surplus,
                   made, restarts, excused, clashed>>

\* One transaction; a user of that name rolls it back.  usedCount becomes what
\* the call read before hashing the password, plus one.
RegisterWrite(c) ==
    /\ At(c, "register", "write")
    /\ IF users[calls[c].user] = "absent"
       THEN /\ users' = [users EXCEPT ![calls[c].user] = "active"]
            /\ members' = Joined(calls[c].user, DefaultGroup)
            /\ invite' = [invite EXCEPT !.used = calls[c].used + 1]
       ELSE UNCHANGED <<users, members, invite>>
    /\ Ends(c)
    /\ UNCHANGED <<groups, indexed, keys, stage, surplus, made, restarts, excused, clashed>>

\* PATCH /api/admin/invite-codes/:id with a status
PatchInvite ==
    /\ stage = "up" /\ made < MaxCalls /\ made' = made + 1
    /\ invite' = [invite EXCEPT !.active = ~@]
    /\ UNCHANGED <<users, groups, members, indexed, keys, calls, stage, surplus,
                   restarts, excused, clashed>>

-----------------------------------------------------------------------------
(* PATCH and DELETE /api/admin/users/:id                                      *)

PatchUser(c) ==
    /\ At(c, "patchUser", "read")
    /\ users' = IF users[calls[c].user] = "absent" THEN users
                ELSE [users EXCEPT ![calls[c].user] = calls[c].status]
    /\ Ends(c)
    /\ UNCHANGED <<groups, members, indexed, keys, invite, stage, surplus, made,
                   restarts, excused, clashed>>

\* Mutant: the disabled keys are left.
RevokeActive(u) ==
    [keys EXCEPT ![u] = [i \in DOMAIN @ |-> IF @[i] = "active" THEN "revoked" ELSE @[i]]]

\* UPDATE api_keys SET status = 'revoked' WHERE userId = ...
RevokeAll(u) == [keys EXCEPT ![u] = [i \in DOMAIN @ |-> "revoked"]]

DeleteUserKeys(c) ==
    /\ At(c, "deleteUser", "read")
    /\ IF users[calls[c].user] # "absent"
       THEN keys' = RevokeAll(calls[c].user) /\ Goes(c, "write")
       ELSE UNCHANGED keys /\ Ends(c)
    /\ UNCHANGED <<users, groups, members, indexed, invite, stage, surplus, made,
                   restarts, excused, clashed>>

DeleteUser(c) ==
    /\ At(c, "deleteUser", "write")
    /\ users' = [users EXCEPT ![calls[c].user] = "deleted"]
    /\ Ends(c)
    /\ UNCHANGED <<groups, members, indexed, keys, invite, stage, surplus, made,
                   restarts, excused, clashed>>

-----------------------------------------------------------------------------
(* API keys: a new one revokes the others of its user.                        *)

CreateKeyRead(c) ==
    /\ At(c, "createKey", "read")
    /\ IF users[calls[c].user] = "absent" \/ Len(keys[calls[c].user]) = MaxKeys THEN Ends(c)
       ELSE Goes(c, IF Unrevoked(calls[c].user) # {} THEN "clear" ELSE "write")
    /\ UNCHANGED <<users, groups, members, indexed, keys, invite, stage, surplus,
                   made, restarts, excused, clashed>>

CreateKeyClear(c) ==
    /\ At(c, "createKey", "clear")
    /\ keys' = RevokeAll(calls[c].user)
    /\ Goes(c, "write")
    /\ UNCHANGED <<users, groups, members, indexed, invite, stage, surplus, made,
                   restarts, excused, clashed>>

CreateKeyInsert(c) ==
    /\ At(c, "createKey", "write")
    /\ Len(keys[calls[c].user]) < MaxKeys
    /\ keys' = [keys EXCEPT ![calls[c].user] = Append(@, "active")]
    /\ Ends(c)
    /\ UNCHANGED <<users, groups, members, indexed, invite, stage, surplus, made,
                   restarts, excused, clashed>>

\* A revoked key keeps its status, by what the first statement reads.
ChangeKeyRead(c, op) ==
    /\ At(c, op, "read")
    /\ LET mine == keys[calls[c].user] IN
       IF /\ calls[c].key \in DOMAIN mine
          /\ mine[calls[c].key] = "revoked" => op = "patchKey" /\ calls[c].status = "revoked"
       THEN Goes(c, "write") ELSE Ends(c)
    /\ UNCHANGED <<users, groups, members, indexed, keys, invite, stage, surplus,
                   made, restarts, excused, clashed>>

ChangeKeyWrite(c, op) ==
    /\ At(c, op, "write")
    /\ keys' = [keys EXCEPT ![calls[c].user][calls[c].key] =
                    IF op = "revokeKey" THEN "revoked" ELSE calls[c].status]
    /\ Ends(c)
    /\ UNCHANGED <<users, groups, members, indexed, invite, stage, surplus, made,
                   restarts, excused, clashed>>

-----------------------------------------------------------------------------
AccountNext ==
    \/ Repair \/ RepairChunk \/ CreateIndex \/ Restart \/ PatchInvite
    \/ \E c \in Callers, op \in Ops \ {"idle"}, u \in Users : Arrive(c, op, u)
    \/ \E c \in Callers :
          \/ AddMemberRead(c) \/ AddMemberCheck(c) \/ AddMemberClear(c) \/ AddMemberWrite(c)
          \/ RemoveMember(c) \/ DeleteGroupMembers(c) \/ DeleteGroup(c)
          \/ NewUserRead(c, "createUser") \/ CreateUserInsert(c) \/ CreateUserJoin(c)
          \/ NewUserRead(c, "register") \/ RegisterCheck(c) \/ RegisterWrite(c)
          \/ PatchUser(c) \/ DeleteUserKeys(c) \/ DeleteUser(c)
          \/ CreateKeyRead(c) \/ CreateKeyClear(c) \/ CreateKeyInsert(c)
          \/ ChangeKeyRead(c, "patchKey") \/ ChangeKeyWrite(c, "patchKey")
          \/ ChangeKeyRead(c, "revokeKey") \/ ChangeKeyWrite(c, "revokeKey")

AccountSpec == AccountInit /\ [][AccountNext]_accountVars

-----------------------------------------------------------------------------
(* Properties.                                                               *)

\* While the server listens every user is in exactly one group, whatever moves
\* of theirs overlap, except between the statements of such a move; only a
\* removal, a group's deletion or a restart in the middle of a call leaves a
\* user in none.
InOneGroup ==
    stage = "up" => \A u \in Users :
        /\ Cardinality(GroupsOf(u)) <= 1
        /\ \/ users[u] = "absent" \/ u \in excused \/ GroupsOf(u) # {}
           \/ \E c \in Callers : calls[c].op \in {"addMember", "createUser"}
                                 /\ calls[c].user = u /\ calls[c].at \in {"write", "join"}

\* Without overlapping calls about the keys of a user, at most one of them is
\* not revoked: a disabled one cannot come back beside its successor.
OneUnrevokedKey ==
    \A u \in Users \ clashed : Cardinality(Unrevoked(u)) <= 1

\* What every account keeps through interleaved calls: both of the above.
AccountsConsistent == InOneGroup /\ OneUnrevokedKey

=============================================================================
