------------------------- MODULE SocialGraphProofs -------------------------
(***************************************************************************)
(* Proofs about friends, groups and requests, for every set of users and   *)
(* workers.  IInv is inductive: beside the properties themselves it says   *)
(* what a transaction in progress still knows about the row it has locked. *)
(***************************************************************************)
EXTENDS SocialGraph, FiniteSetTheorems, SequenceTheorems, TLAPS

RowType ==
  [type : RequestTypes, requester : Users, target : Users \cup {NoUser},
   status : {"pending", "expired"} \cup Decisions,
   held : BOOLEAN, lapsed : BOOLEAN, resolvedBy : Users \cup {NoUser}]

\* Friend requests and invitations name another user.
RowOK(r) ==
  /\ r \in RowType
  /\ r.type = "friend" => r.target \in Users /\ r.requester # r.target
  /\ r.type = "group_invite" => r.target \in Users

RowsOK ==
  /\ requests \in Seq(RowType)
  /\ Len(requests) <= MaxRequests
  /\ \A i \in DOMAIN requests : RowOK(requests[i])

Resolving == {"resolve_friend", "resolve_join", "resolve_invite"}

TxType ==
  [op : {"idle", "add_friend", "remove_friend", "create_group", "join_group",
         "invite", "kick", "set_role"} \cup Resolving,
   actor : Users \cup {NoUser}, target : Users \cup {NoUser}, id : Nat,
   arg : {"", "absent", "live", "deleted"} \cup Roles \cup Decisions]

\* What DataForwardingService has checked of the request a worker holds.
TxOK(c) ==
  /\ c \in TxType
  /\ c.op # "idle" => c.actor \in Users
  /\ c.op \in {"add_friend", "remove_friend", "invite", "kick"} =>
       c.target \in Users /\ c.target # c.actor
  /\ c.op = "set_role" => c.target \in Users /\ c.arg \in {"admin", "member"}
  /\ c.op \in Resolving <=> c.id # 0

\* What resolving a request has read of its row.
Reads(c, r) ==
  /\ r.type = ResolveType[c.op]
  /\ r.status = "pending"
  /\ c.arg \in Decisions
  /\ c.arg = "accepted" /\ r.type # "group_join" => c.actor = r.target

\* A locked row stays as the one transaction that locked it has read it.
LocksOK ==
  /\ \A w \in Workers : tx[w].id # 0 =>
       tx[w].id \in DOMAIN requests /\ Reads(tx[w], requests[tx[w].id])
  /\ \A v, w \in Workers : tx[v].id # 0 /\ tx[v].id = tx[w].id => v = w

Busy == {w \in Workers : tx[w] # Idle}

\* A request that is not being worked on is still to come or done.
OpsOK == ops \in Nat /\ ops + Cardinality(Busy) <= MaxOps

TablesOK ==
  /\ group \in [state : {"absent", "live", "deleted"},
                owner : Users \cup {NoUser}]
  /\ role \in [Users -> Roles \cup {"none"}]
  /\ friends \subseteq Users \X Users
  /\ \A p \in friends : p[1] # p[2]
  /\ stale \in BOOLEAN

TxsOK == tx \in [Workers -> TxType] /\ \A w \in Workers : TxOK(tx[w])

IInv ==
  /\ TablesOK
  /\ RowsOK
  /\ TxsOK
  /\ LocksOK
  /\ OpsOK
  /\ OneOwner
  /\ OnePending

-----------------------------------------------------------------------------
USE SocialAssumption

\* A function on 1 .. n is a sequence of length n.
LEMMA FunctionIsSeq ==
    ASSUME NEW S, NEW n \in Nat, NEW f \in [1 .. n -> S]
    PROVE  f \in Seq(S) /\ Len(f) = n
<1>1. f \in Seq(S)
  BY SeqDef
<1> QED
  BY <1>1, LenProperties

\* The number of busy workers when one of them has finished or begun.
LEMMA BusyCount ==
    ASSUME TxsOK, NEW w \in Workers, NEW c,
           tx' = [tx EXCEPT ![w] = c]
    PROVE  /\ Cardinality(Busy) \in Nat
           /\ tx[w] = Idle /\ c # Idle =>
                Cardinality(Busy') = Cardinality(Busy) + 1
           /\ tx[w] # Idle /\ c = Idle =>
                Cardinality(Busy') = Cardinality(Busy) - 1
<1>1. IsFiniteSet(Busy)
  BY FS_Subset DEF Busy
<1>2. ASSUME tx[w] = Idle, c # Idle
      PROVE  Busy' = Busy \cup {w} /\ w \notin Busy
  BY <1>2 DEF Busy, TxsOK
<1>3. ASSUME tx[w] # Idle, c = Idle
      PROVE  Busy' = Busy \ {w} /\ w \in Busy
  BY <1>3 DEF Busy, TxsOK
<1>4. Cardinality(Busy) \in Nat
  BY <1>1, FS_CardinalityType
<1> QED
  BY <1>1, <1>2, <1>3, <1>4, FS_AddElement, FS_RemoveElement

\* The types a resolution looks for.
LEMMA ResolveTypes ==
    /\ DOMAIN ResolveType = Resolving
    /\ ResolveType["resolve_friend"] = "friend"
    /\ ResolveType["resolve_join"] = "group_join"
    /\ ResolveType["resolve_invite"] = "group_invite"
BY DEF ResolveType, Resolving

\* A worker at rest.
LEMMA IdleFields == TxOK(Idle) /\ Idle \in TxType /\ Idle.op = "idle" /\ Idle.id = 0
BY DEF TxOK, Idle, ClientRequest, TxType, Resolving

\* The initial state satisfies the invariant.
LEMMA InitIInv == Init => IInv
<1> SUFFICES ASSUME Init PROVE IInv
  OBVIOUS
<1>1. TxsOK /\ LocksOK
  BY DEF Init, TxsOK, TxOK, LocksOK, Idle, ClientRequest, TxType, Resolving
<1>2. Busy = {}
  BY DEF Init, Busy
<1>3. OpsOK
  BY <1>2, FS_EmptySet DEF Init, OpsOK
<1>4. RowsOK /\ OnePending
  BY DEF Init, RowsOK, OnePending
<1>5. TablesOK /\ OneOwner
  BY DEF Init, TablesOK, WellFormed, OneOwner, Roles
<1> QED
  BY <1>1, <1>3, <1>4, <1>5 DEF IInv

-----------------------------------------------------------------------------
\* Rows that are only closed, or marked as overdue, remain in order.
LEMMA RowsRewritten ==
    ASSUME RowsOK, OnePending,
           requests' \in Seq(RowType), Len(requests') = Len(requests),
           \A i \in DOMAIN requests :
             /\ requests'[i].type = requests[i].type
             /\ requests'[i].requester = requests[i].requester
             /\ requests'[i].target = requests[i].target
             /\ requests'[i].held <=> requests'[i].status = "pending"
             /\ requests'[i].held => requests[i].held
    PROVE  RowsOK' /\ OnePending' /\ DOMAIN requests' = DOMAIN requests
<1>1. DOMAIN requests' = DOMAIN requests
  BY LenProperties DEF RowsOK
<1>2. \A i \in DOMAIN requests : RowOK(requests'[i])
  <2> SUFFICES ASSUME NEW i \in DOMAIN requests PROVE RowOK(requests'[i])
    OBVIOUS
  <2>1. requests'[i] \in RowType
    BY <1>1, ElementOfSeq, LenProperties
  <2> QED
    BY <2>1 DEF RowsOK, RowOK
<1>3. \A i \in DOMAIN requests : ActiveKey(requests'[i]) = ActiveKey(requests[i])
  BY DEF ActiveKey, GroupRequestUserID
<1>4. RowsOK'
  BY <1>1, <1>2 DEF RowsOK
<1>5. OnePending'
  BY <1>1, <1>3 DEF OnePending
<1> QED
  BY <1>1, <1>4, <1>5

\* The locks when a worker has ended its transaction, if the rows that the
\* others have locked are what they were.
LEMMA LocksReleased ==
    ASSUME TxsOK, LocksOK, NEW w \in Workers,
           tx' = [tx EXCEPT ![w] = Idle],
           \A i \in DOMAIN requests :
             /\ i \in DOMAIN requests'
             /\ i # tx[w].id /\ Locked(i) => requests'[i] = requests[i]
    PROVE  TxsOK' /\ LocksOK'
<1>1. TxOK(Idle) /\ Idle \in TxType /\ Idle.id = 0
  BY IdleFields
<1>3. TxsOK'
  BY <1>1 DEF TxsOK
<1>4. \A v \in Workers : tx'[v].id # 0 => v # w /\ tx'[v] = tx[v]
  BY <1>1 DEF TxsOK
<1>5. ASSUME NEW v \in Workers, tx'[v].id # 0
      PROVE  tx'[v].id \in DOMAIN requests'
             /\ Reads(tx'[v], requests'[tx'[v].id])
  <2>1. v # w /\ tx'[v] = tx[v]
    BY <1>4, <1>5
  <2>2. tx[v].id # tx[w].id /\ Locked(tx[v].id)
    BY <1>5, <2>1 DEF LocksOK, Locked
  <2>3. tx[v].id \in DOMAIN requests /\ Reads(tx[v], requests[tx[v].id])
    BY <1>5, <2>1 DEF LocksOK
  <2>4. requests'[tx[v].id] = requests[tx[v].id]
    BY <2>2, <2>3
  <2> QED
    BY <2>1, <2>2, <2>3, <2>4
<1>6. \A u, v \in Workers : tx'[u].id # 0 /\ tx'[u].id = tx'[v].id => u = v
  BY <1>4 DEF LocksOK
<1> QED
  BY <1>3, <1>5, <1>6 DEF LocksOK

\* The locks when no transaction has begun or ended.
LEMMA LocksKept ==
    ASSUME TxsOK, LocksOK, UNCHANGED tx,
           DOMAIN requests' = DOMAIN requests,
           \A i \in DOMAIN requests : Locked(i) =>
             /\ requests'[i].type = requests[i].type
             /\ requests'[i].target = requests[i].target
             /\ requests'[i].status = requests[i].status
    PROVE  TxsOK' /\ LocksOK'
<1>1. TxsOK'
  BY DEF TxsOK
<1>2. ASSUME NEW v \in Workers, tx[v].id # 0
      PROVE  tx[v].id \in DOMAIN requests' /\ Reads(tx[v], requests'[tx[v].id])
  <2>1. tx[v].id \in DOMAIN requests /\ Locked(tx[v].id)
    BY <1>2 DEF LocksOK, Locked
  <2>2. Reads(tx[v], requests[tx[v].id])
    BY <1>2 DEF LocksOK
  <2> QED
    BY <2>1, <2>2 DEF Reads
<1> QED
  BY <1>1, <1>2 DEF LocksOK

\* A worker that finishes was busy.
LEMMA FinishOps ==
    ASSUME TxsOK, OpsOK, NEW w \in Workers, tx[w].op # "idle", Finish(w)
    PROVE  OpsOK'
<1>1. tx[w] # Idle
  BY IdleFields
<1>2. Cardinality(Busy') = Cardinality(Busy) - 1 /\ Cardinality(Busy) \in Nat
  BY <1>1, BusyCount DEF Finish
<1> QED
  BY <1>2 DEF OpsOK, Finish

\* A request taken and done in one step.
LEMMA OneStepOps ==
    ASSUME TxsOK, OpsOK, ops > 0, ops' = ops - 1, UNCHANGED tx
    PROVE  OpsOK'
<1>1. Busy' = Busy
  BY DEF Busy
<1>2. IsFiniteSet(Busy)
  BY FS_Subset DEF Busy
<1>3. Cardinality(Busy) \in Nat
  BY <1>2, FS_CardinalityType
<1> QED
  BY <1>1, <1>3 DEF OpsOK

-----------------------------------------------------------------------------
\* What a worker knows of the request it has just begun.
LEMMA BeginTx ==
    ASSUME IInv, NEW c \in TwoSteps, Check(c)
    PROVE  /\ TxOK(Seen(c))
           /\ Seen(c).op # "idle"
           /\ Seen(c).id # 0 => /\ Seen(c).id \in DOMAIN requests
                               /\ Reads(Seen(c), requests[Seen(c).id])
                               /\ ~Locked(Seen(c).id)
<1>1. CASE \E p \in Pairs, op \in {"add_friend", "remove_friend", "invite", "kick"} :
             c = ClientRequest(op, p[1], p[2], 0, "")
  <2>1. PICK u \in Users, v \in Users,
             op \in {"add_friend", "remove_friend", "invite", "kick"} :
               u # v /\ c = [op |-> op, actor |-> u, target |-> v, id |-> 0,
                             arg |-> ""]
    BY <1>1 DEF Pairs, ClientRequest
  <2>2. Seen(c) = c
    BY <2>1 DEF Seen
  <2>3. c \in TxType
    BY <2>1 DEF TxType
  <2>4. c.op = op /\ c.actor = u /\ c.target = v /\ c.id = 0
    BY <2>1
  <2> QED
    BY <2>1, <2>2, <2>3, <2>4 DEF TxOK, Resolving
<1>2. CASE \E u \in Users : c = ClientRequest("create_group", u, NoUser, 0, "")
  <2>1. PICK u \in Users : c = [op |-> "create_group", actor |-> u,
                                target |-> NoUser, id |-> 0, arg |-> ""]
    BY <1>2 DEF ClientRequest
  <2>2. Seen(c) = [op |-> "create_group", actor |-> u, target |-> NoUser,
                   id |-> 0, arg |-> group.state]
    BY <2>1 DEF Seen
  <2> DEFINE a == group.state
  <2>3. a \in {"absent", "live", "deleted"}
    BY DEF IInv, TablesOK
  <2>b. a \in {"", "absent", "live", "deleted"} \cup Roles \cup Decisions
    BY <2>3
  <2> HIDE DEF a
  <2>4. Seen(c) = [op |-> "create_group", actor |-> u, target |-> NoUser,
                   id |-> 0, arg |-> a]
    BY <2>2 DEF a
  <2>c. ASSUME NEW x \in {"", "absent", "live", "deleted"} \cup Roles \cup Decisions
        PROVE  [op |-> "create_group", actor |-> u, target |-> NoUser,
                id |-> 0, arg |-> x] \in TxType
    BY DEF TxType
  <2>5. Seen(c) \in TxType
    BY <2>b, <2>4, <2>c
  <2>6. Seen(c).op = "create_group" /\ Seen(c).actor = u /\ Seen(c).id = 0
    BY <2>4
  <2> QED
    BY <2>5, <2>6 DEF TxOK, Resolving
<1>3. CASE \E u \in Users : c = ClientRequest("join_group", u, NoUser, 0, "")
  <2>1. PICK u \in Users : c = [op |-> "join_group", actor |-> u,
                                target |-> NoUser, id |-> 0, arg |-> ""]
    BY <1>3 DEF ClientRequest
  <2>2. Seen(c) = c /\ c \in TxType
    BY <2>1 DEF Seen, TxType
  <2>3. c.op = "join_group" /\ c.actor = u /\ c.id = 0
    BY <2>1
  <2> QED
    BY <2>2, <2>3 DEF TxOK, Resolving
<1>4. CASE \E p \in Users \X Users, r \in Roles \ {"owner"} :
             c = ClientRequest("set_role", p[1], p[2], 0, r)
  <2>1. PICK u \in Users, v \in Users, r \in {"admin", "member"} :
             c = [op |-> "set_role", actor |-> u, target |-> v, id |-> 0,
                  arg |-> r]
    BY <1>4 DEF Roles, ClientRequest
  <2>2. Seen(c) = c /\ c \in TxType
    BY <2>1 DEF Seen, TxType, Roles
  <2> QED
    BY <2>1, <2>2 DEF TxOK, Resolving
<1>5. CASE \E u \in Users, i \in DOMAIN requests, d \in Decisions, op \in Resolving :
             c = ClientRequest(op, u, NoUser, i, d)
  <2>a. PICK u \in Users, i \in DOMAIN requests, d \in Decisions, op \in Resolving :
             c = [op |-> op, actor |-> u, target |-> NoUser, id |-> i,
                  arg |-> d]
    BY <1>5 DEF ClientRequest
  <2>b. i \in Nat /\ i # 0
    BY DEF IInv, RowsOK
  <2>1. /\ c \in TxType /\ c.op \in Resolving /\ c.actor \in Users
        /\ c.id \in DOMAIN requests /\ c.arg \in Decisions
        /\ c.id # 0
    BY <2>a, <2>b DEF TxType
  <2>2. Seen(c) = c /\ TxOK(c)
    BY <2>1 DEF Seen, Resolving, TxOK
  <2>3. HandleResolve(c)
    BY <2>1 DEF Check, Resolving
  <2>4. Reads(c, requests[c.id]) /\ ~Locked(c.id)
    BY <2>1, <2>3 DEF HandleResolve, Resolvable, CanResolveRequest, Reads
  <2> QED
    BY <2>1, <2>2, <2>4 DEF Resolving
<1>6. CASE c \in InsertContact
  BY <1>1, <1>6 DEF InsertContact
<1>7. CASE c \in DeleteContact
  BY <1>1, <1>7 DEF DeleteContact
<1>8. CASE c \in InviteGroupMember
  BY <1>1, <1>8 DEF InviteGroupMember
<1>9. CASE c \in KickGroupMember
  BY <1>1, <1>9 DEF KickGroupMember
<1>10. CASE c \in InsertGroup
  BY <1>2, <1>10 DEF InsertGroup
<1>11. CASE c \in InsertGroupUser
  BY <1>3, <1>11 DEF InsertGroupUser
<1>12. CASE c \in UpdateGroupMemberRole
  BY <1>4, <1>12 DEF UpdateGroupMemberRole
<1>13. CASE c \in ResolveFriendRequest
  BY <1>5, <1>13 DEF ResolveFriendRequest, Resolving
<1>14. CASE c \in ResolveGroupJoinRequest
  BY <1>5, <1>14 DEF ResolveGroupJoinRequest, Resolving
<1>15. CASE c \in ResolveGroupInvitation
  BY <1>5, <1>15 DEF ResolveGroupInvitation, Resolving
<1> QED
  BY <1>6, <1>7, <1>8, <1>9, <1>10, <1>11, <1>12, <1>13, <1>14, <1>15
  DEF TwoSteps

\* A worker that begins keeps the invariant.
LEMMA BeginIInv ==
    ASSUME IInv, NEW w \in Workers, Begin(w)
    PROVE  IInv'
<1>1. PICK c \in TwoSteps : Check(c) /\ tx' = [tx EXCEPT ![w] = Seen(c)]
  BY DEF Begin
<1> DEFINE s == Seen(c)
<1>2. /\ TxOK(s) /\ s \in TxType /\ s # Idle
      /\ s.id # 0 => /\ s.id \in DOMAIN requests
                     /\ Reads(s, requests[s.id]) /\ ~Locked(s.id)
  BY <1>1, BeginTx, IdleFields DEF TxOK
<1> HIDE DEF s
<1>3. tx' = [tx EXCEPT ![w] = s] /\ tx \in [Workers -> TxType]
  BY <1>1 DEF s, IInv, TxsOK
<1>4. /\ tx[w] = Idle /\ ops > 0 /\ ops' = ops - 1
      /\ UNCHANGED <<group, role, friends, requests, stale>>
  BY DEF Begin
<1>5. TxsOK'
  BY <1>2, <1>3 DEF IInv, TxsOK
<1>6. LocksOK'
  BY <1>2, <1>3, <1>4 DEF IInv, LocksOK, Locked
<1>7. OpsOK'
  <2>1. /\ Cardinality(Busy') = Cardinality(Busy) + 1
        /\ Cardinality(Busy) \in Nat
    BY <1>2, <1>3, <1>4, BusyCount DEF IInv
  <2> QED
    BY <1>4, <2>1 DEF IInv, OpsOK
<1>8. TablesOK' /\ RowsOK' /\ OneOwner' /\ OnePending'
  BY <1>4 DEF IInv, TablesOK, RowsOK, OneOwner, OnePending
<1> QED
  BY <1>5, <1>6, <1>7, <1>8 DEF IInv

\* A transaction that is rolled back keeps the invariant.
LEMMA AbortIInv ==
    ASSUME IInv, NEW w \in Workers, Abort(w)
    PROVE  IInv'
<1>1. TxsOK' /\ LocksOK'
  BY LocksReleased DEF Abort, IInv
<1>2. Cardinality(Busy') = Cardinality(Busy) - 1 /\ Cardinality(Busy) \in Nat
  BY BusyCount DEF Abort, IInv
<1>3. OpsOK'
  BY <1>2 DEF IInv, OpsOK, Abort
<1>4. TablesOK' /\ RowsOK' /\ OneOwner' /\ OnePending'
  BY DEF Abort, IInv, TablesOK, RowsOK, OneOwner, OnePending
<1> QED
  BY <1>1, <1>3, <1>4 DEF IInv

-----------------------------------------------------------------------------
\* A transaction that writes nothing but the group, its members or the
\* friends ends in order.
LEMMA WriterEnds ==
    ASSUME IInv, NEW w \in Workers, tx[w].op # "idle", Finish(w),
           UNCHANGED requests
    PROVE  TxsOK' /\ LocksOK' /\ OpsOK' /\ RowsOK' /\ OnePending'
<1>1. TxsOK' /\ LocksOK'
  BY LocksReleased DEF IInv, Finish
<1>2. OpsOK'
  BY FinishOps DEF IInv
<1>3. RowsOK' /\ OnePending'
  BY DEF IInv, RowsOK, OnePending
<1> QED
  BY <1>1, <1>2, <1>3

\* Kicking a member: the owner is not kicked unless the check is outdated.
LEMMA KickIInv ==
    ASSUME IInv, NEW w \in Workers, KickGroupMemberBy(w)
    PROVE  IInv'
<1>1. TxsOK' /\ LocksOK' /\ OpsOK' /\ RowsOK' /\ OnePending'
  BY WriterEnds DEF KickGroupMemberBy
<1>2. TablesOK'
  BY DEF IInv, TablesOK, KickGroupMemberBy, Outdated
<1>4. OneOwner'
  <2> SUFFICES ASSUME ~stale'
               PROVE  {u \in Users : role'[u] = "owner"} =
                        IF group'.state = "live" THEN {group'.owner} ELSE {}
    BY DEF OneOwner
  <2>1. ~stale /\ Check(tx[w]) /\ tx[w].op = "kick"
    BY DEF KickGroupMemberBy, Outdated, IInv, TablesOK
  <2>2. role[tx[w].target] # "owner"
    BY <2>1 DEF Check, HandleKickGroupMember, CanKickGroupMember, Roles
  <2>3. \A u \in Users : role'[u] = "owner" <=> role[u] = "owner"
    BY <2>2 DEF KickGroupMemberBy, IInv, TablesOK
  <2> QED
    BY <2>1, <2>3 DEF IInv, OneOwner, KickGroupMemberBy
<1> QED
  BY <1>1, <1>2, <1>4 DEF IInv

\* Appointing a member.
LEMMA UpdateRoleIInv ==
    ASSUME IInv, NEW w \in Workers, UpdateGroupMemberRoleBy(w)
    PROVE  IInv'
<1>1. TxsOK' /\ LocksOK' /\ OpsOK' /\ RowsOK' /\ OnePending'
  BY WriterEnds DEF UpdateGroupMemberRoleBy
<1>a. tx[w].arg \in {"admin", "member"}
  BY DEF UpdateGroupMemberRoleBy, IInv, TxsOK, TxOK
<1>2. TablesOK'
  BY <1>a DEF IInv, TablesOK, UpdateGroupMemberRoleBy, Outdated, Roles
<1>4. OneOwner'
  <2> SUFFICES ASSUME ~stale'
               PROVE  {u \in Users : role'[u] = "owner"} =
                        IF group'.state = "live" THEN {group'.owner} ELSE {}
    BY DEF OneOwner
  <2>1. ~stale /\ Check(tx[w]) /\ tx[w].op = "set_role"
    BY DEF UpdateGroupMemberRoleBy, Outdated, IInv, TablesOK
  <2>2. role[tx[w].target] # "owner"
    BY <2>1 DEF Check, HandleUpdateGroupMemberRole, CanChangeGroupMemberRole,
                Roles
  <2>3. \A u \in Users : role'[u] = "owner" <=> role[u] = "owner"
    BY <1>a, <2>2 DEF UpdateGroupMemberRoleBy, IInv, TablesOK
  <2> QED
    BY <2>1, <2>3 DEF IInv, OneOwner, UpdateGroupMemberRoleBy
<1> QED
  BY <1>1, <1>2, <1>4 DEF IInv

\* Creating the group, or reviving it: its members have no owner among them.
LEMMA CreateGroupIInv ==
    ASSUME IInv, NEW w \in Workers, CreateGroupWithOwner(w)
    PROVE  IInv'
<1>1. TxsOK' /\ LocksOK' /\ OpsOK' /\ RowsOK' /\ OnePending'
  BY WriterEnds DEF CreateGroupWithOwner
<1>a. tx[w].actor \in Users
  BY DEF CreateGroupWithOwner, IInv, TxsOK, TxOK
<1>2. TablesOK'
  BY <1>a DEF IInv, TablesOK, CreateGroupWithOwner, Roles
<1>4. OneOwner'
  BY <1>a DEF IInv, TablesOK, OneOwner, CreateGroupWithOwner
<1> QED
  BY <1>1, <1>2, <1>4 DEF IInv

\* The second half of a removal only takes a friendship away.
LEMMA RemoveOtherIInv ==
    ASSUME IInv, NEW w \in Workers, RemoveOtherDirection(w)
    PROVE  IInv'
<1>1. TxsOK' /\ LocksOK' /\ OpsOK' /\ RowsOK' /\ OnePending'
  BY WriterEnds DEF RemoveOtherDirection
<1>2. TablesOK'
  BY DEF IInv, TablesOK, RemoveOtherDirection, Outdated
<1>3. OneOwner'
  BY DEF IInv, TablesOK, OneOwner, RemoveOtherDirection, Outdated
<1> QED
  BY <1>1, <1>2, <1>3 DEF IInv

-----------------------------------------------------------------------------
\* A request that is one step and leaves the requests alone.
LEMMA OneStepEnds ==
    ASSUME IInv, ops > 0, ops' = ops - 1, UNCHANGED <<requests, tx, stale>>
    PROVE  TxsOK' /\ LocksOK' /\ OpsOK' /\ RowsOK' /\ OnePending'
<1>1. TxsOK' /\ LocksOK'
  BY DEF IInv, TxsOK, LocksOK
<1>2. OpsOK'
  BY OneStepOps DEF IInv
<1>3. RowsOK' /\ OnePending'
  BY DEF IInv, RowsOK, OnePending
<1> QED
  BY <1>1, <1>2, <1>3

\* Ending a friendship takes both rows.
LEMMA RemovePairIInv ==
    ASSUME IInv, NEW w \in Workers, RemoveDirectFriendPair(w)
    PROVE  IInv'
<1>1. TxsOK' /\ LocksOK' /\ OpsOK' /\ RowsOK' /\ OnePending'
  BY OneStepEnds DEF RemoveDirectFriendPair
<1>2. PICK c : friends' = friends \ {<<c.actor, c.target>>, <<c.target, c.actor>>}
  BY DEF RemoveDirectFriendPair
<1>3. TablesOK' /\ OneOwner'
  BY <1>2 DEF IInv, TablesOK, OneOwner, RemoveDirectFriendPair
<1> QED
  BY <1>1, <1>3 DEF IInv

\* Leaving: a leaving owner is succeeded by a member, or takes the group
\* with him.
LEMMA RemoveMemberIInv ==
    ASSUME IInv, NEW w \in Workers, HandleRemoveGroupMember(w)
    PROVE  IInv'
<1>1. TxsOK' /\ LocksOK' /\ OpsOK' /\ RowsOK' /\ OnePending'
  BY OneStepEnds DEF HandleRemoveGroupMember, InOneStep
<1>3. PICK u \in Users : RemoveUserFromGroup(u)
  <2>1. PICK c \in DeleteGroupUser : RemoveUserFromGroup(c.actor)
    BY DEF HandleRemoveGroupMember
  <2>2. PICK u \in Users : c = ClientRequest("leave_group", u, u, 0, "")
    BY DEF DeleteGroupUser
  <2>3. c.actor = u
    BY <2>2 DEF ClientRequest
  <2> QED
    BY <2>1, <2>3
<1>4. stale' = stale /\ friends' = friends
  BY DEF HandleRemoveGroupMember, InOneStep
<1>5. CASE group.owner = u /\ \E s \in Successors(u) :
             group' = [group EXCEPT !.owner = s] /\ role' = Succeeded(u, s)
  <2>1. PICK s \in Successors(u) :
             group' = [group EXCEPT !.owner = s] /\ role' = Succeeded(u, s)
    BY <1>5
  <2>2. s \in Users /\ s # u
    BY DEF Successors, Others
  <2>3. TablesOK'
    BY <1>4, <2>1, <2>2 DEF IInv, TablesOK, Succeeded, Roles
  <2>4. OneOwner'
    BY <1>3, <1>4, <1>5, <2>1, <2>2
    DEF IInv, TablesOK, OneOwner, Succeeded, RemoveUserFromGroup
  <2> QED
    BY <1>1, <2>3, <2>4 DEF IInv
<1>6. CASE /\ group.owner = u
           /\ Others(u) = {}
           /\ group' = [group EXCEPT !.state = "deleted"]
           /\ role' = [role EXCEPT ![u] = "none"]
  <2>1. TablesOK'
    BY <1>4, <1>6 DEF IInv, TablesOK
  <2>2. OneOwner'
    BY <1>4, <1>6 DEF IInv, TablesOK, OneOwner, Others
  <2> QED
    BY <1>1, <2>1, <2>2 DEF IInv
<1>7. CASE /\ group.owner # u
           /\ role' = [role EXCEPT ![u] = "none"]
           /\ UNCHANGED group
  <2>1. TablesOK'
    BY <1>4, <1>7 DEF IInv, TablesOK
  <2>2. OneOwner'
    BY <1>3, <1>4, <1>7 DEF IInv, TablesOK, OneOwner, RemoveUserFromGroup
  <2> QED
    BY <1>1, <2>1, <2>2 DEF IInv
<1> QED
  BY <1>3, <1>5, <1>6, <1>7 DEF RemoveUserFromGroup

\* Handing over: the old owner becomes an admin.
LEMMA TransferIInv ==
    ASSUME IInv, NEW w \in Workers, HandleTransferGroupOwner(w)
    PROVE  IInv'
<1>1. TxsOK' /\ LocksOK' /\ OpsOK' /\ RowsOK' /\ OnePending'
  BY OneStepEnds DEF HandleTransferGroupOwner, InOneStep
<1>3. PICK u \in Users, v \in Users : u # v /\ TransferGroupOwner(u, v)
  <2>1. PICK c \in TransferOwner : TransferGroupOwner(c.actor, c.target)
    BY DEF HandleTransferGroupOwner
  <2>2. PICK p \in Pairs : c = ClientRequest("transfer", p[1], p[2], 0, "")
    BY DEF TransferOwner
  <2>3. /\ c.actor \in Users /\ c.target \in Users
        /\ c.actor # c.target
    BY <2>2 DEF Pairs, ClientRequest
  <2> QED
    BY <2>1, <2>3
<1>4. stale' = stale /\ friends' = friends
  BY DEF HandleTransferGroupOwner, InOneStep
<1>5. TablesOK'
  BY <1>3, <1>4 DEF IInv, TablesOK, TransferGroupOwner, Roles
<1>6. OneOwner'
  BY <1>3, <1>4 DEF IInv, TablesOK, OneOwner, TransferGroupOwner
<1> QED
  BY <1>1, <1>5, <1>6 DEF IInv

-----------------------------------------------------------------------------
\* Closing a row.
LEMMA ClosedRow ==
    ASSUME NEW r \in RowType, NEW u \in Users \cup {NoUser},
           NEW d \in {"expired"} \cup Decisions
    PROVE  LET a == CloseRequest(r, d, u)
               b == Expired(r)
           IN  /\ a \in RowType /\ b \in RowType
               /\ a.type = r.type /\ b.type = r.type
               /\ a.requester = r.requester /\ b.requester = r.requester
               /\ a.target = r.target /\ b.target = r.target
               /\ a.held = FALSE /\ b.held = FALSE
               /\ a.status = d /\ b.status = "expired"
               /\ a.resolvedBy = u
<1> DEFINE a == CloseRequest(r, d, u)
           b == Expired(r)
<1>1. /\ a.type = r.type /\ a.requester = r.requester /\ a.target = r.target
      /\ a.held = FALSE /\ a.status = d /\ a.resolvedBy = u
  BY DEF CloseRequest, RowType
<1>2. /\ b.type = r.type /\ b.requester = r.requester /\ b.target = r.target
      /\ b.held = FALSE /\ b.status = "expired"
  BY DEF Expired, RowType
<1>3. a \in RowType
  BY DEF CloseRequest, RowType, Decisions
<1>4. b \in RowType
  BY DEF Expired, RowType
<1> QED
  BY <1>1, <1>2, <1>3, <1>4

\* What the row a transaction has locked is worth.
LEMMA LockedRow ==
    ASSUME IInv, NEW w \in Workers, tx[w].op \in Resolving
    PROVE  /\ tx[w].id \in DOMAIN requests
           /\ Reads(tx[w], requests[tx[w].id])
           /\ RowOK(requests[tx[w].id])
           /\ tx[w].actor \in Users /\ tx[w].arg \in Decisions
<1>1. tx[w].id # 0 /\ tx[w].actor \in Users
  BY DEF IInv, TxsOK, TxOK, Resolving
<1>2. tx[w].id \in DOMAIN requests /\ Reads(tx[w], requests[tx[w].id])
  BY <1>1 DEF IInv, LocksOK
<1>3. RowOK(requests[tx[w].id])
  BY <1>2 DEF IInv, RowsOK
<1> QED
  BY <1>1, <1>2, <1>3 DEF Reads

\* Resolving a request closes its row and writes what was asked for.
LEMMA ResolveIInv ==
    ASSUME IInv, NEW w \in Workers, ResolveRequest(w)
    PROVE  IInv'
<1> DEFINE c == tx[w]
           r == requests[c.id]
           closed == CloseRequest(r, c.arg, c.actor)
<1>1. /\ c.op \in Resolving
      /\ friends' = IF c.arg = "accepted" /\ r.type = "friend"
                      THEN AddDirectFriendPair(r) ELSE friends
      /\ role' = IF c.arg = "accepted" /\ r.type # "friend"
                   THEN AddGroupMember(r) ELSE role
      /\ requests' = [requests EXCEPT ![c.id] = closed]
      /\ Finish(w)
      /\ UNCHANGED <<group, stale>>
  BY ResolveTypes DEF ResolveRequest
<1>2. /\ c.id \in DOMAIN requests /\ Reads(c, r) /\ RowOK(r)
      /\ c.actor \in Users /\ c.arg \in Decisions
  BY <1>1, LockedRow
<1>3. /\ closed \in RowType /\ closed.type = r.type
      /\ closed.requester = r.requester /\ closed.target = r.target
      /\ closed.held = FALSE /\ closed.status = c.arg
  <2>1. r \in RowType /\ c.actor \in Users \cup {NoUser}
        /\ c.arg \in {"expired"} \cup Decisions
    BY <1>2 DEF RowOK
  <2> HIDE DEF c, r
  <2> QED
    BY ZenonT(60), <2>1, ClosedRow
<1> HIDE DEF c, r, closed
<1>4. /\ requests' \in Seq(RowType) /\ Len(requests') = Len(requests)
      /\ requests'[c.id] = closed
      /\ \A i \in DOMAIN requests : i # c.id => requests'[i] = requests[i]
  BY <1>1, <1>2, <1>3, ExceptSeq DEF IInv, RowsOK
<1>5. RowsOK' /\ OnePending' /\ DOMAIN requests' = DOMAIN requests
  <2>1. c.arg # "pending"
    BY <1>2 DEF Decisions
  <2>2. \A i \in DOMAIN requests :
             /\ requests'[i].type = requests[i].type
             /\ requests'[i].requester = requests[i].requester
             /\ requests'[i].target = requests[i].target
             /\ requests'[i].held <=> requests'[i].status = "pending"
             /\ requests'[i].held => requests[i].held
    BY <1>3, <1>4, <2>1 DEF IInv, OnePending, r
  <2> QED
    BY <1>4, <2>2, RowsRewritten DEF IInv
<1>6. TxsOK' /\ LocksOK'
  BY <1>1, <1>4, <1>5, LocksReleased DEF IInv, Finish, c
<1>7. OpsOK'
  BY <1>1, FinishOps DEF IInv, c, Resolving
<1>8. /\ friends' \subseteq Users \X Users
      /\ \A p \in friends' : p[1] # p[2]
  <2>1. CASE c.arg = "accepted" /\ r.type = "friend"
    <3>1. friends' = friends \cup {<<r.requester, r.target>>,
                                   <<r.target, r.requester>>}
      BY <1>1, <2>1 DEF AddDirectFriendPair
    <3>2. r.requester \in Users /\ r.target \in Users /\ r.requester # r.target
      BY <1>2, <2>1 DEF RowOK, RowType
    <3> QED
      BY <1>1, <3>1, <3>2 DEF IInv, TablesOK
  <2>2. CASE ~(c.arg = "accepted" /\ r.type = "friend")
    BY <1>1, <2>2 DEF IInv, TablesOK
  <2> QED
    BY <2>1, <2>2
<1>9. /\ role' \in [Users -> Roles \cup {"none"}]
      /\ \A u \in Users : role'[u] = "owner" <=> role[u] = "owner"
  BY <1>1 DEF IInv, TablesOK, AddGroupMember, Roles
<1>10. TablesOK'
  BY <1>1, <1>8, <1>9 DEF IInv, TablesOK
<1>11. OneOwner'
  BY <1>1, <1>9 DEF IInv, OneOwner
<1> QED
  BY <1>5, <1>6, <1>7, <1>8, <1>10, <1>11 DEF IInv

-----------------------------------------------------------------------------
\* A step that touches nothing but rows that no transaction has locked.
LEMMA OtherTablesKept ==
    ASSUME IInv, UNCHANGED <<group, role, friends, stale>>
    PROVE  TablesOK' /\ OneOwner'
BY DEF IInv, TablesOK, OneOwner

\* A pending request becomes overdue, even a locked one.
LEMMA LapseIInv ==
    ASSUME IInv, NEW i \in DOMAIN requests, Lapse(i)
    PROVE  IInv'
<1> DEFINE r == requests[i]
           x == [r EXCEPT !.lapsed = TRUE]
<1>1. r \in RowType /\ requests' = [requests EXCEPT ![i] = x]
  BY DEF Lapse, IInv, RowsOK, RowOK
<1>2. /\ x \in RowType /\ x.type = r.type /\ x.requester = r.requester
      /\ x.target = r.target /\ x.held = r.held /\ x.status = r.status
  <2> HIDE DEF r
  <2> QED
    BY <1>1 DEF RowType
<1> HIDE DEF x, r
<1>3. /\ requests' \in Seq(RowType) /\ Len(requests') = Len(requests)
      /\ requests'[i] = x
      /\ \A j \in DOMAIN requests : j # i => requests'[j] = requests[j]
  BY <1>1, <1>2, ExceptSeq DEF IInv, RowsOK
<1>4. \A j \in DOMAIN requests :
             /\ requests'[j].type = requests[j].type
             /\ requests'[j].requester = requests[j].requester
             /\ requests'[j].target = requests[j].target
             /\ requests'[j].held = requests[j].held
             /\ requests'[j].status = requests[j].status
  BY <1>2, <1>3 DEF r
<1>5. RowsOK' /\ OnePending' /\ DOMAIN requests' = DOMAIN requests
  <2>1. \A j \in DOMAIN requests :
          /\ requests'[j].held <=> requests'[j].status = "pending"
          /\ requests'[j].held => requests[j].held
    BY <1>4 DEF IInv, OnePending
  <2> QED
    BY <1>3, <1>4, <2>1, RowsRewritten DEF IInv
<1>6. TxsOK' /\ LocksOK'
  BY <1>4, <1>5, LocksKept DEF IInv, Lapse
<1>7. OpsOK'
  BY DEF IInv, OpsOK, Busy, Lapse
<1>8. TablesOK' /\ OneOwner'
  BY OtherTablesKept DEF Lapse
<1> QED
  BY <1>5, <1>6, <1>7, <1>8 DEF IInv

\* Resolving an overdue request closes it.
LEMMA ResolveOverdueIInv ==
    ASSUME IInv, NEW i \in DOMAIN requests, ResolveOverdue(i)
    PROVE  IInv'
<1>1. PICK u \in Users : requests' = [requests EXCEPT ![i] =
                                         CloseRequest(@, "expired", u)]
  BY DEF ResolveOverdue
<1> DEFINE r == requests[i]
           x == CloseRequest(r, "expired", u)
<1>a. r \in RowType /\ requests' = [requests EXCEPT ![i] = x]
  BY <1>1 DEF IInv, RowsOK, RowOK
<1>2. /\ x \in RowType /\ x.type = r.type /\ x.requester = r.requester
      /\ x.target = r.target /\ x.held = FALSE /\ x.status = "expired"
  <2>1. u \in Users \cup {NoUser} /\ "expired" \in {"expired"} \cup Decisions
    OBVIOUS
  <2> HIDE DEF r
  <2> QED
    BY ZenonT(60), <1>a, <2>1, ClosedRow
<1> HIDE DEF x, r
<1>3. /\ requests' \in Seq(RowType) /\ Len(requests') = Len(requests)
      /\ requests'[i] = x
      /\ \A j \in DOMAIN requests : j # i => requests'[j] = requests[j]
  BY <1>a, <1>2, ExceptSeq DEF IInv, RowsOK
<1>4. \A j \in DOMAIN requests :
             /\ requests'[j].type = requests[j].type
             /\ requests'[j].requester = requests[j].requester
             /\ requests'[j].target = requests[j].target
             /\ requests'[j].held <=> requests'[j].status = "pending"
             /\ requests'[j].held => requests[j].held
  BY <1>2, <1>3 DEF r, IInv, OnePending
<1>5. RowsOK' /\ OnePending' /\ DOMAIN requests' = DOMAIN requests
  BY <1>3, <1>4, RowsRewritten DEF IInv
<1>6. TxsOK' /\ LocksOK'
  BY <1>3, <1>5, LocksKept DEF IInv, ResolveOverdue
<1>7. OpsOK'
  BY OneStepOps DEF IInv, ResolveOverdue
<1>8. TablesOK' /\ OneOwner'
  BY OtherTablesKept DEF ResolveOverdue
<1> QED
  BY <1>5, <1>6, <1>7, <1>8 DEF IInv

\* The rows after those of S have been expired in bulk.
ExpiredIn(S) ==
  [i \in DOMAIN requests |->
     IF i \in S THEN Expired(requests[i]) ELSE requests[i]]

\* What a bulk expiry leaves.
LEMMA BulkExpiry ==
    ASSUME IInv, NEW S, NEW rows, rows = ExpiredIn(S)
    PROVE  /\ rows \in Seq(RowType) /\ Len(rows) = Len(requests)
           /\ DOMAIN rows = DOMAIN requests
           /\ \A i \in DOMAIN requests :
                /\ i \notin S => rows[i] = requests[i]
                /\ rows[i].type = requests[i].type
                /\ rows[i].requester = requests[i].requester
                /\ rows[i].target = requests[i].target
                /\ rows[i].held <=> rows[i].status = "pending"
                /\ rows[i].held => requests[i].held
                /\ i \in S => ~rows[i].held
<1>1. ASSUME NEW i \in DOMAIN requests
      PROVE  /\ rows[i] \in RowType
             /\ i \notin S => rows[i] = requests[i]
             /\ rows[i].type = requests[i].type
             /\ rows[i].requester = requests[i].requester
             /\ rows[i].target = requests[i].target
             /\ rows[i].held <=> rows[i].status = "pending"
             /\ rows[i].held => requests[i].held
             /\ i \in S => ~rows[i].held
  <2> DEFINE r == requests[i]
  <2>1. r \in RowType /\ (r.held <=> r.status = "pending")
    BY DEF IInv, RowsOK, RowOK, OnePending
  <2>2. rows[i] = IF i \in S THEN Expired(r) ELSE r
    BY DEF ExpiredIn
  <2> HIDE DEF r
  <2>3. LET b == Expired(r)
        IN  /\ b \in RowType /\ b.type = r.type /\ b.requester = r.requester
            /\ b.target = r.target /\ b.held = FALSE /\ b.status = "expired"
    BY <2>1, ClosedRow
  <2>4. /\ rows[i] \in RowType
        /\ i \notin S => rows[i] = r
        /\ rows[i].type = r.type
        /\ rows[i].requester = r.requester
        /\ rows[i].target = r.target
        /\ rows[i].held <=> rows[i].status = "pending"
        /\ rows[i].held => r.held
        /\ i \in S => ~rows[i].held
    BY <2>1, <2>2, <2>3
  <2> QED
    BY <2>4 DEF r
<1>2. DOMAIN requests = 1 .. Len(requests) /\ Len(requests) \in Nat
  BY LenProperties DEF IInv, RowsOK
<1>3. rows \in [1 .. Len(requests) -> RowType]
  BY <1>1, <1>2 DEF ExpiredIn
<1>4. rows \in Seq(RowType) /\ Len(rows) = Len(requests)
  BY <1>2, <1>3, FunctionIsSeq
<1>5. DOMAIN rows = DOMAIN requests
  BY DEF ExpiredIn
<1> QED
  BY <1>1, <1>4, <1>5

\* Listing requests expires rows that nobody has locked.
LEMMA ExpireIInv ==
    ASSUME IInv, NEW S, ExpireRequests(S)
    PROVE  IInv'
<1>1. requests' = ExpiredIn(S)
  BY DEF ExpireRequests, ExpiredIn
<1>2. /\ requests' \in Seq(RowType) /\ Len(requests') = Len(requests)
      /\ DOMAIN requests' = DOMAIN requests
      /\ \A i \in DOMAIN requests :
           /\ i \notin S => requests'[i] = requests[i]
           /\ requests'[i].type = requests[i].type
           /\ requests'[i].requester = requests[i].requester
           /\ requests'[i].target = requests[i].target
           /\ requests'[i].held <=> requests'[i].status = "pending"
           /\ requests'[i].held => requests[i].held
  BY <1>1, BulkExpiry
<1>3. RowsOK' /\ OnePending'
  BY <1>2, RowsRewritten DEF IInv
<1>4. TxsOK' /\ LocksOK'
  BY <1>2, LocksKept DEF IInv, ExpireRequests
<1>5. OpsOK'
  BY DEF IInv, OpsOK, Busy, ExpireRequests
<1>6. TablesOK' /\ OneOwner'
  BY OtherTablesKept DEF ExpireRequests
<1> QED
  BY <1>3, <1>4, <1>5, <1>6 DEF IInv

\* The row a submission asks for.
LEMMA WantedRow ==
    ASSUME NEW c, TxOK(c), c.op \in {"add_friend", "join_group", "invite"}
    PROVE  /\ RowOK(Wanted(c)) /\ Wanted(c) \in RowType
           /\ Wanted(c).held = TRUE /\ Wanted(c).status = "pending"
<1>1. c.actor \in Users
  BY DEF TxOK
<1>2. CASE c.op = "add_friend"
  BY <1>1, <1>2 DEF TxOK, Wanted, CreateFriendRequest, Row, RowOK, RowType,
                    RequestTypes
<1>3. CASE c.op = "join_group"
  BY <1>1, <1>3 DEF TxOK, Wanted, CreateGroupJoinRequest, Row, RowOK, RowType,
                    RequestTypes
<1>4. CASE c.op = "invite"
  BY <1>1, <1>4 DEF TxOK, Wanted, CreateGroupInvitation, Row, RowOK, RowType,
                    RequestTypes
<1> QED
  BY <1>2, <1>3, <1>4

\* Submitting a request: the row is inserted only when no other holds its key.
LEMMA CreatePendingIInv ==
    ASSUME IInv, NEW w \in Workers, CreatePendingRequest(w)
    PROVE  IInv'
<1> DEFINE row == Wanted(tx[w])
           same == {i \in DOMAIN requests :
                      requests[i].held /\ ActiveKey(requests[i]) = ActiveKey(row)}
           S == same \cap Overdue
           after == ExpiredIn(S)
<1>1. /\ tx[w].op \in {"add_friend", "join_group", "invite"}
      /\ \A i \in S : ~Locked(i)
      /\ \/ /\ same \subseteq Overdue
            /\ Len(requests) < MaxRequests
            /\ requests' = Append(after, row)
         \/ requests' = after
      /\ Finish(w)
      /\ UNCHANGED <<group, role, friends, stale>>
  BY DEF CreatePendingRequest, ExpiredIn
<1>2. /\ after \in Seq(RowType) /\ Len(after) = Len(requests)
      /\ DOMAIN after = DOMAIN requests
      /\ \A i \in DOMAIN requests :
           /\ i \notin S => after[i] = requests[i]
           /\ after[i].type = requests[i].type
           /\ after[i].requester = requests[i].requester
           /\ after[i].target = requests[i].target
           /\ after[i].held <=> after[i].status = "pending"
           /\ after[i].held => requests[i].held
           /\ i \in S => ~after[i].held
  <2> HIDE DEF S
  <2> QED
    BY BulkExpiry
<1>3. /\ RowOK(row) /\ row \in RowType
      /\ row.held = TRUE /\ row.status = "pending"
  BY <1>1, WantedRow DEF IInv, TxsOK
<1>4. tx[w].op # "idle"
  BY <1>1
<1>5. OpsOK'
  BY <1>1, <1>4, FinishOps DEF IInv
<1>6. TablesOK' /\ OneOwner'
  BY <1>1, OtherTablesKept
<1>7. S \subseteq DOMAIN requests
  OBVIOUS
<1>8. ASSUME same \subseteq Overdue, NEW i \in DOMAIN requests, after[i].held
      PROVE  ActiveKey(requests[i]) # ActiveKey(row)
  BY <1>2, <1>8
<1> HIDE DEF row, S, after
<1>9. CASE requests' = after
  <2>1. RowsOK' /\ OnePending'
    BY <1>2, <1>9, RowsRewritten DEF IInv
  <2>2. TxsOK' /\ LocksOK'
    BY <1>1, <1>2, <1>9, LocksReleased DEF IInv, Finish
  <2> QED
    BY <1>5, <1>6, <2>1, <2>2 DEF IInv
<1>10. CASE /\ same \subseteq Overdue
            /\ Len(requests) < MaxRequests
            /\ requests' = Append(after, row)
  <2> DEFINE n == Len(requests)
  <2>1. n \in Nat /\ DOMAIN requests = 1 .. n
    BY LenProperties DEF IInv, RowsOK
  <2>2. /\ requests' \in Seq(RowType) /\ Len(requests') = n + 1
        /\ requests'[n + 1] = row
        /\ \A i \in DOMAIN requests : requests'[i] = after[i]
    BY <1>2, <1>3, <1>10, <2>1, AppendProperties
  <2>3. DOMAIN requests' = DOMAIN requests \cup {n + 1} /\ n + 1 \notin DOMAIN requests
    BY <2>1, <2>2, LenProperties
  <2> HIDE DEF n
  <2>4. \A i \in DOMAIN requests : RowOK(after[i])
    <3> SUFFICES ASSUME NEW i \in DOMAIN requests PROVE RowOK(after[i])
      OBVIOUS
    <3>1. after[i] \in RowType
      BY <1>2, ElementOfSeq, LenProperties
    <3> QED
      BY <1>2, <3>1 DEF IInv, RowsOK, RowOK
  <2>5. RowsOK'
    BY <1>3, <1>10, <2>1, <2>2, <2>3, <2>4 DEF RowsOK, n
  <2>6. \A i \in DOMAIN requests : ActiveKey(after[i]) = ActiveKey(requests[i])
    BY <1>2 DEF ActiveKey, GroupRequestUserID
  <2>7. OnePending'
    <3>1. \A i \in DOMAIN requests' :
             requests'[i].held <=> requests'[i].status = "pending"
      BY <1>2, <1>3, <2>2, <2>3
    <3>2. ASSUME NEW i \in DOMAIN requests', NEW j \in DOMAIN requests',
                 requests'[i].held, requests'[j].held,
                 ActiveKey(requests'[i]) = ActiveKey(requests'[j])
          PROVE  i = j
      <4>1. CASE i \in DOMAIN requests /\ j \in DOMAIN requests
        BY <1>2, <2>2, <2>6, <3>2, <4>1 DEF IInv, OnePending
      <4>2. CASE i \in DOMAIN requests /\ j = n + 1
        BY <1>8, <1>10, <2>2, <2>6, <3>2, <4>2
      <4>3. CASE j \in DOMAIN requests /\ i = n + 1
        BY <1>8, <1>10, <2>2, <2>6, <3>2, <4>3
      <4> QED
        BY <2>3, <4>1, <4>2, <4>3
    <3> QED
      BY <3>1, <3>2 DEF OnePending
  <2>8. TxsOK' /\ LocksOK'
    BY ZenonT(60), <1>1, <1>2, <2>2, <2>3, LocksReleased DEF IInv, Finish
  <2> QED
    BY <1>5, <1>6, <2>5, <2>7, <2>8 DEF IInv
<1> QED
  BY <1>1, <1>9, <1>10

\* Every step keeps the invariant.
LEMMA NextIInv == IInv /\ [Next]_vars => IInv'
<1> SUFFICES ASSUME IInv, [Next]_vars PROVE IInv'
  OBVIOUS
<1>1. CASE \E w \in Workers :
             \/ Begin(w) \/ Abort(w) \/ KickGroupMemberBy(w)
             \/ UpdateGroupMemberRoleBy(w) \/ CreateGroupWithOwner(w)
             \/ CreatePendingRequest(w) \/ ResolveRequest(w)
             \/ RemoveOtherDirection(w) \/ RemoveDirectFriendPair(w)
             \/ HandleRemoveGroupMember(w) \/ HandleTransferGroupOwner(w)
  BY <1>1, BeginIInv, AbortIInv, KickIInv, UpdateRoleIInv, CreateGroupIInv,
     CreatePendingIInv, ResolveIInv, RemoveOtherIInv, RemovePairIInv,
     RemoveMemberIInv, TransferIInv
<1>2. CASE \E i \in DOMAIN requests : Lapse(i) \/ ResolveOverdue(i)
  BY <1>2, LapseIInv, ResolveOverdueIInv
<1>3. CASE \E u \in Users : \/ ListFriendRequests(u) \/ ListGroupInvitations(u)
                             \/ ListGroupJoinRequests(u)
  BY <1>3, ExpireIInv DEF ListFriendRequests, ListGroupInvitations,
     ListGroupJoinRequests, ExpireRequestsForUser, ExpireRequestsForGroup
<1>4. CASE UNCHANGED vars
  BY <1>4 DEF vars, IInv, TablesOK, RowsOK, TxsOK, LocksOK, OpsOK, Busy,
              OneOwner, OnePending
<1> QED
  BY <1>1, <1>2, <1>3, <1>4 DEF Next

-----------------------------------------------------------------------------
\* A step that brings no friend and no member needs no consent.
LEMMA NobodyNew ==
    ASSUME friends' \subseteq friends,
           \A u \in Users : role[u] = "none" => role'[u] = "none"
    PROVE  Consented
BY DEF Consented

\* An accepted request is the consent to what it brings.
LEMMA ResolveConsented ==
    ASSUME IInv, NEW w \in Workers, ResolveRequest(w)
    PROVE  Consented
<1> DEFINE c == tx[w]
           r == requests[c.id]
           closed == CloseRequest(r, c.arg, c.actor)
<1>1. /\ c.op \in Resolving
      /\ friends' = IF c.arg = "accepted" /\ r.type = "friend"
                      THEN AddDirectFriendPair(r) ELSE friends
      /\ role' = IF c.arg = "accepted" /\ r.type # "friend"
                   THEN AddGroupMember(r) ELSE role
      /\ requests' = [requests EXCEPT ![c.id] = closed]
  BY ResolveTypes DEF ResolveRequest
<1>2. /\ c.id \in DOMAIN requests /\ Reads(c, r) /\ RowOK(r)
      /\ c.actor \in Users /\ c.arg \in Decisions
  BY <1>1, LockedRow
<1>3. closed.status = c.arg /\ closed.resolvedBy = c.actor
  <2>1. r \in RowType /\ c.actor \in Users \cup {NoUser}
        /\ c.arg \in {"expired"} \cup Decisions
    BY <1>2 DEF RowOK
  <2> HIDE DEF c, r
  <2> QED
    BY <2>1, ClosedRow
<1>4. requests'[c.id] = closed
  BY <1>1, <1>2
<1>5. r.status = "pending" /\ (c.arg = "accepted" => Accepts(c.id))
  BY <1>2, <1>3, <1>4 DEF Accepts, Reads
<1>6. role \in [Users -> Roles \cup {"none"}]
  BY DEF IInv, TablesOK
<1>7. r = requests[c.id]
  OBVIOUS
<1> HIDE DEF c, r, closed
<1>8. ASSUME NEW p \in friends' \ friends
      PROVE  /\ Accepts(c.id) /\ requests[c.id].type = "friend"
             /\ {requests[c.id].requester, requests[c.id].target} = {p[1], p[2]}
             /\ requests'[c.id].resolvedBy = requests[c.id].target
  <2>1. c.arg = "accepted" /\ r.type = "friend"
    BY <1>1
  <2>2. p = <<r.requester, r.target>> \/ p = <<r.target, r.requester>>
    BY <1>1, <2>1 DEF AddDirectFriendPair
  <2>3. c.actor = r.target
    BY <1>2, <2>1 DEF Reads
  <2> QED
    BY <1>3, <1>4, <1>5, <1>7, <2>1, <2>2, <2>3
<1>9. ASSUME NEW u \in Users, role[u] = "none", role'[u] # "none"
      PROVE  /\ Accepts(c.id) /\ requests[c.id].type # "friend"
             /\ GroupRequestUserID(requests[c.id]) = u
             /\ requests[c.id].type = "group_invite" =>
                  requests'[c.id].resolvedBy = u
  <2>1. c.arg = "accepted" /\ r.type # "friend"
    BY <1>1, <1>9
  <2>2. GroupRequestUserID(r) = u
    BY <1>1, <1>6, <1>9, <2>1 DEF AddGroupMember
  <2>3. r.type = "group_invite" => c.actor = r.target /\ r.target = u
    BY <1>2, <2>1, <2>2 DEF Reads, GroupRequestUserID
  <2> QED
    BY <1>3, <1>4, <1>5, <1>7, <2>1, <2>2, <2>3
<1> QED
  BY <1>2, <1>8, <1>9 DEF Consented

\* No step brings a friend or a member without consent.
LEMMA NextConsented ==
    ASSUME IInv, Next
    PROVE  Consented
<1>a. role \in [Users -> Roles \cup {"none"}]
  BY DEF IInv, TablesOK
<1>1. ASSUME NEW w \in Workers,
             Begin(w) \/ Abort(w) \/ CreatePendingRequest(w)
      PROVE  Consented
  BY <1>1, NobodyNew DEF Begin, Abort, CreatePendingRequest
<1>2. ASSUME NEW w \in Workers, KickGroupMemberBy(w) \/ UpdateGroupMemberRoleBy(w)
      PROVE  Consented
  BY <1>a, <1>2, NobodyNew DEF KickGroupMemberBy, UpdateGroupMemberRoleBy
<1>3. ASSUME NEW w \in Workers, CreateGroupWithOwner(w)
      PROVE  Consented
  BY <1>a, <1>3 DEF CreateGroupWithOwner, Consented
<1>4. ASSUME NEW w \in Workers, ResolveRequest(w)
      PROVE  Consented
  BY <1>4, ResolveConsented
<1>5. ASSUME NEW w \in Workers, RemoveOtherDirection(w)
      PROVE  Consented
  BY <1>5, NobodyNew DEF RemoveOtherDirection
<1>6. ASSUME NEW w \in Workers, RemoveDirectFriendPair(w)
      PROVE  Consented
  <2>1. PICK c : friends' = friends \ {<<c.actor, c.target>>, <<c.target, c.actor>>}
    BY <1>6 DEF RemoveDirectFriendPair
  <2> QED
    BY <1>6, <2>1, NobodyNew DEF RemoveDirectFriendPair
<1>7. ASSUME NEW w \in Workers, HandleRemoveGroupMember(w)
      PROVE  Consented
  <2>1. PICK u : RemoveUserFromGroup(u)
    BY <1>7 DEF HandleRemoveGroupMember
  <2>2. ASSUME NEW s \in Successors(u), role' = Succeeded(u, s)
        PROVE  \A v \in Users : role[v] = "none" => role'[v] = "none"
    <3>1. role[s] # "none"
      BY DEF Successors, Others
    <3> QED
      BY <1>a, <2>2, <3>1 DEF Succeeded
  <2>3. \A v \in Users : role[v] = "none" => role'[v] = "none"
    BY <1>a, <2>1, <2>2 DEF RemoveUserFromGroup
  <2> QED
    BY <1>7, <2>3, NobodyNew DEF HandleRemoveGroupMember, InOneStep
<1>8. ASSUME NEW w \in Workers, HandleTransferGroupOwner(w)
      PROVE  Consented
  <2>1. PICK u, v : TransferGroupOwner(u, v)
    BY <1>8 DEF HandleTransferGroupOwner
  <2>2. \A x \in Users : role[x] = "none" => role'[x] = "none"
    BY <1>a, <2>1 DEF TransferGroupOwner, IsActiveGroupMember
  <2> QED
    BY <1>8, <2>2, NobodyNew DEF HandleTransferGroupOwner, InOneStep
<1>9. ASSUME NEW i \in DOMAIN requests, Lapse(i) \/ ResolveOverdue(i)
      PROVE  Consented
  BY <1>9, NobodyNew DEF Lapse, ResolveOverdue
<1>10. ASSUME NEW u \in Users, \/ ListFriendRequests(u) \/ ListGroupInvitations(u)
                               \/ ListGroupJoinRequests(u)
       PROVE  Consented
  BY <1>10, NobodyNew DEF ListFriendRequests, ListGroupInvitations,
     ListGroupJoinRequests, ExpireRequestsForUser, ExpireRequestsForGroup,
     ExpireRequests
<1> QED
  BY <1>1, <1>2, <1>3, <1>4, <1>5, <1>6, <1>7, <1>8, <1>9, <1>10 DEF Next

-----------------------------------------------------------------------------
\* The invariant holds in every reachable state.
THEOREM SpecIInv == Spec => []IInv
BY InitIInv, NextIInv, PTL DEF Spec

\* The rows and the transactions of FriendService stay well typed: accepted
\* friends are two users, ids name rows, retried requests are not multiplied.
THEOREM SpecTypeOK == Spec => []TypeOK
<1>1. IInv => TypeOK
  <2> SUFFICES ASSUME IInv PROVE TypeOK
    OBVIOUS
  <2>1. \A i \in DOMAIN requests : requests[i] \in RowType
    BY DEF IInv, RowsOK, RowOK
  <2>2. \A w \in Workers : /\ tx[w].actor \in Users \cup {NoUser}
                           /\ tx[w].target \in Users \cup {NoUser}
                           /\ tx[w].id \in {0} \cup DOMAIN requests
    BY DEF IInv, TxsOK, TxOK, TxType, LocksOK
  <2>3. IsFiniteSet(Busy)
    BY FS_Subset DEF Busy
  <2>4. Cardinality(Busy) \in Nat
    BY <2>3, FS_CardinalityType
  <2>5. ops \in 0 .. MaxOps
    BY <2>4 DEF IInv, OpsOK
  <2> QED
    BY <2>1, <2>2, <2>5 DEF IInv, TypeOK, TablesOK, RowsOK, RowType
<1> QED
  BY <1>1, SpecIInv, PTL

\* Unless a write followed an outdated check, a live group has the one owner
\* its row names and a deleted group has none: leaving, succession, handing
\* over, appointing, kicking and reviving in any order.
THEOREM SpecOneOwner == Spec => []OneOwner
<1>1. IInv => OneOwner
  BY DEF IInv
<1> QED
  BY <1>1, SpecIInv, PTL

\* A request holds its active key exactly while it is pending, and no two
\* hold the same one.
THEOREM SpecOnePending == Spec => []OnePending
<1>1. IInv => OnePending
  BY DEF IInv
<1> QED
  BY <1>1, SpecIInv, PTL

\* Nobody becomes a friend or a member without a fresh acceptance of a
\* pending request by the one who may accept it, or by creating the group.
THEOREM SpecFreshConsent == Spec => FreshConsent
<1>1. IInv /\ [Next]_vars => [Consented]_vars
  BY NextConsented
<1> QED
  BY <1>1, SpecIInv, PTL DEF Spec, FreshConsent
=============================================================================
