---------------------------- MODULE SocialGraph ----------------------------
(***************************************************************************)
(* Friends, one group and the requests that lead to both, as FriendService *)
(* keeps them.  Clients send requests through DataForwardingService, which *)
(* puts the authenticated user into them and publishes them without a key  *)
(* on a topic of three partitions: the consumers of the service (Workers)  *)
(* take them in any order and side by side.                                *)
(*                                                                         *)
(* Every request is one database transaction (READ COMMITTED).  Leaving    *)
(* and handing over a group lock the group row before they look at it, and *)
(* are one step.  Kicking, changing a role, creating a group, asking for a *)
(* relation, resolving a request and ending a friendship read first and    *)
(* write later: they are two steps, and what a worker read is kept in tx.  *)
(* A refused request changes nothing and is no step.                       *)
(*                                                                         *)
(* `stale' is a history variable: a kick, a change of role or a creation   *)
(* was written although the condition it had read no longer held.          *)
(***************************************************************************)
EXTENDS Naturals, Sequences, FiniteSets

CONSTANTS Users,        \* the user ids of the clients
          Workers,      \* consumers of the friend-service topic
          NoUser,       \* the user id 0
          MaxRequests,  \* bound: rows of relationship_requests
          MaxOps        \* bound: client requests taken

ASSUME SocialAssumption ==
  /\ NoUser \notin Users
  /\ IsFiniteSet(Workers)
  /\ MaxRequests \in Nat
  /\ MaxOps \in Nat

VARIABLES group,     \* the row of the group, with its owner_user_id
          role,      \* role[u]: the group_members row of u, "none" without one
          friends,   \* the friends rows with is_delete = false, directed
          requests,  \* relationship_requests, in the order of their ids
          tx,        \* tx[w]: what worker w has checked and not yet written
          ops,       \* client requests still to come
          stale      \* history: some write followed an outdated check

vars == <<group, role, friends, requests, tx, ops, stale>>

Roles == {"owner", "admin", "member"}
Decisions == {"accepted", "rejected", "cancelled"}
RequestTypes == {"friend", "group_join", "group_invite"}

-----------------------------------------------------------------------------
(***************************************************************************)
(* What DataForwardingService lets through: the actor is always the        *)
(* authenticated user, and the checks on the ids are made before the       *)
(* request is published.                                                   *)
(***************************************************************************)
ClientRequest(op, actor, target, id, arg) ==
  [op |-> op, actor |-> actor, target |-> target, id |-> id, arg |-> arg]

\* Mutant: nobody compares the target with the sender.
PairsWithSelf == Users \X Users

Pairs == {p \in Users \X Users : p[1] # p[2]}

InsertContact ==
  {ClientRequest("add_friend", p[1], p[2], 0, "") : p \in Pairs}

DeleteContact ==
  {ClientRequest("remove_friend", p[1], p[2], 0, "") : p \in Pairs}

InsertGroup ==
  {ClientRequest("create_group", u, NoUser, 0, "") : u \in Users}

InsertGroupUser ==
  {ClientRequest("join_group", u, NoUser, 0, "") : u \in Users}

DeleteGroupUser ==
  {ClientRequest("leave_group", u, u, 0, "") : u \in Users}

InviteGroupMember ==
  {ClientRequest("invite", p[1], p[2], 0, "") : p \in Pairs}

KickGroupMember ==
  {ClientRequest("kick", p[1], p[2], 0, "") : p \in Pairs}

\* The one request in which the actor may name himself.
UpdateGroupMemberRole ==
  {ClientRequest("set_role", p[1], p[2], 0, r) :
     p \in Users \X Users, r \in Roles \ {"owner"}}

TransferOwner ==
  {ClientRequest("transfer", p[1], p[2], 0, "") : p \in Pairs}

ResolveFriendRequest ==
  {ClientRequest("resolve_friend", u, NoUser, i, d) :
     u \in Users, i \in DOMAIN requests, d \in Decisions}

ResolveGroupJoinRequest ==
  {ClientRequest("resolve_join", u, NoUser, i, d) :
     u \in Users, i \in DOMAIN requests, d \in Decisions}

ResolveGroupInvitation ==
  {ClientRequest("resolve_invite", u, NoUser, i, d) :
     u \in Users, i \in DOMAIN requests, d \in Decisions}

-----------------------------------------------------------------------------
(***************************************************************************)
(* The request rows.  `held' is active_key IS NOT NULL, `lapsed' says that *)
(* expires_at has passed.                                                  *)
(***************************************************************************)
Row(type, requester, target) ==
  [type |-> type, requester |-> requester, target |-> target,
   status |-> "pending", held |-> TRUE, lapsed |-> FALSE,
   resolvedBy |-> NoUser]

\* Whom accepting the request brings into the group.
GroupRequestUserID(r) ==
  IF r.type = "group_invite" THEN r.target ELSE r.requester

\* The active_key: one per unordered pair of users, or per group and user.
ActiveKey(r) ==
  <<r.type, IF r.type = "friend" THEN {r.requester, r.target}
                                 ELSE {GroupRequestUserID(r)}>>

\* Mutant: the closed row keeps its key.
CloseRequestKeepingKey(r, status, actor) ==
  [r EXCEPT !.status = status, !.resolvedBy = actor]

CloseRequest(r, status, actor) ==
  [r EXCEPT !.status = status, !.held = FALSE, !.resolvedBy = actor]

\* The bulk expiries clear the key too, and leave resolved_by alone.
Expired(r) == [r EXCEPT !.status = "expired", !.held = FALSE]

\* resolveRequest holds the row FOR UPDATE until it ends.
Locked(i) == \E w \in Workers : tx[w].id = i

Idle == ClientRequest("idle", NoUser, NoUser, 0, "")

\* The clock passes the seven days of a pending request.
Lapse(i) ==
  /\ requests[i].status = "pending"
  /\ ~requests[i].lapsed
  /\ requests' = [requests EXCEPT ![i].lapsed = TRUE]
  /\ UNCHANGED <<group, role, friends, tx, ops, stale>>

\* Listing requests first expires the ones of the user, of the group when
\* a manager lists its join requests.  The statement waits for locked rows.
ExpireRequests(affected) ==
  /\ affected # {}
  /\ \A i \in affected : ~Locked(i)
  /\ requests' = [i \in DOMAIN requests |->
                    IF i \in affected THEN Expired(requests[i])
                                      ELSE requests[i]]
  /\ UNCHANGED <<group, role, friends, tx, ops, stale>>

Overdue == {i \in DOMAIN requests :
              requests[i].status = "pending" /\ requests[i].lapsed}

ExpireRequestsForUser(u) ==
  ExpireRequests({i \in Overdue : u \in {requests[i].requester,
                                         requests[i].target}})

ExpireRequestsForGroup ==
  ExpireRequests({i \in Overdue : requests[i].type # "friend"})

CanManageGroup(r) == r \in {"owner", "admin"}

ListFriendRequests(u) == ExpireRequestsForUser(u)

ListGroupInvitations(u) == ExpireRequestsForUser(u)

ListGroupJoinRequests(u) ==
  /\ CanManageGroup(role[u])
  /\ ExpireRequestsForGroup

-----------------------------------------------------------------------------
(***************************************************************************)
(* What each two-step transaction reads before it writes.                  *)
(***************************************************************************)
CanKickGroupMember(actorRole, targetRole) ==
  /\ CanManageGroup(actorRole)
  /\ targetRole \in Roles \ {"owner"}
  /\ actorRole = "owner" \/ targetRole = "member"

CanChangeGroupMemberRole(actorRole, targetRole) ==
  actorRole = "owner" /\ targetRole \in Roles \ {"owner"}

CanResolveRequest(actor, r, decision) ==
  IF decision = "cancelled" THEN actor = r.requester
  ELSE IF r.type = "group_join" THEN CanManageGroup(role[actor])
  ELSE actor = r.target

ResolveType == [resolve_friend |-> "friend", resolve_join |-> "group_join",
                resolve_invite |-> "group_invite"]

\* addGroupMemberTx finds no live group: the transaction is rolled back.
CanApply(r, decision) ==
  decision = "accepted" /\ r.type # "friend" => group.state = "live"

\* Mutant: the status of the row is not looked at.
ResolvableAgain(c) ==
  /\ requests[c.id].type = ResolveType[c.op]
  /\ CanResolveRequest(c.actor, requests[c.id], c.arg)
  /\ CanApply(requests[c.id], c.arg)

Resolvable(c) ==
  /\ requests[c.id].type = ResolveType[c.op]
  /\ requests[c.id].status = "pending"
  /\ ~requests[c.id].lapsed
  /\ CanResolveRequest(c.actor, requests[c.id], c.arg)
  /\ CanApply(requests[c.id], c.arg)

FriendshipActive(u, v) == <<u, v>> \in friends

IsActiveGroupMember(u) == role[u] # "none"

HandleAddDirectFriend(c) == ~FriendshipActive(c.actor, c.target)

HandleAddGroupMember(c) ==
  ~IsActiveGroupMember(c.actor) /\ group.state = "live"

HandleInviteGroupMember(c) ==
  CanManageGroup(role[c.actor]) /\ ~IsActiveGroupMember(c.target)

HandleKickGroupMember(c) == CanKickGroupMember(role[c.actor], role[c.target])

HandleUpdateGroupMemberRole(c) ==
  CanChangeGroupMemberRole(role[c.actor], role[c.target])

HandleCreateGroup(c) == group.state # "live"

\* The first UPDATE of a removal found no active row to lock.
HandleRemoveDirectFriend(c) == ~FriendshipActive(c.actor, c.target)

HandleResolve(c) == ~Locked(c.id) /\ Resolvable(c)

\* The condition a transaction reads, without a lock, before it writes.
Check(c) ==
  CASE c.op = "kick"          -> HandleKickGroupMember(c)
    [] c.op = "set_role"      -> HandleUpdateGroupMemberRole(c)
    [] c.op = "create_group"  -> HandleCreateGroup(c)
    [] c.op = "add_friend"    -> HandleAddDirectFriend(c)
    [] c.op = "join_group"    -> HandleAddGroupMember(c)
    [] c.op = "invite"        -> HandleInviteGroupMember(c)
    [] c.op = "remove_friend" -> HandleRemoveDirectFriend(c)
    [] OTHER                  -> HandleResolve(c)

TwoSteps ==
  InsertContact \cup DeleteContact \cup InsertGroup \cup InsertGroupUser
    \cup InviteGroupMember \cup KickGroupMember \cup UpdateGroupMemberRole
    \cup ResolveFriendRequest \cup ResolveGroupJoinRequest
    \cup ResolveGroupInvitation

\* What creating a group found: no row to insert over, or a deleted one.
Seen(c) == IF c.op = "create_group" THEN [c EXCEPT !.arg = group.state] ELSE c

\* A worker takes a request from its partition and reads.
Begin(w) ==
  /\ tx[w] = Idle
  /\ ops > 0
  /\ \E c \in TwoSteps :
       /\ Check(c)
       /\ tx' = [tx EXCEPT ![w] = Seen(c)]
  /\ ops' = ops - 1
  /\ UNCHANGED <<group, role, friends, requests, stale>>

\* The transaction fails (a deadlock, a conflicting insert, a lost
\* connection) and the request is delivered again.
Abort(w) ==
  /\ tx[w] # Idle
  /\ tx' = [tx EXCEPT ![w] = Idle]
  /\ ops' = ops + 1
  /\ UNCHANGED <<group, role, friends, requests, stale>>

Finish(w) ==
  /\ tx' = [tx EXCEPT ![w] = Idle]
  /\ UNCHANGED ops

Outdated(w) == stale' = (stale \/ ~Check(tx[w]))

-----------------------------------------------------------------------------
(***************************************************************************)
(* The writes.                                                             *)
(***************************************************************************)
\* DELETE by group and user: whatever the role is by now.
KickGroupMemberBy(w) ==
  /\ tx[w].op = "kick"
  /\ role' = [role EXCEPT ![tx[w].target] = "none"]
  /\ Outdated(w)
  /\ Finish(w)
  /\ UNCHANGED <<group, friends, requests>>

\* UPDATE by group and user: no row, nothing changed.
UpdateGroupMemberRoleBy(w) ==
  /\ tx[w].op = "set_role"
  /\ role' = [role EXCEPT ![tx[w].target] =
                IF @ = "none" THEN "none" ELSE tx[w].arg]
  /\ Outdated(w)
  /\ Finish(w)
  /\ UNCHANGED <<group, friends, requests>>

\* A missing group is inserted, and a second insert fails on the key; a
\* deleted one is taken over without looking again.
CreateGroupWithOwner(w) ==
  /\ tx[w].op = "create_group"
  /\ tx[w].arg = "absent" => group.state = "absent"
  /\ group' = [state |-> "live", owner |-> tx[w].actor]
  /\ role' = [role EXCEPT ![tx[w].actor] = "owner"]
  /\ stale' = (stale \/ group.state = "live")
  /\ Finish(w)
  /\ UNCHANGED <<friends, requests>>

\* What each kind of request asks for.
CreateFriendRequest(c) == Row("friend", c.actor, c.target)

CreateGroupJoinRequest(c) == Row("group_join", c.actor, NoUser)

CreateGroupInvitation(c) == Row("group_invite", c.actor, c.target)

Wanted(c) ==
  CASE c.op = "add_friend" -> CreateFriendRequest(c)
    [] c.op = "join_group" -> CreateGroupJoinRequest(c)
    [] c.op = "invite"     -> CreateGroupInvitation(c)

\* Overdue requests with the key are expired; one that still holds the key
\* is returned as it is; else the row is inserted (ON CONFLICT DO NOTHING).
CreatePendingRequest(w) ==
  /\ tx[w].op \in {"add_friend", "join_group", "invite"}
  /\ LET row == Wanted(tx[w])
         same == {i \in DOMAIN requests :
                    requests[i].held /\ ActiveKey(requests[i]) = ActiveKey(row)}
         after == [i \in DOMAIN requests |->
                     IF i \in same \cap Overdue THEN Expired(requests[i])
                                                ELSE requests[i]]
     IN  /\ \A i \in same \cap Overdue : ~Locked(i)
         /\ \/ /\ same \subseteq Overdue
               /\ Len(requests) < MaxRequests
               /\ requests' = Append(after, row)
            \/ /\ ~(same \subseteq Overdue)
               /\ requests' = after
  /\ Finish(w)
  /\ UNCHANGED <<group, role, friends, stale>>

\* Both rows become active, whether they existed or not.
AddDirectFriendPair(r) == friends \cup {<<r.requester, r.target>>,
                                        <<r.target, r.requester>>}

\* Mutant: an existing member's row is written over.
AddGroupMemberOver(r) == [role EXCEPT ![GroupRequestUserID(r)] = "member"]

\* A member keeps his role.
AddGroupMember(r) ==
  [role EXCEPT ![GroupRequestUserID(r)] = IF @ = "none" THEN "member" ELSE @]

ResolveRequest(w) ==
  LET c == tx[w]
      r == requests[c.id]
  IN  /\ c.op \in DOMAIN ResolveType
      /\ friends' = IF c.arg = "accepted" /\ r.type = "friend"
                      THEN AddDirectFriendPair(r) ELSE friends
      /\ role' = IF c.arg = "accepted" /\ r.type # "friend"
                   THEN AddGroupMember(r) ELSE role
      /\ requests' = [requests EXCEPT ![c.id] = CloseRequest(r, c.arg, c.actor)]
      /\ Finish(w)
      /\ UNCHANGED <<group, stale>>

\* A request found overdue when it is resolved is closed as expired.
ResolveOverdue(i) ==
  /\ i \in Overdue
  /\ ~Locked(i)
  /\ ops > 0
  /\ \E u \in Users :
       requests' = [requests EXCEPT ![i] = CloseRequest(@, "expired", u)]
  /\ ops' = ops - 1
  /\ UNCHANGED <<group, role, friends, tx, stale>>

\* The second UPDATE of a removal whose first one found no active row; after
\* an acceptance in between it leaves a friendship in one direction.
RemoveOtherDirection(w) ==
  /\ tx[w].op = "remove_friend"
  /\ friends' = friends \ {<<tx[w].target, tx[w].actor>>}
  /\ Finish(w)
  /\ UNCHANGED <<group, role, requests, stale>>

\* A removal whose first UPDATE found its row holds it locked, and an
\* acceptance between the same users waits: one step.
RemoveDirectFriendPair(w) ==
  /\ tx[w] = Idle
  /\ ops > 0
  /\ \E c \in DeleteContact :
       /\ <<c.actor, c.target>> \in friends
       /\ friends' = friends \ {<<c.actor, c.target>>, <<c.target, c.actor>>}
  /\ ops' = ops - 1
  /\ UNCHANGED <<group, role, requests, tx, stale>>

-----------------------------------------------------------------------------
(***************************************************************************)
(* Leaving and handing over, with the group row locked.                    *)
(***************************************************************************)
Others(u) == {v \in Users \ {u} : role[v] # "none"}

\* The row of the next owner is updated before the leaver's is deleted.
Succeeded(u, s) == [role EXCEPT ![u] = "none", ![s] = "owner"]

\* Admins first, then the longest unchanged row: any of the best rank.
Successors(u) ==
  LET admins == {v \in Others(u) : role[v] = "admin"}
  IN  IF admins # {} THEN admins ELSE Others(u)

\* With no one left the group is deleted.
RemoveUserFromGroup(u) ==
  /\ group.state = "live"
  /\ IsActiveGroupMember(u)
  /\ \/ /\ group.owner = u
        /\ \E s \in Successors(u) :
             /\ group' = [group EXCEPT !.owner = s]
             /\ role' = Succeeded(u, s)
     \/ /\ group.owner = u
        /\ Others(u) = {}
        /\ group' = [group EXCEPT !.state = "deleted"]
        /\ role' = [role EXCEPT ![u] = "none"]
     \/ /\ group.owner # u
        /\ role' = [role EXCEPT ![u] = "none"]
        /\ UNCHANGED group

\* A request that is one step: taken, locked, written.
InOneStep(w) ==
  /\ tx[w] = Idle
  /\ ops > 0
  /\ ops' = ops - 1
  /\ UNCHANGED <<friends, requests, tx, stale>>

HandleRemoveGroupMember(w) ==
  /\ InOneStep(w)
  /\ \E c \in DeleteGroupUser : RemoveUserFromGroup(c.actor)

\* The rows are counted before the commit: not one owner, rolled back.
TransferGroupOwner(u, v) ==
  /\ group.state = "live"
  /\ group.owner = u
  /\ role[u] = "owner"
  /\ IsActiveGroupMember(v)
  /\ group' = [group EXCEPT !.owner = v]
  /\ role' = [role EXCEPT ![v] = "owner", ![u] = "admin"]
  /\ Cardinality({x \in Users : role'[x] = "owner"}) = 1

HandleTransferGroupOwner(w) ==
  /\ InOneStep(w)
  /\ \E c \in TransferOwner : TransferGroupOwner(c.actor, c.target)

-----------------------------------------------------------------------------
\* A group that creating, joining and appointing can have built.
WellFormed(g, rs) ==
  \/ g.state = "absent" /\ g.owner = NoUser /\ \A u \in Users : rs[u] = "none"
  \/ /\ g.state = "live"
     /\ {u \in Users : rs[u] = "owner"} = {g.owner}

Init ==
  /\ group \in [state : {"absent", "live"}, owner : Users \cup {NoUser}]
  /\ role \in [Users -> Roles \cup {"none"}]
  /\ WellFormed(group, role)
  /\ friends = {}
  /\ requests = <<>>
  /\ tx = [w \in Workers |-> Idle]
  /\ ops = MaxOps
  /\ stale = FALSE

Next ==
  \/ \E w \in Workers :
       \/ Begin(w)
       \/ Abort(w)
       \/ KickGroupMemberBy(w)
       \/ UpdateGroupMemberRoleBy(w)
       \/ CreateGroupWithOwner(w)
       \/ CreatePendingRequest(w)
       \/ ResolveRequest(w)
       \/ RemoveOtherDirection(w)
       \/ RemoveDirectFriendPair(w)
       \/ HandleRemoveGroupMember(w)
       \/ HandleTransferGroupOwner(w)
  \/ \E i \in DOMAIN requests : Lapse(i) \/ ResolveOverdue(i)
  \/ \E u \in Users :
       \/ ListFriendRequests(u)
       \/ ListGroupInvitations(u)
       \/ ListGroupJoinRequests(u)

Spec == Init /\ [][Next]_vars

-----------------------------------------------------------------------------
(***************************************************************************)
(* Properties.                                                             *)
(***************************************************************************)
\* Types of the rows and of the transactions in progress.
TypeOK ==
  /\ group \in [state : {"absent", "live", "deleted"},
                owner : Users \cup {NoUser}]
  /\ role \in [Users -> Roles \cup {"none"}]
  /\ friends \subseteq Users \X Users
  /\ \A p \in friends : p[1] # p[2]
  /\ Len(requests) <= MaxRequests
  /\ \A i \in DOMAIN requests :
       requests[i] \in [type : RequestTypes, requester : Users,
                        target : Users \cup {NoUser},
                        status : {"pending", "expired"} \cup Decisions,
                        held : BOOLEAN, lapsed : BOOLEAN,
                        resolvedBy : Users \cup {NoUser}]
  /\ \A w \in Workers :
       /\ tx[w].actor \in Users \cup {NoUser}
       /\ tx[w].target \in Users \cup {NoUser}
       /\ tx[w].id \in {0} \cup DOMAIN requests
  /\ ops \in 0 .. MaxOps
  /\ stale \in BOOLEAN

\* Leaving, succession, handing over, appointing, kicking and reviving,
\* however they interleave: unless a kick, an appointment or a creation was
\* written on an outdated check, a live group has exactly one owner row, the
\* one owner_user_id names, and a deleted group has none.
OneOwner ==
  ~stale =>
    {u \in Users : role[u] = "owner"} =
      IF group.state = "live" THEN {group.owner} ELSE {}

\* A request holds its key while it is pending and no longer, and no two
\* hold the same one: repeated and crossing submissions share one request,
\* and a resolved one never stands in the way of the next.
OnePending ==
  /\ \A i \in DOMAIN requests :
       requests[i].held <=> requests[i].status = "pending"
  /\ \A i, j \in DOMAIN requests :
       /\ requests[i].held
       /\ requests[j].held
       /\ ActiveKey(requests[i]) = ActiveKey(requests[j])
       => i = j

\* The request i is accepted in this step.
Accepts(i) ==
  /\ requests[i].status = "pending"
  /\ requests'[i].status = "accepted"

\* Every new friend and every new member of this step was accepted.
Consented ==
  /\ \A p \in friends' \ friends : \E i \in DOMAIN requests :
       /\ Accepts(i)
       /\ requests[i].type = "friend"
       /\ {requests[i].requester, requests[i].target} = {p[1], p[2]}
       /\ requests'[i].resolvedBy = requests[i].target
  /\ \A u \in Users : role[u] = "none" /\ role'[u] # "none" =>
       \/ group'.state = "live" /\ group'.owner = u
       \/ \E i \in DOMAIN requests :
            /\ Accepts(i)
            /\ requests[i].type # "friend"
            /\ GroupRequestUserID(requests[i]) = u
            /\ requests[i].type = "group_invite" => requests'[i].resolvedBy = u

\* Nobody becomes a friend or a member without a fresh acceptance: a pending
\* friend request between the two that its target accepts, a pending group
\* request about the member (an invitation by himself), or creating the
\* group.  An acceptance sent again after a removal or a kick undoes nothing.
FreshConsent == [][Consented]_vars
=============================================================================
