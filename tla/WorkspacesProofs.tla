--------------------------- MODULE WorkspacesProofs ---------------------------
(***************************************************************************)
(* Theorems about Workspaces, for every value of its constants.            *)
(***************************************************************************)
EXTENDS Workspaces, TLAPS

\* What a step may do to the tables while other requests are between two
\* statements: ids stay founded, an owner changes only by deletion, and the
\* owner of a sandbox not at all.
TablesAdvance ==
  /\ Founded \subseteq Founded'
  /\ \A w \in Founded : owner'[w] \in {owner[w], NoUser}
  /\ \A w \in Personal : owner[w] # NoUser => owner'[w] = owner[w]

TablesConsistent ==
  /\ owner \in [WorkspaceIds -> UserIds]
  /\ members \in [WorkspaceIds -> [UserIds -> Roles \cup {NoRole}]]
  /\ invites \in [Invites -> InviteRows \cup {NoInvite}]
  /\ spent \subseteq Shared \cup Invites
  /\ OwnerIsMember
  /\ \A w \in WorkspaceIds : owner[w] # NoUser => w \in Founded
  /\ \A w \in Personal : owner[w] # NoUser => PersonalOf[owner[w]] = w
  /\ \A i \in Invites : invites[i] # NoInvite => i \in spent

\* A request that gives its slot the locals it needs next, and leaves the tables
\* consistent and advancing, leaves every request consistent with them: the
\* others' earlier checks have not been undone.
LEMMA StepKeepsLocals ==
  ASSUME Consistent, NEW r \in Requests, NEW locals \in RequestRows,
         Become(r, locals), LocalsOK(request[r])', TablesConsistent', TablesAdvance
  PROVE  Consistent'
<1>1. request' \in [Requests -> RequestRows] /\ request'[r] = locals
  BY DEF Consistent, TypeOK, Become
<1>2. \A q \in Requests : q # r => request'[q] = request[q]
  BY DEF Consistent, TypeOK, Become
<1>3. ASSUME NEW q \in Requests, q # r PROVE LocalsOK(request[q])'
  <2>1. LocalsOK(request[q]) /\ request'[q] = request[q] /\ request[q] \in RequestRows
    BY <1>2, <1>3 DEF Consistent, TypeOK
  <2>2. request[q].pc = "resolving" => request[q].user \in Users
    BY <2>1 DEF LocalsOK
  <2>3. request[q].pc = "resolving" => PersonalOf[request[q].user] \in Personal
    BY <2>2 DEF Personal
  <2>4. request[q].pc = "removing" =>
          owner'[request[q].ws] \in {owner[request[q].ws], NoUser}
    BY <2>1 DEF LocalsOK, TablesAdvance
  <2> QED
    BY <2>1, <2>2, <2>3, <2>4, WorkspacesAssumption DEF LocalsOK, TablesAdvance
<1> QED
  BY <1>1, <1>3 DEF Consistent, TablesConsistent, TypeOK

\* A step that changes no table.
LEMMA LocalStep ==
  ASSUME Consistent, NEW r \in Requests, NEW locals \in RequestRows,
         Become(r, locals), LocalsOK(locals),
         UNCHANGED <<owner, members, invites, spent>>
  PROVE  Consistent'
<1>1. request'[r] = locals
  BY DEF Consistent, TypeOK, Become
<1>2. Founded' = Founded
  BY DEF Founded
<1>3. LocalsOK(request[r])'
  BY <1>1, <1>2 DEF LocalsOK
<1>4. TablesConsistent'
  BY <1>2 DEF Consistent, TypeOK, TablesConsistent, OwnerIsMember
<1>5. TablesAdvance
  BY <1>2 DEF TablesAdvance
<1> QED
  BY <1>3, <1>4, <1>5, StepKeepsLocals

LEMMA IdleType == Idle \in RequestRows /\ LocalsOK(Idle)
  BY DEF Idle, RequestRows, LocalsOK, Pcs, UserIds

LEMMA InitConsistent == Init => Consistent
<1> SUFFICES ASSUME Init PROVE Consistent
  OBVIOUS
<1>1. TypeOK
  BY IdleType DEF Init, TypeOK, UserIds
<1> QED
  BY <1>1, IdleType DEF Init, Consistent, OwnerIsMember, WorkspaceIds

-----------------------------------------------------------------------------
(* The middleware.                                                          *)

LEMMA SnapshotType ==
  ASSUME TypeOK, NEW i \in Invites, invites[i] # NoInvite
  PROVE  Snapshot(i) \in Snapshots
  BY DEF TypeOK, InviteRows, Snapshot, Snapshots

LEMMA AuthenticatedOK ==
  ASSUME NEW u \in Users, NEW tenant \in WorkspaceIds \cup {NoWs}
  PROVE  Authenticated(u, tenant) \in RequestRows /\ LocalsOK(Authenticated(u, tenant))
  BY DEF Authenticated, Idle, RequestRows, LocalsOK, Pcs, Roles, UserIds

LEMMA ArriveKeeps ==
  ASSUME Consistent, NEW r \in Requests, NEW u \in Users, Arrive(r, u)
  PROVE  Consistent'
<1>1. PICK tenant \in {NoWs} \cup IF u = Agent THEN Tenants ELSE {},
           email \in Emails \cup {NoEmail} :
        \E found \in {{}} \cup IF email = NoEmail THEN {}
                               ELSE {{Snapshot(i) : i \in Claimable(email)}} :
          Become(r, IF found = {} THEN Authenticated(u, tenant)
                    ELSE [Idle EXCEPT !.pc = "accepting", !.user = u,
                                      !.ws = tenant, !.snaps = found])
  BY DEF Arrive
<1>1a. PICK found \in {{}} \cup IF email = NoEmail THEN {}
                              ELSE {{Snapshot(i) : i \in Claimable(email)}} :
        Become(r, IF found = {} THEN Authenticated(u, tenant)
                  ELSE [Idle EXCEPT !.pc = "accepting", !.user = u,
                                    !.ws = tenant, !.snaps = found])
  BY <1>1
<1> DEFINE waiting == [Idle EXCEPT !.pc = "accepting", !.user = u,
                                   !.ws = tenant, !.snaps = found]
<1>2. tenant \in WorkspaceIds \cup {NoWs}
  BY WorkspacesAssumption
<1>3. found \in SUBSET Snapshots
  BY SnapshotType DEF Claimable, Pending, Consistent
<1>4. waiting \in RequestRows /\ LocalsOK(waiting)
  BY <1>2, <1>3 DEF Idle, RequestRows, LocalsOK, Pcs, UserIds
<1>5. UNCHANGED <<owner, members, invites, spent>>
  BY DEF Arrive
<1>6. CASE found = {}
  BY <1>1a, <1>2, <1>5, <1>6, AuthenticatedOK, LocalStep
<1>7. CASE found # {}
  <2>1. Become(r, waiting)
    BY <1>1a, <1>7
  <2> HIDE DEF waiting
  <2> QED
    BY <1>4, <1>5, <2>1, LocalStep
<1> QED
  BY <1>6, <1>7

LEMMA ArriveWithoutUserKeeps ==
  ASSUME Consistent, NEW r \in Requests, ArriveWithoutUser(r)
  PROVE  Consistent'
<1> DEFINE locals == [Idle EXCEPT !.pc = "ready"]
<1>1. locals \in RequestRows /\ LocalsOK(locals)
  BY DEF Idle, RequestRows, LocalsOK, Pcs, UserIds
<1>2. Become(r, locals) /\ UNCHANGED <<owner, members, invites, spent>>
  BY DEF ArriveWithoutUser
<1> HIDE DEF locals
<1> QED
  BY <1>1, <1>2, LocalStep

\* The user of a request, and where a request holds what it read.
LEMMA RequestType ==
  ASSUME Consistent, NEW r \in Requests
  PROVE  /\ request[r] \in RequestRows
         /\ LocalsOK(request[r])
         /\ request[r].user \in UserIds
         /\ request[r].pc \in {"accepting", "probing", "sandboxing", "resolving",
                              "claiming"} => request[r].user \in Users
         /\ request[r].pc \notin {"accepting", "claiming"} => request[r].snaps = {}
  BY DEF Consistent, TypeOK, LocalsOK, RequestRows

LEMMA AutoAcceptFailsKeeps ==
  ASSUME Consistent, NEW r \in Requests, AutoAcceptFails(r)
  PROVE  Consistent'
<1>1. request[r].user \in Users /\ request[r].ws \in WorkspaceIds \cup {NoWs}
  BY RequestType DEF AutoAcceptFails, RequestRows
<1> QED
  BY <1>1, AuthenticatedOK, LocalStep DEF AutoAcceptFails

LEMMA ProbeSandboxKeeps ==
  ASSUME Consistent, NEW r \in Requests, ProbeSandbox(r)
  PROVE  Consistent'
<1> DEFINE locals == [request[r] EXCEPT
                        !.pc = IF owner[PersonalOf[request[r].user]] # NoUser
                               THEN "resolving" ELSE "sandboxing"]
<1>1. locals \in RequestRows /\ LocalsOK(locals)
  BY RequestType DEF ProbeSandbox, RequestRows, LocalsOK, Pcs
<1>2. Become(r, locals) /\ UNCHANGED <<owner, members, invites, spent>>
  BY DEF ProbeSandbox
<1> HIDE DEF locals
<1> QED
  BY <1>1, <1>2, LocalStep

LEMMA ResolveKeeps ==
  ASSUME Consistent, NEW r \in Requests, Resolve(r)
  PROVE  Consistent'
<1> DEFINE u == request[r].user
           locals(w) == [Idle EXCEPT !.pc = "ready", !.user = u, !.ws = w,
                                     !.role = members[w][u]]
<1>1. u \in UserIds
  BY RequestType
<1>2. PICK w \in MembershipsOf(u) : Become(r, locals(w))
  BY DEF Resolve, Resolutions
<1>3. w \in WorkspaceIds /\ members[w][u] \in Roles \cup {NoRole}
  BY <1>1, <1>2 DEF MembershipsOf, Consistent, TypeOK
<1>4. locals(w) \in RequestRows /\ LocalsOK(locals(w))
  BY <1>1, <1>3 DEF Idle, RequestRows, LocalsOK, Pcs, UserIds
<1>5. UNCHANGED <<owner, members, invites, spent>>
  BY DEF Resolve
<1> HIDE DEF locals
<1> QED
  BY <1>2, <1>4, <1>5, LocalStep

LEMMA ResolveFailsKeeps ==
  ASSUME Consistent, NEW r \in Requests, ResolveFails(r)
  PROVE  Consistent'
<1> DEFINE locals == [Idle EXCEPT !.pc = "ready", !.user = request[r].user]
<1>1. locals \in RequestRows /\ LocalsOK(locals)
  BY RequestType DEF Idle, RequestRows, LocalsOK, Pcs, UserIds
<1>2. Become(r, locals) /\ UNCHANGED <<owner, members, invites, spent>>
  BY DEF ResolveFails
<1> HIDE DEF locals
<1> QED
  BY <1>1, <1>2, LocalStep

LEMMA FailRequestKeeps ==
  ASSUME Consistent, NEW r \in Requests, FailRequest(r)
  PROVE  Consistent'
  BY IdleType, LocalStep DEF FailRequest, Respond

-----------------------------------------------------------------------------
(* The members of the active workspace.                                     *)

\* A step that gives one user id a role in one workspace, or takes it from one that
\* is not the owner, and may settle invitations.
LEMMA MembersStep ==
  ASSUME Consistent, NEW w \in WorkspaceIds, NEW u \in UserIds,
         NEW role \in Roles \cup {NoRole}, role = NoRole /\ u # NoUser => owner[w] # u,
         members' = [members EXCEPT ![w][u] = role],
         UNCHANGED <<owner, spent>>,
         invites' \in [Invites -> InviteRows \cup {NoInvite}],
         \A i \in Invites : invites'[i] # NoInvite => i \in spent
  PROVE  TablesConsistent' /\ TablesAdvance
<1>1. members' \in [WorkspaceIds -> [UserIds -> Roles \cup {NoRole}]]
  BY DEF Consistent, TypeOK
<1>2. \A v \in WorkspaceIds, x \in UserIds :
        members'[v][x] = IF v = w /\ x = u THEN role ELSE members[v][x]
  BY DEF Consistent, TypeOK
<1>3. OwnerIsMember'
  BY <1>2 DEF OwnerIsMember, Consistent, TypeOK
<1>4. Founded' = Founded
  BY DEF Founded
<1> QED
  BY <1>1, <1>3, <1>4 DEF Consistent, TypeOK, TablesConsistent, TablesAdvance

LEMMA RoleFacts == NoRole \notin Roles /\ "Admin" \in Roles
  BY DEF Roles, NoRole

\* Only an owner that exists can be told from the member to remove.
LEMMA FoundedIds == Founded \subseteq WorkspaceIds
  BY DEF Founded, WorkspaceIds

LEMMA AddWorkspaceMemberKeeps ==
  ASSUME Consistent, NEW r \in Requests, NEW u \in Users, NEW role \in GrantRoles,
         AddWorkspaceMember(r, u, role)
  PROVE  Consistent'
<1>1. request[r].ws \in WorkspaceIds /\ role \in Roles /\ u \in UserIds
  BY RequestType, WorkspacesAssumption DEF AddWorkspaceMember, MayManage, RequestRows, UpsertMember, UserIds
<1>2. TablesConsistent' /\ TablesAdvance
  BY <1>1, RoleFacts, MembersStep DEF AddWorkspaceMember, Consistent, TypeOK, UpsertMember
<1>3. LocalsOK(request[r])' /\ Become(r, Idle)
  BY IdleType DEF AddWorkspaceMember, Respond, Become, Consistent, TypeOK, LocalsOK, Idle, UpsertMember
<1> QED
  BY <1>2, <1>3, IdleType, StepKeepsLocals

LEMMA RemoveChecksOwnerKeeps ==
  ASSUME Consistent, NEW r \in Requests, NEW u \in UserIds, RemoveChecksOwner(r, u)
  PROVE  Consistent'
<1> DEFINE locals == [Idle EXCEPT !.pc = "removing", !.ws = request[r].ws,
                                  !.subject = u]
<1>1. request[r].ws \in WorkspaceIds
  BY RequestType DEF RemoveChecksOwner, MayManage, RequestRows
<1>2. request[r].ws \in Founded /\ owner[request[r].ws] # u
  BY <1>1 DEF RemoveChecksOwner, Consistent
<1>3. locals \in RequestRows /\ LocalsOK(locals)
  BY <1>1, <1>2 DEF Idle, RequestRows, LocalsOK, Pcs, UserIds
<1>4. Become(r, locals) /\ UNCHANGED <<owner, members, invites, spent>>
  BY DEF RemoveChecksOwner
<1> HIDE DEF locals
<1> QED
  BY <1>3, <1>4, LocalStep

LEMMA RemoveWorkspaceMemberKeeps ==
  ASSUME Consistent, NEW r \in Requests, RemoveWorkspaceMember(r)
  PROVE  Consistent'
<1>1. /\ request[r].ws \in WorkspaceIds /\ request[r].subject \in UserIds
      /\ request[r].subject # NoUser => owner[request[r].ws] # request[r].subject
  BY RequestType, FoundedIds DEF RemoveWorkspaceMember, LocalsOK, RequestRows
<1>2. /\ members' = [members EXCEPT ![request[r].ws][request[r].subject] = NoRole]
      /\ UNCHANGED <<owner, spent>>
      /\ invites' \in [Invites -> InviteRows \cup {NoInvite}]
      /\ \A i \in Invites : invites'[i] # NoInvite => i \in spent
  BY DEF RemoveWorkspaceMember, Consistent, TypeOK
<1>4. TablesConsistent' /\ TablesAdvance
  BY <1>1, <1>2, MembersStep
<1>3. LocalsOK(request[r])' /\ Become(r, Idle)
  BY IdleType DEF RemoveWorkspaceMember, Respond, Become, Consistent, TypeOK, LocalsOK, Idle
<1> QED
  BY <1>3, <1>4, IdleType, StepKeepsLocals

LEMMA CreateUserKeeps ==
  ASSUME Consistent, NEW r \in Requests, NEW u \in UserIds, CreateUser(r, u)
  PROVE  Consistent'
<1> DEFINE role == IF members[DefaultWs][u] = NoRole THEN "Admin"
                   ELSE members[DefaultWs][u]
<1>1. DefaultWs \in WorkspaceIds
  BY DEF WorkspaceIds
<1>2. role \in Roles /\ members' = [members EXCEPT ![DefaultWs][u] = role]
  BY <1>1, RoleFacts DEF CreateUser, Consistent, TypeOK
<1>3. UNCHANGED <<owner, invites, spent>>
  BY DEF CreateUser
<1> HIDE DEF role
<1>4. TablesConsistent' /\ TablesAdvance
  BY <1>1, <1>2, <1>3, RoleFacts, MembersStep DEF Consistent, TypeOK
<1>5. LocalsOK(request[r])' /\ Become(r, Idle)
  BY IdleType DEF CreateUser, Respond, Become, Consistent, TypeOK, LocalsOK, Idle
<1> QED
  BY <1>4, <1>5, IdleType, StepKeepsLocals

-----------------------------------------------------------------------------
(* Accepting an invitation, by signing in or by its token.                  *)

LEMMA EnrolStep ==
  ASSUME Consistent, NEW s \in Snapshots, NEW u \in UserIds,
         NEW From \in SUBSET Statuses, Enrol(s, u, From), UNCHANGED <<owner, spent>>
  PROVE  TablesConsistent' /\ TablesAdvance
<1>1. s.id \in Invites /\ s.ws \in WorkspaceIds /\ s.role \in Roles
  BY DEF Snapshots
<1>2. invites[s.id] # NoInvite =>
        [invites EXCEPT ![s.id].status = "accepted"]
          \in [Invites -> InviteRows \cup {NoInvite}]
  BY <1>1 DEF Consistent, TypeOK, InviteRows, Statuses
<1>3. invites' \in [Invites -> InviteRows \cup {NoInvite}]
  BY <1>2 DEF Enrol, Consistent, TypeOK, UpsertMember
<1>4. \A i \in Invites : invites'[i] # NoInvite => invites[i] # NoInvite
  BY <1>1 DEF Enrol, Consistent, TypeOK, UpsertMember
<1>5. \A i \in Invites : invites'[i] # NoInvite => i \in spent
  BY <1>4 DEF Consistent
<1>6. members' = [members EXCEPT ![s.ws][u] = s.role]
  BY DEF Enrol, UpsertMember
<1> QED
  BY <1>1, <1>3, <1>5, <1>6, RoleFacts, MembersStep

LEMMA AutoAcceptKeeps ==
  ASSUME Consistent, NEW r \in Requests, NEW s \in request[r].snaps, AutoAccept(r, s)
  PROVE  Consistent'
<1> DEFINE locals == IF request[r].snaps = {s}
                     THEN Authenticated(request[r].user, request[r].ws)
                     ELSE [request[r] EXCEPT !.snaps = @ \ {s}]
<1>1. /\ request[r].user \in Users /\ request[r].user \in UserIds
      /\ request[r].ws \in WorkspaceIds \cup {NoWs}
      /\ s \in Snapshots /\ request[r].pc = "accepting"
  BY RequestType DEF AutoAccept, RequestRows
<1>2. TablesConsistent' /\ TablesAdvance
  BY <1>1, EnrolStep DEF AutoAccept
<1>3. locals \in RequestRows /\ locals.pc \in {"ready", "probing", "accepting"}
      /\ locals.user \in Users /\ (locals.snaps # {} => locals.pc = "accepting")
  <2>1. CASE request[r].snaps = {s}
    BY <1>1, <2>1, AuthenticatedOK DEF Authenticated, Idle
  <2>2. CASE request[r].snaps # {s}
    BY <1>1, <2>2, RequestType DEF RequestRows
  <2> QED
    BY <2>1, <2>2
<1>4. Become(r, locals)
  BY DEF AutoAccept
<1> HIDE DEF locals
<1>5. request'[r] = locals
  BY <1>4 DEF Become, Consistent, TypeOK
<1>6. LocalsOK(request[r])'
  BY <1>3, <1>5 DEF LocalsOK
<1> QED
  BY <1>2, <1>3, <1>4, <1>6, StepKeepsLocals

LEMMA ClaimInvitationKeeps ==
  ASSUME Consistent, NEW r \in Requests, NEW s \in request[r].snaps,
         ClaimInvitation(r, s)
  PROVE  Consistent'
<1>1. request[r].user \in UserIds /\ s \in Snapshots
  BY RequestType DEF ClaimInvitation, RequestRows
<1>2. TablesConsistent' /\ TablesAdvance
  BY <1>1, EnrolStep DEF ClaimInvitation, Statuses
<1>3. LocalsOK(request[r])' /\ Become(r, Idle)
  BY IdleType DEF ClaimInvitation, Respond, Become, Consistent, TypeOK, LocalsOK, Idle
<1> QED
  BY <1>2, <1>3, IdleType, StepKeepsLocals

-----------------------------------------------------------------------------
(* Workspaces that begin and end.                                           *)

LEMMA CreateSandboxKeeps ==
  ASSUME Consistent, NEW r \in Requests, CreateSandbox(r)
  PROVE  Consistent'
<1> DEFINE u == request[r].user
           w == PersonalOf[u]
           role == IF members[w][u] = NoRole THEN "Admin" ELSE members[w][u]
           locals == [request[r] EXCEPT !.pc = "resolving"]
<1>1. u \in Users /\ u \in UserIds /\ w \in Personal /\ w \in WorkspaceIds
  BY RequestType DEF CreateSandbox, Personal, WorkspaceIds, UserIds
<1>2. role \in Roles
  BY <1>1, RoleFacts DEF Consistent, TypeOK
<1>3. /\ members' = [members EXCEPT ![w][u] = role]
      /\ owner' = [owner EXCEPT ![w] = IF @ = NoUser THEN u ELSE @]
      /\ UNCHANGED <<invites, spent>>
      /\ Become(r, locals)
  BY DEF CreateSandbox
<1>4. /\ owner \in [WorkspaceIds -> UserIds]
      /\ members \in [WorkspaceIds -> [UserIds -> Roles \cup {NoRole}]]
  BY DEF Consistent, TypeOK
<1> HIDE DEF u, role
<1>5. /\ owner' \in [WorkspaceIds -> UserIds]
      /\ \A v \in WorkspaceIds :
           owner'[v] = IF v = w /\ owner[v] = NoUser THEN u ELSE owner[v]
  BY <1>1, <1>3, <1>4
<1>6. /\ members' \in [WorkspaceIds -> [UserIds -> Roles \cup {NoRole}]]
      /\ \A v \in WorkspaceIds, x \in UserIds :
           members'[v][x] = IF v = w /\ x = u THEN role ELSE members[v][x]
  BY <1>1, <1>2, <1>3, <1>4
<1>7. Founded' = Founded \cup {w}
  BY <1>1, <1>3, <1>5, WorkspacesAssumption DEF Founded, WorkspaceIds
<1>8. TablesAdvance
  <2>1. owner[w] = NoUser => w \notin Founded
    BY <1>1, WorkspacesAssumption DEF Founded
  <2> QED
    BY <1>5, <1>7, <2>1, FoundedIds DEF TablesAdvance, WorkspaceIds
<1>9. TablesConsistent'
  <2>1. OwnerIsMember'
    BY <1>2, <1>4, <1>5, <1>6, RoleFacts DEF OwnerIsMember, Consistent
  <2>2. \A v \in WorkspaceIds : owner'[v] # NoUser => v \in Founded'
    BY <1>5, <1>7 DEF Consistent
  <2>3. \A v \in Personal : owner'[v] # NoUser => PersonalOf[owner'[v]] = v
    BY <1>5 DEF Consistent, WorkspaceIds
  <2> QED
    BY <1>3, <1>5, <1>6, <2>1, <2>2, <2>3 DEF TablesConsistent, Consistent, TypeOK
<1>10. locals \in RequestRows /\ locals.pc = "resolving" /\ locals.user = u
       /\ locals.snaps = {}
  BY RequestType DEF CreateSandbox, RequestRows, Pcs, u
<1> HIDE DEF locals
<1>11. LocalsOK(request[r])'
  <2>1. request'[r] = locals
    BY <1>3 DEF Become, Consistent, TypeOK
  <2> QED
    BY <1>1, <1>5, <1>10, <2>1, WorkspacesAssumption DEF LocalsOK
<1> QED
  BY <1>3, <1>8, <1>9, <1>10, <1>11, StepKeepsLocals

LEMMA CreateWorkspaceKeeps ==
  ASSUME Consistent, NEW r \in Requests, NEW w \in Shared, CreateWorkspace(r, w)
  PROVE  Consistent'
<1> DEFINE u == request[r].user
<1>1. u \in Users /\ u \in UserIds /\ w \in WorkspaceIds /\ w \notin Personal
  BY RequestType, WorkspacesAssumption DEF CreateWorkspace, WorkspaceIds, InsertWorkspace, UserIds
<1>2. /\ owner \in [WorkspaceIds -> UserIds]
      /\ members \in [WorkspaceIds -> [UserIds -> Roles \cup {NoRole}]]
  BY DEF Consistent, TypeOK
<1>3. /\ owner' = [owner EXCEPT ![w] = u]
      /\ members' = [members EXCEPT ![w][u] = "Admin"]
      /\ spent' = spent \cup {w} /\ w \notin spent
      /\ UNCHANGED invites
      /\ Become(r, Idle)
  BY DEF CreateWorkspace, Respond, InsertWorkspace
<1> HIDE DEF u
<1>4. /\ owner' \in [WorkspaceIds -> UserIds]
      /\ \A v \in WorkspaceIds : owner'[v] = IF v = w THEN u ELSE owner[v]
  BY <1>1, <1>2, <1>3
<1>5. /\ members' \in [WorkspaceIds -> [UserIds -> Roles \cup {NoRole}]]
      /\ \A v \in WorkspaceIds, x \in UserIds :
           members'[v][x] = IF v = w /\ x = u THEN "Admin" ELSE members[v][x]
  BY <1>1, <1>2, <1>3, RoleFacts
<1>6. Founded' = Founded \cup {w} /\ w \notin Founded
  BY <1>1, <1>3, <1>4, WorkspacesAssumption DEF Founded, WorkspaceIds
<1>7. TablesAdvance
  BY <1>1, <1>4, <1>6, FoundedIds DEF TablesAdvance, WorkspaceIds
<1>8. TablesConsistent'
  <2>1. OwnerIsMember'
    BY <1>2, <1>4, <1>5, RoleFacts DEF OwnerIsMember, Consistent
  <2>2. \A v \in WorkspaceIds : owner'[v] # NoUser => v \in Founded'
    BY <1>4, <1>6 DEF Consistent
  <2>3. \A v \in Personal : owner'[v] # NoUser => PersonalOf[owner'[v]] = v
    BY <1>1, <1>4 DEF Consistent, WorkspaceIds
  <2> QED
    BY <1>3, <1>4, <1>5, <2>1, <2>2, <2>3 DEF TablesConsistent, Consistent, TypeOK
<1>9. LocalsOK(request[r])'
  BY <1>3, IdleType DEF Become, Consistent, TypeOK, LocalsOK, Idle
<1> QED
  BY <1>3, <1>7, <1>8, <1>9, IdleType, StepKeepsLocals

LEMMA DeleteChecksOwnerKeeps ==
  ASSUME Consistent, NEW r \in Requests, NEW w \in WorkspaceIds,
         DeleteChecksOwner(r, w)
  PROVE  Consistent'
<1> DEFINE locals == [Idle EXCEPT !.pc = "deleting", !.ws = w]
<1>1. request[r].user \in Users
  BY RequestType DEF DeleteChecksOwner, UserIds
<1>2. w \in Founded /\ w \notin Personal
  BY <1>1, WorkspacesAssumption DEF DeleteChecksOwner, Consistent
<1>3. w \in Shared
  BY <1>2 DEF Founded
<1>4. locals \in RequestRows /\ LocalsOK(locals)
  BY <1>3 DEF Idle, RequestRows, LocalsOK, Pcs, UserIds
<1>5. Become(r, locals) /\ UNCHANGED <<owner, members, invites, spent>>
  BY DEF DeleteChecksOwner
<1> HIDE DEF locals
<1> QED
  BY <1>4, <1>5, LocalStep

LEMMA DeleteWorkspaceKeeps ==
  ASSUME Consistent, NEW r \in Requests, DeleteWorkspace(r)
  PROVE  Consistent'
<1> DEFINE w == request[r].ws
<1>1. w \in Shared /\ w \in WorkspaceIds /\ w \notin Personal
  BY RequestType, WorkspacesAssumption DEF DeleteWorkspace, LocalsOK, WorkspaceIds, DeleteRows
<1>2. /\ owner \in [WorkspaceIds -> UserIds]
      /\ members \in [WorkspaceIds -> [UserIds -> Roles \cup {NoRole}]]
      /\ invites \in [Invites -> InviteRows \cup {NoInvite}]
  BY DEF Consistent, TypeOK
<1>3. /\ owner' = [owner EXCEPT ![w] = NoUser]
      /\ members' = [members EXCEPT ![w] = [u \in UserIds |-> NoRole]]
      /\ UNCHANGED spent
      /\ Become(r, Idle)
  BY DEF DeleteWorkspace, Respond, DeleteRows
<1>4. /\ invites' \in [Invites -> InviteRows \cup {NoInvite}]
      /\ \A i \in Invites : invites'[i] # NoInvite => invites[i] # NoInvite
  BY <1>2 DEF DeleteWorkspace, DeleteRows
<1> HIDE DEF w
<1>5. /\ owner' \in [WorkspaceIds -> UserIds]
      /\ \A v \in WorkspaceIds : owner'[v] = IF v = w THEN NoUser ELSE owner[v]
  BY <1>1, <1>2, <1>3 DEF UserIds
<1>6. /\ members' \in [WorkspaceIds -> [UserIds -> Roles \cup {NoRole}]]
      /\ \A v \in WorkspaceIds : v # w => members'[v] = members[v]
  BY <1>1, <1>2, <1>3
<1>7. Founded' = Founded
  BY <1>1, <1>3, <1>5 DEF Founded, WorkspaceIds
<1>8. TablesAdvance
  BY <1>1, <1>5, <1>7, FoundedIds DEF TablesAdvance, WorkspaceIds
<1>9. TablesConsistent'
  <2>1. OwnerIsMember'
    BY <1>5, <1>6 DEF OwnerIsMember, Consistent
  <2>2. \A v \in WorkspaceIds : owner'[v] # NoUser => v \in Founded'
    BY <1>5, <1>7 DEF Consistent
  <2>3. \A v \in Personal : owner'[v] # NoUser => PersonalOf[owner'[v]] = v
    BY <1>5 DEF Consistent, WorkspaceIds
  <2> QED
    BY <1>3, <1>4, <1>5, <1>6, <2>1, <2>2, <2>3
    DEF TablesConsistent, Consistent, TypeOK
<1>10. LocalsOK(request[r])'
  BY <1>3, IdleType DEF Become, Consistent, TypeOK, LocalsOK, Idle
<1> QED
  BY <1>3, <1>8, <1>9, <1>10, IdleType, StepKeepsLocals

-----------------------------------------------------------------------------
(* Invitations.                                                             *)

LEMMA InviteBeginsKeeps ==
  ASSUME Consistent, NEW r \in Requests, NEW e \in Emails, NEW role \in GrantRoles,
         NEW named \in TargetLists, InviteBegins(r, e, role, named)
  PROVE  Consistent'
<1> DEFINE targets == IF named # {} THEN named ELSE {request[r].ws} \ {NoWs}
           locals == [Idle EXCEPT !.pc = "listing", !.user = request[r].user,
                                  !.targets = targets, !.email = e,
                                  !.grant = role]
<1>1. request[r].user \in UserIds /\ role \in Roles
  BY RequestType, WorkspacesAssumption DEF InviteBegins
<1>2. targets \in SUBSET WorkspaceIds
  BY RequestType, WorkspacesAssumption DEF RequestRows
<1> HIDE DEF targets
<1>3. locals \in RequestRows /\ LocalsOK(locals)
  BY <1>1, <1>2 DEF Idle, RequestRows, LocalsOK, Pcs, UserIds
<1>4. Become(r, locals) /\ UNCHANGED <<owner, members, invites, spent>>
  BY DEF InviteBegins, targets
<1> HIDE DEF locals
<1> QED
  BY <1>3, <1>4, LocalStep

LEMMA InviteListsMembersKeeps ==
  ASSUME Consistent, NEW r \in Requests, NEW w \in request[r].targets,
         InviteListsMembers(r, w)
  PROVE  Consistent'
<1> DEFINE locals == [request[r] EXCEPT !.pc = "checking", !.ws = w,
                                        !.role = members[w][request[r].user]]
<1>1. request[r].user \in UserIds /\ request[r].pc = "listing"
  BY RequestType DEF InviteListsMembers
<1>2. w \in WorkspaceIds
  BY RequestType DEF RequestRows
<1>3. members[w][request[r].user] \in Roles \cup {NoRole}
  BY <1>1, <1>2 DEF Consistent, TypeOK
<1>4. locals \in RequestRows /\ LocalsOK(locals)
  BY <1>1, <1>2, <1>3, RequestType DEF RequestRows, LocalsOK, Pcs
<1>5. Become(r, locals) /\ UNCHANGED <<owner, members, invites, spent>>
  BY DEF InviteListsMembers
<1> HIDE DEF locals
<1> QED
  BY <1>4, <1>5, LocalStep

LEMMA InviteChecksOwnerKeeps ==
  ASSUME Consistent, NEW r \in Requests, InviteChecksOwner(r)
  PROVE  Consistent'
<1> DEFINE locals == [request[r] EXCEPT !.pc = "inserting", !.role = NoRole]
<1>1. locals \in RequestRows /\ LocalsOK(locals)
  BY RequestType DEF InviteChecksOwner, RequestRows, LocalsOK, Pcs
<1>2. Become(r, locals) /\ UNCHANGED <<owner, members, invites, spent>>
  BY DEF InviteChecksOwner
<1> HIDE DEF locals
<1> QED
  BY <1>1, <1>2, LocalStep

LEMMA InviteRefusedKeeps ==
  ASSUME Consistent, NEW r \in Requests, InviteRefused(r)
  PROVE  Consistent'
  BY IdleType, LocalStep DEF InviteRefused, Respond

\* A step that writes invitations and draws ids, and no other table.
LEMMA InvitesStep ==
  ASSUME Consistent, UNCHANGED <<owner, members>>,
         spent \subseteq spent', spent' \subseteq Shared \cup Invites,
         spent' \cap Shared = spent \cap Shared,
         invites' \in [Invites -> InviteRows \cup {NoInvite}],
         \A i \in Invites : invites'[i] # NoInvite => i \in spent'
  PROVE  TablesConsistent' /\ TablesAdvance
<1>1. Founded' = Founded
  BY DEF Founded
<1> QED
  BY <1>1 DEF Consistent, TypeOK, TablesConsistent, TablesAdvance, OwnerIsMember

LEMMA InviteInsertsKeeps ==
  ASSUME Consistent, NEW r \in Requests, NEW i \in Invites, InviteInserts(r, i)
  PROVE  Consistent'
<1> DEFINE q == request[r]
           row == [ws |-> q.ws, email |-> q.email, role |-> q.grant, token |-> i,
                   status |-> "pending", expired |-> FALSE]
           locals == IF q.targets = {q.ws} THEN Idle
                     ELSE [q EXCEPT !.pc = "listing", !.ws = NoWs,
                                    !.targets = @ \ {q.ws}]
<1>1. /\ q \in RequestRows /\ q.pc = "inserting" /\ q.snaps = {}
      /\ q.ws \in WorkspaceIds /\ q.email \in Emails /\ q.grant \in Roles
  BY RequestType DEF InviteInserts, LocalsOK, UpsertInvitation
<1>2. row \in InviteRows
  BY <1>1 DEF InviteRows, Statuses
<1>3. /\ spent' = spent \cup {i} /\ i \notin spent
      /\ invites' = [j \in Invites |->
                       IF \/ j \in Conflicting(q.ws, q.email)
                          \/ j = i /\ Conflicting(q.ws, q.email) = {}
                       THEN row ELSE invites[j]]
      /\ Become(r, locals)
      /\ UNCHANGED <<owner, members>>
  BY DEF InviteInserts, UpsertInvitation
<1>4. locals \in RequestRows /\ locals.pc \in {"idle", "listing"}
      /\ locals.snaps = {}
      /\ (locals.pc = "listing" => /\ locals.email \in Emails
                                   /\ locals.grant \in Roles)
  <2>1. CASE q.targets = {q.ws}
    BY <2>1, IdleType DEF Idle
  <2>2. CASE q.targets # {q.ws}
    BY <1>1, <2>2 DEF RequestRows, Pcs
  <2> QED
    BY <2>1, <2>2
<1> HIDE DEF q, row, locals
<1>5. invites' \in [Invites -> InviteRows \cup {NoInvite}]
  BY <1>2, <1>3 DEF Consistent, TypeOK
<1>6. \A j \in Invites : invites'[j] # NoInvite => j \in spent'
  BY <1>3 DEF Conflicting, Pending, Consistent
<1>7. TablesConsistent' /\ TablesAdvance
  <2>1. spent \subseteq spent' /\ spent' \subseteq Shared \cup Invites
    BY <1>3 DEF Consistent, TypeOK
  <2>2. spent' \cap Shared = spent \cap Shared
    BY <1>3, WorkspacesAssumption
  <2> QED
    BY <1>3, <1>5, <1>6, <2>1, <2>2, InvitesStep
<1>8. LocalsOK(request[r])'
  <2>1. request'[r] = locals
    BY <1>3 DEF Become, Consistent, TypeOK
  <2> QED
    BY <1>4, <2>1 DEF LocalsOK
<1> QED
  BY <1>3, <1>4, <1>7, <1>8, StepKeepsLocals

LEMMA ClaimLooksUpKeeps ==
  ASSUME Consistent, NEW r \in Requests, NEW token \in Invites,
         NEW e \in Emails \cup {NoEmail}, ClaimLooksUp(r, token, e)
  PROVE  Consistent'
<1> DEFINE locals(i) == [Idle EXCEPT !.pc = "claiming", !.user = request[r].user,
                                     !.snaps = {Snapshot(i)}]
<1>1. PICK i \in Invites : invites[i] # NoInvite /\ Become(r, locals(i))
  BY DEF ClaimLooksUp, FindByToken
<1>2. request[r].user \in Users /\ UNCHANGED <<owner, members, invites, spent>>
  BY RequestType DEF ClaimLooksUp, FindByToken, UserIds
<1>3. Snapshot(i) \in Snapshots
  BY <1>1, SnapshotType DEF Consistent
<1>4. locals(i) \in RequestRows /\ LocalsOK(locals(i))
  BY <1>2, <1>3 DEF Idle, RequestRows, LocalsOK, Pcs, UserIds
<1> HIDE DEF locals
<1> QED
  BY <1>1, <1>2, <1>4, LocalStep

LEMMA RevokeInvitationKeeps ==
  ASSUME Consistent, NEW r \in Requests, NEW i \in Invites, RevokeInvitation(r, i)
  PROVE  Consistent'
<1>1. invites \in [Invites -> InviteRows \cup {NoInvite}]
  BY DEF Consistent, TypeOK
<1>2. Pending(i) => [invites EXCEPT ![i].status = "revoked"]
                      \in [Invites -> InviteRows \cup {NoInvite}]
  BY <1>1 DEF Pending, InviteRows, Statuses
<1>3. invites' \in [Invites -> InviteRows \cup {NoInvite}]
  BY <1>1, <1>2 DEF RevokeInvitation, MarkRevoked
<1>4. \A j \in Invites : invites'[j] # NoInvite => invites[j] # NoInvite
  BY <1>1 DEF RevokeInvitation, Pending, MarkRevoked
<1>5. TablesConsistent' /\ TablesAdvance
  BY <1>3, <1>4, InvitesStep DEF RevokeInvitation, Consistent, TypeOK, MarkRevoked
<1>6. LocalsOK(request[r])' /\ Become(r, Idle)
  BY IdleType DEF RevokeInvitation, Respond, Become, Consistent, TypeOK, LocalsOK, Idle, MarkRevoked
<1> QED
  BY <1>5, <1>6, IdleType, StepKeepsLocals

LEMMA ExpireKeeps ==
  ASSUME Consistent, NEW i \in Invites, Expire(i)
  PROVE  Consistent'
<1>1. invites' \in [Invites -> InviteRows \cup {NoInvite}]
  BY DEF Expire, Pending, Consistent, TypeOK, InviteRows
<1>2. \A j \in Invites : invites'[j] # NoInvite => invites[j] # NoInvite
  BY DEF Expire, Pending, Consistent, TypeOK
<1>3. TablesConsistent'
  BY <1>1, <1>2, InvitesStep DEF Expire, Consistent, TypeOK
<1>4. \A q \in Requests : LocalsOK(request[q])'
  BY DEF Expire, Consistent, LocalsOK, Founded
<1> QED
  BY <1>3, <1>4 DEF Expire, Consistent, TypeOK, TablesConsistent

-----------------------------------------------------------------------------
(* The invariant and what follows from it.                                  *)

LEMMA NextKeepsConsistent == Consistent /\ [Next]_vars => Consistent'
<1> SUFFICES ASSUME Consistent, [Next]_vars PROVE Consistent'
  OBVIOUS
<1>1. ASSUME NEW r \in Requests, Middleware(r) PROVE Consistent'
  BY <1>1, ArriveKeeps, ArriveWithoutUserKeeps, AutoAcceptKeeps, AutoAcceptFailsKeeps, ProbeSandboxKeeps,
     CreateSandboxKeeps, ResolveKeeps, ResolveFailsKeeps DEF Middleware
<1>2. ASSUME NEW r \in Requests, Membership(r) PROVE Consistent'
  <2>1. CASE \E w \in Shared : CreateWorkspace(r, w)
    BY <2>1, CreateWorkspaceKeeps
  <2>2. CASE \/ \E w \in WorkspaceIds : DeleteChecksOwner(r, w)
             \/ DeleteWorkspace(r)
    BY <2>2, DeleteChecksOwnerKeeps, DeleteWorkspaceKeeps
  <2> QED
    BY <1>2, <2>1, <2>2, AddWorkspaceMemberKeeps, RemoveChecksOwnerKeeps,
       RemoveWorkspaceMemberKeeps, CreateUserKeeps DEF Membership
<1>3. ASSUME NEW r \in Requests, Invitation(r) PROVE Consistent'
  BY <1>3, InviteBeginsKeeps, InviteListsMembersKeeps, InviteChecksOwnerKeeps,
     InviteRefusedKeeps, InviteInsertsKeeps, ClaimLooksUpKeeps,
     ClaimInvitationKeeps, RevokeInvitationKeeps DEF Invitation
<1>4. CASE UNCHANGED vars
  BY <1>4 DEF vars, Consistent, TypeOK, OwnerIsMember, LocalsOK, Founded
<1> QED
  BY <1>1, <1>2, <1>3, <1>4, FailRequestKeeps, ExpireKeeps DEF Next

\* The inductive invariant holds in every reachable state: between any two
\* statements the tables are consistent and what a request checked still holds.
THEOREM AlwaysConsistent == Spec => []Consistent
  BY InitConsistent, NextKeepsConsistent, PTL DEF Spec

\* The tables and the requests have their types.
THEOREM TypeCorrect == Spec => []TypeOK
<1>1. Consistent => TypeOK
  BY DEF Consistent
<1> QED
  BY <1>1, AlwaysConsistent, PTL

\* No overlap of removals, deletions, creations and sign-ins leaves a workspace
\* whose owner is not a member of it.
THEOREM OwnerStaysMember == Spec => []OwnerIsMember
<1>1. Consistent => OwnerIsMember
  BY DEF Consistent
<1> QED
  BY <1>1, AlwaysConsistent, PTL

\* When no two users share a sandbox, a request that reads its caller's
\* memberships finds at least the sandbox.
THEOREM SandboxAlwaysFound ==
  ASSUME \A u, v \in Users : PersonalOf[u] = PersonalOf[v] => u = v
  PROVE  Spec => []SandboxFound
<1>1. Consistent => SandboxFound
  <2> SUFFICES ASSUME Consistent, NEW r \in Requests, request[r].pc = "resolving"
               PROVE  MembershipsOf(request[r].user) # {}
    BY DEF SandboxFound
  <2> DEFINE u == request[r].user
             w == PersonalOf[u]
  <2>1. u \in Users /\ w \in Personal /\ w \in WorkspaceIds /\ owner[w] # NoUser
    BY RequestType DEF LocalsOK, Personal, WorkspaceIds
  <2>2. owner[w] \in Users /\ PersonalOf[owner[w]] = w
    BY <2>1 DEF Consistent, TypeOK, UserIds
  <2>3. owner[w] = u
    BY <2>1, <2>2
  <2>4. members[w][u] # NoRole
    BY <2>1, <2>3 DEF Consistent, OwnerIsMember
  <2> QED
    BY <2>1, <2>4 DEF MembershipsOf
<1> QED
  BY <1>1, AlwaysConsistent, PTL

-----------------------------------------------------------------------------
(* The tables implement the directory.                                      *)

LEMMA InitImplements == Init => D!DInit
<1> SUFFICES ASSUME Init PROVE D!DInit
  OBVIOUS
<1>1. Founded = {}
  BY DEF Init, Founded, WorkspaceIds
<1> QED
  BY <1>1 DEF Init, D!DInit, NoRole, D!NoRole

\* A step that leaves the owners, the members and the drawn workspace ids.
LEMMA Stutters ==
  ASSUME UNCHANGED <<owner, members>>, spent' \cap Shared = spent \cap Shared
  PROVE  UNCHANGED D!dvars
  BY DEF D!dvars, Founded

LEMMA Grants ==
  ASSUME NEW w \in WorkspaceIds, NEW u \in UserIds, NEW role \in Roles,
         members' = [members EXCEPT ![w][u] = role], UNCHANGED <<owner, spent>>
  PROVE  D!DNext
<1>1. Founded' = Founded
  BY DEF Founded
<1>2. D!Grant(w, u)
  BY <1>1 DEF D!Grant, Roles, D!Roles
<1> QED
  BY <1>2 DEF D!DNext

LEMMA EnrolGrants ==
  ASSUME NEW s \in Snapshots, NEW u \in UserIds, NEW From, Enrol(s, u, From),
         UNCHANGED <<owner, spent>>
  PROVE  D!DNext
<1>1. s.ws \in WorkspaceIds /\ s.role \in Roles
  BY DEF Snapshots
<1> QED
  BY <1>1, Grants DEF Enrol, UpsertMember

LEMMA CreateSandboxImplements ==
  ASSUME Consistent, NEW r \in Requests, CreateSandbox(r)
  PROVE  D!DNext
<1> DEFINE u == request[r].user
           w == PersonalOf[u]
           role == IF members[w][u] = NoRole THEN "Admin" ELSE members[w][u]
<1>1. u \in Users /\ u \in UserIds /\ u # NoUser /\ w \in Personal /\ w \in WorkspaceIds
  BY RequestType, WorkspacesAssumption
  DEF CreateSandbox, Personal, WorkspaceIds, UserIds
<1>2. role \in Roles
  BY <1>1, RoleFacts DEF Consistent, TypeOK
<1>3. /\ members' = [members EXCEPT ![w][u] = role]
      /\ owner' = [owner EXCEPT ![w] = IF owner[w] = NoUser THEN u ELSE owner[w]]
      /\ UNCHANGED spent
  BY DEF CreateSandbox
<1>4. owner \in [WorkspaceIds -> UserIds]
  BY DEF Consistent, TypeOK
<1> HIDE DEF u, w, role
<1>5. CASE owner[w] = NoUser
  <2>1. owner' = [owner EXCEPT ![w] = u]
    BY <1>3, <1>5
  <2>2. Founded' = Founded \cup {w} /\ w \notin Founded
    BY <1>1, <1>3, <1>4, <1>5, <2>1, WorkspacesAssumption DEF Founded, WorkspaceIds
  <2>3. D!Found(w, u)
    BY <1>1, <1>2, <1>3, <2>1, <2>2 DEF D!Found, Roles, D!Roles
  <2> QED
    BY <1>1, <2>3 DEF D!DNext
<1>6. CASE owner[w] # NoUser
  <2>1. UNCHANGED owner
    BY <1>1, <1>3, <1>4, <1>6
  <2> QED
    BY <1>1, <1>2, <1>3, <2>1, Grants
<1> QED
  BY <1>5, <1>6

LEMMA CreateWorkspaceImplements ==
  ASSUME Consistent, NEW r \in Requests, NEW w \in Shared, CreateWorkspace(r, w)
  PROVE  D!DNext
<1>1. request[r].user \in UserIds \ {NoUser} /\ w \in WorkspaceIds /\ w \notin Personal
  BY RequestType, WorkspacesAssumption DEF CreateWorkspace, WorkspaceIds, InsertWorkspace
<1>2. /\ owner' = [owner EXCEPT ![w] = request[r].user]
      /\ members' = [members EXCEPT ![w][request[r].user] = "Admin"]
      /\ spent' = spent \cup {w} /\ w \notin spent
      /\ owner \in [WorkspaceIds -> UserIds]
  BY DEF CreateWorkspace, Consistent, TypeOK, InsertWorkspace
<1>3. \A v \in Personal : owner'[v] = owner[v]
  BY <1>1, <1>2 DEF WorkspaceIds
<1>4. Founded' = Founded \cup {w} /\ w \notin Founded
  BY <1>1, <1>2, <1>3, WorkspacesAssumption DEF Founded
<1>5. D!Found(w, request[r].user)
  BY <1>1, <1>2, <1>4 DEF D!Found, D!Roles
<1> QED
  BY <1>1, <1>5 DEF D!DNext

LEMMA DeleteWorkspaceImplements ==
  ASSUME Consistent, NEW r \in Requests, DeleteWorkspace(r)
  PROVE  D!DNext
<1> DEFINE w == request[r].ws
<1>1. w \in Shared /\ w \in WorkspaceIds /\ w \notin Personal
  BY RequestType, WorkspacesAssumption DEF DeleteWorkspace, LocalsOK, WorkspaceIds, DeleteRows
<1>2. /\ owner' = [owner EXCEPT ![w] = NoUser]
      /\ members' = [members EXCEPT ![w] = [u \in UserIds |-> NoRole]]
      /\ UNCHANGED spent
      /\ owner \in [WorkspaceIds -> UserIds]
  BY DEF DeleteWorkspace, Consistent, TypeOK, DeleteRows
<1> HIDE DEF w
<1>3. \A v \in Personal : owner'[v] = owner[v]
  BY <1>1, <1>2 DEF WorkspaceIds
<1>4. Founded' = Founded
  BY <1>2, <1>3 DEF Founded
<1>5. D!Close(w)
  BY <1>2, <1>4 DEF D!Close, NoRole, D!NoRole
<1> QED
  BY <1>1, <1>5 DEF D!DNext

LEMMA MiddlewareImplements ==
  ASSUME Consistent, NEW r \in Requests, Middleware(r)
  PROVE  [D!DNext]_(D!dvars)
<1>1. ASSUME NEW s \in request[r].snaps, AutoAccept(r, s) PROVE D!DNext
  <2>1. request[r].user \in UserIds /\ s \in Snapshots
    BY <1>1, RequestType DEF AutoAccept, RequestRows
  <2> QED
    BY <1>1, <2>1, EnrolGrants DEF AutoAccept
<1>2. CASE CreateSandbox(r)
  BY <1>2, CreateSandboxImplements
<1>3. CASE \/ (\E u \in Users : Arrive(r, u)) \/ ArriveWithoutUser(r)
           \/ AutoAcceptFails(r) \/ ProbeSandbox(r) \/ Resolve(r) \/ ResolveFails(r)
  BY <1>3, Stutters
  DEF Arrive, ArriveWithoutUser, AutoAcceptFails, ProbeSandbox, Resolve, ResolveFails
<1> QED
  BY <1>1, <1>2, <1>3 DEF Middleware

LEMMA MembershipImplements ==
  ASSUME Consistent, NEW r \in Requests, Membership(r)
  PROVE  [D!DNext]_(D!dvars)
<1>1. ASSUME NEW u \in Users, NEW role \in GrantRoles, AddWorkspaceMember(r, u, role)
      PROVE  D!DNext
  <2>1. request[r].ws \in WorkspaceIds /\ role \in Roles /\ u \in UserIds
    BY <1>1, RequestType, WorkspacesAssumption
    DEF AddWorkspaceMember, MayManage, RequestRows, UpsertMember, UserIds
  <2> QED
    BY <1>1, <2>1, Grants DEF AddWorkspaceMember, UpsertMember
<1>2. CASE RemoveWorkspaceMember(r)
  <2>1. /\ request[r].ws \in WorkspaceIds /\ request[r].subject \in UserIds
        /\ request[r].subject # NoUser => owner[request[r].ws] # request[r].subject
    BY <1>2, RequestType, FoundedIds DEF RemoveWorkspaceMember, LocalsOK, RequestRows
  <2>2. Founded' = Founded
    BY <1>2 DEF RemoveWorkspaceMember, Founded
  <2>3. D!Drop(request[r].ws, request[r].subject)
    BY <1>2, <2>1, <2>2 DEF RemoveWorkspaceMember, D!Drop, NoRole, D!NoRole
  <2> QED
    BY <2>1, <2>3 DEF D!DNext
<1>3. ASSUME NEW u \in UserIds, CreateUser(r, u) PROVE D!DNext
  <2> DEFINE role == IF members[DefaultWs][u] = NoRole THEN "Admin"
                     ELSE members[DefaultWs][u]
  <2>1. DefaultWs \in WorkspaceIds
    BY DEF WorkspaceIds
  <2>2. role \in Roles /\ members' = [members EXCEPT ![DefaultWs][u] = role]
    BY <1>3, <2>1, RoleFacts DEF CreateUser, Consistent, TypeOK
  <2> HIDE DEF role
  <2> QED
    BY <1>3, <2>1, <2>2, Grants DEF CreateUser
<1>4. CASE \/ \E u \in UserIds : RemoveChecksOwner(r, u)
           \/ \E w \in WorkspaceIds : DeleteChecksOwner(r, w)
  BY <1>4, Stutters DEF RemoveChecksOwner, DeleteChecksOwner
<1> QED
  BY <1>1, <1>2, <1>3, <1>4, CreateWorkspaceImplements, DeleteWorkspaceImplements
  DEF Membership

LEMMA InvitationImplements ==
  ASSUME Consistent, NEW r \in Requests, Invitation(r)
  PROVE  [D!DNext]_(D!dvars)
<1>1. ASSUME NEW s \in request[r].snaps, ClaimInvitation(r, s) PROVE D!DNext
  <2>1. request[r].user \in UserIds /\ s \in Snapshots
    BY <1>1, RequestType DEF ClaimInvitation, RequestRows
  <2> QED
    BY <1>1, <2>1, EnrolGrants DEF ClaimInvitation
<1>2. ASSUME NEW i \in Invites, InviteInserts(r, i) PROVE UNCHANGED D!dvars
  <2>1. UNCHANGED <<owner, members>> /\ spent' = spent \cup {i}
    BY <1>2 DEF InviteInserts, UpsertInvitation
  <2> QED
    BY <2>1, Stutters, WorkspacesAssumption
<1>3. CASE \/ \E e \in Emails, role \in GrantRoles, named \in TargetLists :
                InviteBegins(r, e, role, named)
           \/ \E w \in request[r].targets : InviteListsMembers(r, w)
           \/ InviteChecksOwner(r) \/ InviteRefused(r)
  BY <1>3, Stutters
  DEF InviteBegins, InviteListsMembers, InviteChecksOwner, InviteRefused
<1>4. CASE \/ \E i \in Invites, e \in Emails \cup {NoEmail} : ClaimLooksUp(r, i, e)
           \/ \E i \in Invites : RevokeInvitation(r, i)
  BY <1>4, Stutters DEF ClaimLooksUp, RevokeInvitation, FindByToken, MarkRevoked
<1> QED
  BY <1>1, <1>2, <1>3, <1>4 DEF Invitation

\* Every step of every request is a step of the directory or none: the detailed
\* specification implements the abstract one, whatever the constants.
THEOREM TablesImplementDirectory == Spec => ImplementsDirectory
<1>1. Consistent /\ [Next]_vars => [D!DNext]_(D!dvars)
  <2> SUFFICES ASSUME Consistent, [Next]_vars PROVE [D!DNext]_(D!dvars)
    OBVIOUS
  <2>1. ASSUME NEW r \in Requests, FailRequest(r) PROVE UNCHANGED D!dvars
    BY <2>1, Stutters DEF FailRequest
  <2>2. ASSUME NEW i \in Invites, Expire(i) PROVE UNCHANGED D!dvars
    BY <2>2, Stutters DEF Expire
  <2>3. CASE UNCHANGED vars
    BY <2>3, Stutters DEF vars
  <2> QED
    BY <2>1, <2>2, <2>3, MiddlewareImplements, MembershipImplements,
       InvitationImplements DEF Next
<1> QED
  BY <1>1, InitImplements, AlwaysConsistent, PTL DEF Spec, ImplementsDirectory, D!DSpec

-----------------------------------------------------------------------------
(* The invitations are a book of invitations.                              *)

\* What the requests hold, as the book sees it.
Hands == [q \in Requests |-> Hand(request[q])]

LEMMA HandNext ==
  ASSUME Consistent, NEW r \in Requests, NEW locals, Become(r, locals)
  PROVE  Hands' = [Hands EXCEPT ![r] = Hand(locals)]
<1>1. \A q \in Requests : request'[q] = IF q = r THEN locals ELSE request[q]
  BY DEF Become, Consistent, TypeOK
<1>2. Hands' = [q \in Requests |-> Hand(request'[q])]
  BY DEF Hands, Hand
<1> QED
  BY <1>1, <1>2 DEF Hands

LEMMA NothingHeld ==
  /\ B!Empty = Nothing
  /\ \A q : q.snaps = {} => Hand(q) = Nothing
BY DEF B!Empty, Nothing, Hand

\* A request that holds nothing before and after.
LEMMA HandKept ==
  ASSUME Consistent, NEW r \in Requests, request[r].snaps = {},
         NEW locals, Become(r, locals), locals.snaps = {}
  PROVE  UNCHANGED Hands
<1>1. Hand(locals) = Hand(request[r])
  BY NothingHeld
<1> QED
  BY <1>1, HandNext DEF Hands

\* A request that holds nothing any more.
LEMMA HandDropped ==
  ASSUME Consistent, NEW r \in Requests, NEW locals, Become(r, locals),
         locals.snaps = {}, UNCHANGED <<invites, spent, members>>
  PROVE  B!BNext
<1>1. Hands' = [Hands EXCEPT ![r] = B!Empty]
  BY HandNext, NothingHeld
<1>2. B!Drop(r)
  BY <1>1 DEF B!Drop, Hands
<1> QED
  BY <1>2 DEF B!BNext

LEMMA IdleHoldsNothing == Idle.snaps = {}
  BY DEF Idle

LEMMA AuthenticatedHoldsNothing ==
  ASSUME NEW u, NEW tenant PROVE Authenticated(u, tenant).snaps = {}
  BY DEF Authenticated, Idle

\* A request answered that held nothing.
LEMMA RespondKeepsHands ==
  ASSUME Consistent, NEW r \in Requests, Respond(r),
         request[r].pc \notin {"accepting", "claiming"}
  PROVE  UNCHANGED Hands
<1>1. request[r].snaps = {} /\ Become(r, Idle)
  BY RequestType DEF Respond
<1> QED
  BY <1>1, HandKept, IdleHoldsNothing

\* A reading is acted on: the row is accepted, or there is none, or the reader
\* asked for a pending one and found another.
LEMMA EnrolAccepts ==
  ASSUME Consistent, NEW r \in Requests, NEW s \in request[r].snaps, NEW From,
         From = IF request[r].pc = "accepting" THEN Statuses ELSE {"pending"},
         Enrol(s, request[r].user, From),
         NEW locals, Become(r, locals),
         Hand(locals) = IF request[r].snaps = {s} THEN Nothing
                        ELSE [Hand(request[r]) EXCEPT !.of = request[r].snaps \ {s}],
         UNCHANGED spent
  PROVE  B!BNext
<1> DEFINE held == Hand(request[r])
<1>1. /\ held = [who |-> request[r].user, listed |-> request[r].pc = "accepting",
                 of |-> request[r].snaps]
      /\ Hands[r] = held
  BY DEF Hand, Hands
<1>2. s.id \in Invites
  BY RequestType DEF RequestRows, Snapshots
<1>3. /\ invites' = IF invites[s.id] # NoInvite /\ invites[s.id].status \in From
                    THEN [invites EXCEPT ![s.id].status = "accepted"] ELSE invites
      /\ members' = [members EXCEPT ![s.ws][request[r].user] = s.role]
  BY DEF Enrol, UpsertMember
<1>4. Hands' = [Hands EXCEPT ![r] = Hand(locals)]
  BY HandNext
<1>5. held.who = request[r].user /\ held.of = request[r].snaps
      /\ held.listed = (request[r].pc = "accepting")
  BY <1>1
<1>6. invites[s.id] # NoInvite => invites[s.id].status \in Statuses
  BY <1>2 DEF Consistent, TypeOK, InviteRows
<1>7. Hand(locals) = IF held.of = {s} THEN B!Empty
                     ELSE [held EXCEPT !.of = @ \ {s}]
  BY <1>5, NothingHeld
<1>8. B!Settle(s, held.listed)
  <2>1. CASE request[r].pc = "accepting"
    BY <1>3, <1>5, <1>6, <2>1 DEF B!Settle
  <2>2. CASE request[r].pc # "accepting"
    BY <1>3, <1>5, <2>2 DEF B!Settle
  <2> QED
    BY <2>1, <2>2
<1> HIDE DEF held
<1>9. B!Accept(r, s)
  <2>1. s \in Hands[r].of
    BY <1>1, <1>5
  <2>2. Hands' = [Hands EXCEPT ![r] = IF Hands[r].of = {s} THEN B!Empty
                                      ELSE [Hands[r] EXCEPT !.of = @ \ {s}]]
    BY <1>1, <1>4, <1>7
  <2>3. members' = [members EXCEPT ![s.ws][Hands[r].who] = s.role]
    BY <1>1, <1>3, <1>5
  <2> QED
    BY <1>1, <1>8, <2>1, <2>2, <2>3 DEF B!Accept, Hands
<1> QED
  <2>1. s \in Hands[r].of
    BY <1>1, <1>5
  <2> QED
    BY <1>9, <2>1 DEF B!BNext, Hands

\* A role is given or taken and nothing else of the book changes.
LEMMA Seats ==
  ASSUME NEW w \in WorkspaceIds, NEW u \in UserIds, NEW role \in Roles \cup {NoRole},
         members' = [members EXCEPT ![w][u] = role], UNCHANGED <<invites, Hands>>,
         (spent \cap Invites)' = spent \cap Invites
  PROVE  B!BNext
<1>1. B!Seat(w, u)
  BY DEF B!Seat, Hands
<1> QED
  BY <1>1 DEF B!BNext

LEMMA ArriveReads ==
  ASSUME Consistent, NEW r \in Requests, NEW u \in Users, Arrive(r, u)
  PROVE  [B!BNext]_(B!bvars)
<1>1. PICK tenant \in {NoWs} \cup IF u = Agent THEN Tenants ELSE {},
           email \in Emails \cup {NoEmail} :
        \E found \in {{}} \cup IF email = NoEmail THEN {}
                               ELSE {{Snapshot(i) : i \in Claimable(email)}} :
          Become(r, IF found = {} THEN Authenticated(u, tenant)
                    ELSE [Idle EXCEPT !.pc = "accepting", !.user = u,
                                      !.ws = tenant, !.snaps = found])
  BY DEF Arrive
<1>1a. PICK found \in {{}} \cup IF email = NoEmail THEN {}
                              ELSE {{Snapshot(i) : i \in Claimable(email)}} :
        Become(r, IF found = {} THEN Authenticated(u, tenant)
                  ELSE [Idle EXCEPT !.pc = "accepting", !.user = u,
                                    !.ws = tenant, !.snaps = found])
  BY <1>1
<1>2. /\ UNCHANGED <<owner, members, invites, spent>>
      /\ request[r].snaps = {} /\ request[r].pc = "idle"
  BY RequestType DEF Arrive
<1>3. CASE found = {}
  <2>1. Become(r, Authenticated(u, tenant))
    BY <1>1a, <1>3
  <2>2. UNCHANGED Hands
    BY <1>2, <2>1, AuthenticatedHoldsNothing, HandKept
  <2> QED
    BY <1>2, <2>2 DEF B!bvars, Hands
<1>4. CASE found # {}
  <2> DEFINE locals == [Idle EXCEPT !.pc = "accepting", !.user = u,
                                    !.ws = tenant, !.snaps = found]
  <2>1. Become(r, locals)
    BY <1>1a, <1>4
  <2>2. email \in Emails /\ found = {Snapshot(i) : i \in Claimable(email)}
    BY <1>4
  <2>3. Claimable(email) = B!OpenFor(email) /\ Claimable(email) # {}
    BY <1>4, <2>2 DEF Claimable, Pending, B!OpenFor, B!Open, B!IsPending
  <2>4. found = {B!Reading(i) : i \in B!OpenFor(email)}
    BY <2>2, <2>3 DEF Snapshot, B!Reading
  <2>5. Hand(locals) = [who |-> u, listed |-> TRUE, of |-> found]
    BY <1>4 DEF Hand, Idle
  <2> HIDE DEF locals
  <2>6. Hands' = [Hands EXCEPT ![r] = [who |-> u, listed |-> TRUE, of |-> found]]
    BY <2>1, <2>5, HandNext
  <2>7. Hands[r] = B!Empty
    BY <1>2, NothingHeld DEF Hands
  <2>8. B!List(r, u, email)
    BY <1>2, <2>3, <2>4, <2>6, <2>7 DEF B!List, B!Take, Hands
  <2> QED
    BY <2>2, <2>8 DEF B!BNext, UserIds
<1> QED
  BY <1>3, <1>4

LEMMA AutoAcceptAccepts ==
  ASSUME Consistent, NEW r \in Requests, NEW s \in request[r].snaps, AutoAccept(r, s)
  PROVE  B!BNext
<1> DEFINE locals == IF request[r].snaps = {s}
                     THEN Authenticated(request[r].user, request[r].ws)
                     ELSE [request[r] EXCEPT !.snaps = @ \ {s}]
<1>1. Become(r, locals) /\ request[r].pc = "accepting"
  BY DEF AutoAccept
<1>2. Hand(locals) = IF request[r].snaps = {s} THEN Nothing
                     ELSE [Hand(request[r]) EXCEPT !.of = request[r].snaps \ {s}]
  <2>1. CASE request[r].snaps = {s}
    BY <2>1, AuthenticatedHoldsNothing, NothingHeld
  <2>2. CASE request[r].snaps # {s}
    <3>1. /\ locals.snaps = request[r].snaps \ {s} /\ locals.snaps # {}
          /\ locals.user = request[r].user /\ locals.pc = request[r].pc
      BY <2>2, RequestType DEF RequestRows
    <3> QED
      BY <2>2, <3>1 DEF Hand
  <2> QED
    BY <2>1, <2>2
<1> HIDE DEF locals
<1>3. Enrol(s, request[r].user, Statuses) /\ UNCHANGED spent
  BY DEF AutoAccept
<1> QED
  BY <1>1, <1>2, <1>3, EnrolAccepts

LEMMA ClaimAccepts ==
  ASSUME Consistent, NEW r \in Requests, NEW s \in request[r].snaps,
         ClaimInvitation(r, s)
  PROVE  B!BNext
<1>1. request[r].pc = "claiming" /\ request[r].snaps = {s}
  BY DEF ClaimInvitation, Consistent, LocalsOK
<1>2. Become(r, Idle) /\ Hand(Idle) = Nothing
  BY IdleHoldsNothing, NothingHeld DEF ClaimInvitation, Respond
<1>3. Enrol(s, request[r].user, {"pending"}) /\ UNCHANGED spent
  BY DEF ClaimInvitation
<1> QED
  BY <1>1, <1>2, <1>3, EnrolAccepts

LEMMA MiddlewareReads ==
  ASSUME Consistent, NEW r \in Requests, Middleware(r)
  PROVE  [B!BNext]_(B!bvars)
<1> USE DEF Hands
<1>1. CASE ArriveWithoutUser(r)
  <2> DEFINE locals == [Idle EXCEPT !.pc = "ready"]
  <2>1. locals.snaps = {} /\ Become(r, locals) /\ request[r].snaps = {}
    BY <1>1, RequestType DEF ArriveWithoutUser, Idle
  <2> HIDE DEF locals
  <2> QED
    BY <1>1, <2>1, HandKept DEF ArriveWithoutUser, B!bvars
<1>2. CASE AutoAcceptFails(r)
  BY <1>2, AuthenticatedHoldsNothing, HandDropped DEF AutoAcceptFails
<1>3. CASE ProbeSandbox(r) \/ CreateSandbox(r)
  <2>1. PICK pc \in Pcs : Become(r, [request[r] EXCEPT !.pc = pc])
    BY <1>3 DEF ProbeSandbox, CreateSandbox, Pcs
  <2> DEFINE locals == [request[r] EXCEPT !.pc = pc]
  <2>2. request[r].snaps = {}
    BY <1>3, RequestType DEF ProbeSandbox, CreateSandbox
  <2>3. locals.snaps = {} /\ Become(r, locals)
    BY <2>1, <2>2, RequestType DEF RequestRows
  <2> HIDE DEF locals
  <2>4. UNCHANGED Hands
    BY <2>2, <2>3, HandKept
  <2>5. CASE ProbeSandbox(r)
    BY <2>4, <2>5 DEF ProbeSandbox, B!bvars
  <2>6. CASE CreateSandbox(r)
    <3> DEFINE u == request[r].user
               w == PersonalOf[u]
               role == IF members[w][u] = NoRole THEN "Admin" ELSE members[w][u]
    <3>1. u \in UserIds /\ w \in WorkspaceIds
      BY <2>6, RequestType DEF CreateSandbox, Personal, WorkspaceIds
    <3>2. role \in Roles
      BY <3>1, RoleFacts DEF Consistent, TypeOK
    <3>3. members' = [members EXCEPT ![w][u] = role] /\ UNCHANGED <<invites, spent>>
      BY <2>6 DEF CreateSandbox
    <3> HIDE DEF u, w, role
    <3> QED
      BY <2>4, <3>1, <3>2, <3>3, Seats
  <2> QED
    BY <1>3, <2>5, <2>6
<1>4. CASE Resolve(r)
  <2> DEFINE locals(w) == [Idle EXCEPT !.pc = "ready", !.user = request[r].user,
                             !.ws = w, !.role = members[w][request[r].user]]
  <2>1. PICK w : Become(r, locals(w))
    BY <1>4 DEF Resolve
  <2>2. locals(w).snaps = {} /\ request[r].snaps = {}
    BY <1>4, RequestType DEF Idle, Resolve
  <2> HIDE DEF locals
  <2> QED
    BY <1>4, <2>1, <2>2, HandKept DEF Resolve, B!bvars
<1>5. CASE ResolveFails(r)
  <2> DEFINE locals == [Idle EXCEPT !.pc = "ready", !.user = request[r].user]
  <2>1. locals.snaps = {} /\ Become(r, locals) /\ request[r].snaps = {}
    BY <1>5, RequestType DEF ResolveFails, Idle
  <2> HIDE DEF locals
  <2> QED
    BY <1>5, <2>1, HandKept DEF ResolveFails, B!bvars
<1> QED
  BY <1>1, <1>2, <1>3, <1>4, <1>5, ArriveReads, AutoAcceptAccepts DEF Middleware

LEMMA MembershipReads ==
  ASSUME Consistent, NEW r \in Requests, Membership(r)
  PROVE  [B!BNext]_(B!bvars)
<1> USE DEF Hands
<1>1. ASSUME NEW u \in Users, NEW role \in GrantRoles, AddWorkspaceMember(r, u, role)
      PROVE  B!BNext
  <2>1. request[r].ws \in WorkspaceIds /\ role \in Roles /\ u \in UserIds
    BY <1>1, RequestType, WorkspacesAssumption
    DEF AddWorkspaceMember, MayManage, RequestRows, UpsertMember, UserIds
  <2>2. UNCHANGED Hands
    BY <1>1, RespondKeepsHands DEF AddWorkspaceMember, MayManage
  <2> QED
    BY <1>1, <2>1, <2>2, Seats DEF AddWorkspaceMember, UpsertMember
<1>2. ASSUME NEW u \in UserIds, RemoveChecksOwner(r, u) PROVE UNCHANGED B!bvars
  <2> DEFINE locals == [Idle EXCEPT !.pc = "removing", !.ws = request[r].ws,
                                    !.subject = u]
  <2>1. locals.snaps = {} /\ Become(r, locals) /\ request[r].snaps = {}
    BY <1>2, RequestType DEF RemoveChecksOwner, MayManage, Idle
  <2> HIDE DEF locals
  <2> QED
    BY <1>2, <2>1, HandKept DEF RemoveChecksOwner, B!bvars
<1>3. CASE RemoveWorkspaceMember(r)
  <2>1. request[r].ws \in WorkspaceIds /\ request[r].subject \in UserIds
    BY <1>3, RequestType, FoundedIds
    DEF RemoveWorkspaceMember, LocalsOK, RequestRows
  <2>2. UNCHANGED Hands
    BY <1>3, RespondKeepsHands DEF RemoveWorkspaceMember
  <2> QED
    BY <1>3, <2>1, <2>2, Seats DEF RemoveWorkspaceMember
<1>4. ASSUME NEW u \in UserIds, CreateUser(r, u) PROVE B!BNext
  <2> DEFINE role == IF members[DefaultWs][u] = NoRole THEN "Admin"
                     ELSE members[DefaultWs][u]
  <2>1. DefaultWs \in WorkspaceIds
    BY DEF WorkspaceIds
  <2>2. role \in Roles /\ members' = [members EXCEPT ![DefaultWs][u] = role]
    BY <1>4, <2>1, RoleFacts DEF CreateUser, Consistent, TypeOK
  <2>3. UNCHANGED Hands
    BY <1>4, RespondKeepsHands DEF CreateUser
  <2> HIDE DEF role
  <2> QED
    BY <1>4, <2>1, <2>2, <2>3, Seats DEF CreateUser
<1>5. ASSUME NEW w \in Shared, CreateWorkspace(r, w) PROVE B!BNext
  <2>1. (spent \cap Invites)' = spent \cap Invites
    BY <1>5, WorkspacesAssumption DEF CreateWorkspace, InsertWorkspace
  <2>2. w \in WorkspaceIds /\ request[r].user \in UserIds /\ "Admin" \in Roles
    BY <1>5, RequestType, RoleFacts DEF WorkspaceIds
  <2>3. members' = [members EXCEPT ![w][request[r].user] = "Admin"]
        /\ UNCHANGED invites
    BY <1>5 DEF CreateWorkspace, InsertWorkspace
  <2>4. UNCHANGED Hands
    BY <1>5, RespondKeepsHands DEF CreateWorkspace
  <2> QED
    BY <2>1, <2>2, <2>3, <2>4, Seats
<1>6. ASSUME NEW w \in WorkspaceIds, DeleteChecksOwner(r, w) PROVE UNCHANGED B!bvars
  <2> DEFINE locals == [Idle EXCEPT !.pc = "deleting", !.ws = w]
  <2>1. locals.snaps = {} /\ Become(r, locals) /\ request[r].snaps = {}
    BY <1>6, RequestType DEF DeleteChecksOwner, Idle
  <2> HIDE DEF locals
  <2> QED
    BY <1>6, <2>1, HandKept DEF DeleteChecksOwner, B!bvars
<1>7. CASE DeleteWorkspace(r)
  <2>1. UNCHANGED Hands /\ UNCHANGED spent
    BY <1>7, RespondKeepsHands DEF DeleteWorkspace
  <2>2. request[r].ws \in WorkspaceIds
    BY <1>7 DEF Consistent, LocalsOK, DeleteWorkspace, WorkspaceIds
  <2>3. B!Close(request[r].ws)
    BY <1>7, <2>1 DEF DeleteWorkspace, DeleteRows, B!Close
  <2> QED
    BY <2>2, <2>3 DEF B!BNext
<1> QED
  BY <1>1, <1>2, <1>3, <1>4, <1>5, <1>6, <1>7 DEF Membership

\* The upsert finds no pending row, and issues an invitation under the id it
\* drew, or finds one, and renews it.
LEMMA UpsertIssuesOrRenews ==
  ASSUME Consistent, InvitesDistinct, NEW r \in Requests, NEW t \in Invites,
         InviteInserts(r, t), UNCHANGED Hands
  PROVE  B!BNext
<1> DEFINE q == request[r]
           row == [ws |-> q.ws, email |-> q.email, role |-> q.grant, token |-> t,
                   status |-> "pending", expired |-> FALSE]
           same == Conflicting(q.ws, q.email)
<1>1. q.ws \in WorkspaceIds /\ q.email \in Emails /\ q.grant \in Roles
  BY DEF InviteInserts, Consistent, LocalsOK
<1>2. t \notin spent /\ spent' = spent \cup {t} /\ UNCHANGED members
  BY DEF InviteInserts
<1>3. invites' = [j \in Invites |-> IF j \in same \/ (j = t /\ same = {})
                                    THEN row ELSE invites[j]]
  <2>1. UpsertInvitation(t, q.ws, q.email, q.grant)
    BY DEF InviteInserts
  <2> QED
    BY <2>1, Zenon DEF UpsertInvitation
<1>4. B!PendingFor(q.ws, q.email) = same
  BY DEF B!PendingFor, B!IsPending, Conflicting, Pending
<1>5. row = B!Fresh(q.ws, q.email, q.grant, t)
  BY DEF B!Fresh
<1>6. B!Draw(t)
  BY <1>2 DEF B!Draw
<1>7. invites = [j \in Invites |-> invites[j]]
  BY DEF Consistent, TypeOK
<1>8. CASE same = {}
  <2> HIDE DEF same, row
  <2>1. invites' = [invites EXCEPT ![t] = row]
    BY <1>3, <1>7, <1>8
  <2>2. B!Issue(q.ws, q.email, q.grant, t)
    BY <1>2, <1>4, <1>5, <1>6, <1>8, <2>1 DEF B!Issue, Hands
  <2> QED
    BY <1>1, <2>2 DEF B!BNext
<1>9. CASE same # {}
  <2>1. PICK i \in Invites : i \in same
    BY <1>9 DEF Conflicting
  <2>2. same = {i}
    BY <2>1 DEF Conflicting, InvitesDistinct
  <2>3. Pending(i) /\ invites[i].ws = q.ws /\ invites[i].email = q.email
    BY <2>1 DEF Conflicting
  <2> HIDE DEF same, row
  <2>4. \A j \in Invites : invites'[j] = IF j = i THEN row ELSE invites[j]
    BY <1>3, <2>2
  <2>5. invites' = [invites EXCEPT ![i] = row]
    BY <1>3, <1>7, <2>4
  <2>6. B!Renew(i, q.grant, t)
    BY <1>2, <1>4, <1>5, <1>6, <2>2, <2>3, <2>5
    DEF B!Renew, B!IsPending, Pending, Hands
  <2> QED
    BY <1>1, <2>6 DEF B!BNext
<1> QED
  BY <1>8, <1>9

LEMMA InvitationReads ==
  ASSUME Consistent, InvitesDistinct, NEW r \in Requests, Invitation(r)
  PROVE  [B!BNext]_(B!bvars)
<1> USE DEF Hands
<1>1. ASSUME NEW e \in Emails, NEW role \in GrantRoles, NEW named \in TargetLists,
             InviteBegins(r, e, role, named)
      PROVE  UNCHANGED B!bvars
  <2> DEFINE locals == [Idle EXCEPT !.pc = "listing", !.user = request[r].user,
                          !.targets = IF named # {} THEN named
                                      ELSE {request[r].ws} \ {NoWs},
                          !.email = e, !.grant = role]
  <2>1. locals.snaps = {} /\ Become(r, locals) /\ request[r].snaps = {}
    BY <1>1, RequestType DEF InviteBegins, Idle
  <2> HIDE DEF locals
  <2> QED
    BY <1>1, <2>1, HandKept DEF InviteBegins, B!bvars
<1>2. ASSUME NEW w \in request[r].targets, InviteListsMembers(r, w)
      PROVE  UNCHANGED B!bvars
  <2> DEFINE locals == [request[r] EXCEPT !.pc = "checking", !.ws = w,
                          !.role = members[w][request[r].user]]
  <2>1. locals.snaps = request[r].snaps /\ Become(r, locals) /\ request[r].snaps = {}
    BY <1>2, RequestType DEF InviteListsMembers, RequestRows
  <2> HIDE DEF locals
  <2> QED
    BY <1>2, <2>1, HandKept DEF InviteListsMembers, B!bvars
<1>3. CASE InviteChecksOwner(r)
  <2> DEFINE locals == [request[r] EXCEPT !.pc = "inserting", !.role = NoRole]
  <2>1. locals.snaps = request[r].snaps /\ Become(r, locals) /\ request[r].snaps = {}
    BY <1>3, RequestType DEF InviteChecksOwner, RequestRows
  <2> HIDE DEF locals
  <2> QED
    BY <1>3, <2>1, HandKept DEF InviteChecksOwner, B!bvars
<1>4. CASE InviteRefused(r)
  BY <1>4, RespondKeepsHands DEF InviteRefused, B!bvars
<1>5. ASSUME NEW t \in Invites, InviteInserts(r, t) PROVE B!BNext
  <2> DEFINE q == request[r]
             locals == IF q.targets = {q.ws} THEN Idle
                       ELSE [q EXCEPT !.pc = "listing", !.ws = NoWs,
                                      !.targets = @ \ {q.ws}]
  <2>1. q.snaps = {}
    BY <1>5, RequestType DEF InviteInserts
  <2>2. locals.snaps = {}
    <3>1. CASE q.targets = {q.ws}
      BY <3>1, IdleHoldsNothing
    <3>2. CASE q.targets # {q.ws}
      BY <2>1, <3>2, RequestType DEF RequestRows
    <3> QED
      BY <3>1, <3>2
  <2>3. Become(r, locals)
    BY <1>5 DEF InviteInserts
  <2> HIDE DEF locals
  <2>4. UNCHANGED Hands
    BY <2>1, <2>2, <2>3, HandKept
  <2> QED
    BY <1>5, <2>4, UpsertIssuesOrRenews
<1>6. ASSUME NEW token \in Invites, NEW e \in Emails \cup {NoEmail},
             ClaimLooksUp(r, token, e)
      PROVE  B!BNext
  <2> DEFINE locals(j) == [Idle EXCEPT !.pc = "claiming", !.user = request[r].user,
                                       !.snaps = {Snapshot(j)}]
             u == request[r].user
  <2>1. PICK i \in Invites : /\ Pending(i) /\ ~invites[i].expired
                             /\ Become(r, locals(i))
    BY <1>6 DEF ClaimLooksUp, FindByToken, Pending
  <2>2. Hand(locals(i)) = [who |-> u, listed |-> FALSE, of |-> {Snapshot(i)}]
    BY DEF Idle, Hand
  <2>3. i \in B!Open /\ {Snapshot(i)} = {B!Reading(j) : j \in {i}}
    BY <2>1 DEF Pending, B!Open, B!IsPending, Snapshot, B!Reading
  <2>4. request[r].snaps = {} /\ UNCHANGED <<invites, spent, members>>
        /\ u \in UserIds
    BY <1>6, RequestType DEF ClaimLooksUp
  <2> HIDE DEF locals, u
  <2>5. Hands' = [Hands EXCEPT ![r] = [who |-> u, listed |-> FALSE,
                                       of |-> {B!Reading(j) : j \in {i}}]]
    BY <2>1, <2>2, <2>3, HandNext
  <2>6. Hands[r] = B!Empty
    BY <2>4, NothingHeld
  <2>7. B!LookUp(r, u, i)
    BY <2>3, <2>4, <2>5, <2>6 DEF B!LookUp, B!Take
  <2> QED
    BY <2>4, <2>7 DEF B!BNext
<1>7. ASSUME NEW i \in Invites, RevokeInvitation(r, i) PROVE [B!BNext]_(B!bvars)
  <2>1. UNCHANGED <<Hands, spent, members>>
    BY <1>7, RespondKeepsHands DEF RevokeInvitation, MayManage
  <2>2. CASE Pending(i)
    <3>1. B!Revoke(i)
      BY <1>7, <2>1, <2>2 DEF RevokeInvitation, MarkRevoked, B!Revoke, B!IsPending, Pending
    <3> QED
      BY <3>1 DEF B!BNext
  <2>3. CASE ~Pending(i)
    BY <1>7, <2>1, <2>3 DEF RevokeInvitation, MarkRevoked, B!bvars
  <2> QED
    BY <2>2, <2>3
<1> QED
  BY <1>1, <1>2, <1>3, <1>4, <1>5, <1>6, <1>7, ClaimAccepts DEF Invitation

\* Every step of the requests is a step of the book.
LEMMA NextIsBookStep ==
  ASSUME Consistent, InvitesDistinct, [Next]_vars
  PROVE  [B!BNext]_(B!bvars)
<1>1. ASSUME NEW r \in Requests, FailRequest(r) PROVE B!BNext
  BY <1>1, HandDropped, IdleHoldsNothing DEF FailRequest, Respond
<1>2. ASSUME NEW i \in Invites, Expire(i) PROVE B!BNext
  <2>1. B!Lapse(i)
    BY <1>2 DEF Expire, Pending, B!Lapse, B!IsPending, Hand
  <2> QED
    BY <2>1 DEF B!BNext
<1>3. CASE UNCHANGED vars
  BY <1>3 DEF vars, Hand, B!bvars
<1> QED
  BY <1>1, <1>2, <1>3, MiddlewareReads, MembershipReads, InvitationReads DEF Next

\* No step of the book makes two rows alike: a renewed invitation is the only
\* pending one of its workspace and address, and a token is drawn once.
LEMMA BookStepKeepsDistinct ==
  ASSUME Consistent, InvitesDistinct, [B!BNext]_(B!bvars)
  PROVE  InvitesDistinct'
<1> DEFINE drawn == spent \cap Invites
<1> USE DEF B!IsPending, Pending
<1>1. invites \in [Invites -> InviteRows \cup {NoInvite}]
  BY DEF Consistent, TypeOK
<1>2. CASE UNCHANGED <<invites, drawn>>
  BY <1>1, <1>2 DEF InvitesDistinct, InviteRows
<1>3. ASSUME NEW p \in WorkspaceIds, NEW a \in Emails, NEW role \in Roles,
             NEW t \in Invites, B!Issue(p, a, role, t)
      PROVE  InvitesDistinct'
  BY <1>1, <1>3 DEF B!Issue, B!Draw, B!Fresh, B!PendingFor, InvitesDistinct, InviteRows
<1>4. ASSUME NEW i \in Invites, NEW role \in Roles, NEW t \in Invites,
             B!Renew(i, role, t)
      PROVE  InvitesDistinct'
  BY <1>1, <1>4 DEF B!Renew, B!Draw, B!Fresh, B!PendingFor, InvitesDistinct, InviteRows
<1>5. ASSUME \A i \in Invites : invites'[i] # NoInvite =>
                /\ invites[i] # NoInvite
                /\ invites'[i].ws = invites[i].ws
                /\ invites'[i].email = invites[i].email
                /\ invites'[i].token = invites[i].token
                /\ invites'[i].status = "pending" => invites[i].status = "pending",
             UNCHANGED drawn
      PROVE  InvitesDistinct'
  BY <1>1, <1>5 DEF InvitesDistinct, InviteRows
<1>6. ASSUME NEW h \in Requests, NEW s, B!Accept(h, s) PROVE InvitesDistinct'
  BY <1>1, <1>5, <1>6 DEF B!Accept, B!Settle, InviteRows
<1>7. ASSUME NEW i \in Invites, B!Revoke(i) \/ B!Lapse(i) PROVE InvitesDistinct'
  BY <1>1, <1>5, <1>7 DEF B!Revoke, B!Lapse, InviteRows
<1>8. ASSUME NEW p \in WorkspaceIds, B!Close(p) PROVE InvitesDistinct'
  BY <1>1, <1>5, <1>8 DEF B!Close, InviteRows
<1>9. CASE \/ \E h \in Requests : B!Drop(h)
           \/ \E h \in Requests, x \in UserIds, a \in Emails : B!List(h, x, a)
           \/ \E h \in Requests, x \in UserIds, i \in Invites : B!LookUp(h, x, i)
           \/ \E p \in WorkspaceIds, x \in UserIds : B!Seat(p, x)
  <2>1. UNCHANGED <<invites, drawn>>
    BY <1>9 DEF B!Drop, B!List, B!LookUp, B!Take, B!Seat
  <2> QED
    BY <1>2, <2>1
<1> QED
  BY <1>2, <1>3, <1>4, <1>6, <1>7, <1>8, <1>9 DEF B!BNext, B!bvars

\* However many requests invite, re-invite and accept at once: a workspace has
\* at most one pending invitation for an address, and a token finds one row.
THEOREM InvitesStayDistinct == Spec => []InvitesDistinct
<1>1. Init => InvitesDistinct
  BY DEF Init, InvitesDistinct, Pending
<1>2. Consistent /\ InvitesDistinct /\ [Next]_vars => InvitesDistinct'
  BY NextIsBookStep, BookStepKeepsDistinct
<1> QED
  BY <1>1, <1>2, AlwaysConsistent, PTL DEF Spec

\* The requests implement the book of invitations: whoever reads, claims, signs
\* in, re-invites or revokes at once, each reading gives one seat, and only a
\* sign-in that had listed a settled invitation accepts it again.
THEOREM InvitesImplementBook == Spec => ImplementsInvitationBook
<1>1. Init => B!BInit
  BY NothingHeld, IdleHoldsNothing DEF Init, B!BInit
<1>2. Consistent /\ InvitesDistinct /\ [Next]_vars => [B!BNext]_(B!bvars)
  BY NextIsBookStep
<1> QED
  BY <1>1, <1>2, AlwaysConsistent, InvitesStayDistinct, PTL
  DEF Spec, ImplementsInvitationBook, B!BSpec

\* What a step of the book leaves of a settled invitation.
LEMMA BookStepFreezes ==
  ASSUME Consistent, Consistent', [B!BNext]_(B!bvars), NEW i \in Invites, Settled(i)
  PROVE  /\ \A r \in Requests : Holds(request[r], i)' => Holds(request[r], i)
         /\ ~SignInHolds(i) => invites'[i] \in {invites[i], NoInvite}
<1> DEFINE in(h) == \E s \in Hands[h].of : s.id = i
<1>1. \A r \in Requests : Hands[r].of = request[r].snaps
  BY DEF Hands, Hand, Nothing
<1>2. \A r \in Requests : Hands'[r].of = request'[r].snaps
  BY DEF Hands, Hand, Nothing
<1>3. i \in spent \cap Invites /\ ~B!IsPending(i)
  BY DEF Consistent, Settled, B!IsPending
<1>4. invites \in [Invites -> InviteRows \cup {NoInvite}]
  BY DEF Consistent, TypeOK
<1>5. ASSUME Hands' = Hands PROVE \A r \in Requests : in(r)' => in(r)
  BY <1>5
<1>6. ASSUME NEW h \in Requests, B!Drop(h)
      PROVE  (\A r \in Requests : in(r)' => in(r)) /\ invites' = invites
  <2>1. \A r \in Requests : Hands'[r] = IF r = h THEN B!Empty ELSE Hands[r]
    BY <1>6 DEF B!Drop, Hands
  <2>2. B!Empty.of = {}
    BY DEF B!Empty
  <2> QED
    BY <1>6, <2>1, <2>2 DEF B!Drop
<1>7. ASSUME NEW h \in Requests, NEW x, NEW listed, NEW I, I \subseteq B!Open,
             B!Take(h, x, listed, I)
      PROVE  (\A r \in Requests : in(r)' => in(r)) /\ invites' = invites
  <2>1. \A s \in {B!Reading(j) : j \in I} : s.id # i
    BY <1>3, <1>7 DEF B!Open, B!Reading
  <2>2. \A r \in Requests : Hands'[r] = IF r = h
          THEN [who |-> x, listed |-> listed, of |-> {B!Reading(j) : j \in I}]
          ELSE Hands[r]
    BY <1>7 DEF B!Take, Hands
  <2> QED
    BY <1>7, <2>1, <2>2 DEF B!Take
<1>8. ASSUME NEW h \in Requests, NEW s \in Hands[h].of, B!Accept(h, s)
      PROVE  /\ \A r \in Requests : in(r)' => in(r)
             /\ ~SignInHolds(i) => invites'[i] = invites[i]
  <2>1. \A r \in Requests : Hands'[r].of \subseteq Hands[r].of
    <3>1. \A r \in Requests : Hands'[r] = IF r # h THEN Hands[r]
            ELSE IF Hands[h].of = {s} THEN B!Empty
            ELSE [Hands[h] EXCEPT !.of = Hands[h].of \ {s}]
      BY <1>8 DEF B!Accept, Hands
    <3>2. [Hands[h] EXCEPT !.of = Hands[h].of \ {s}].of \subseteq Hands[h].of
      BY DEF Hands, Hand, Nothing
    <3>3. B!Empty.of = {}
      BY DEF B!Empty
    <3> QED
      BY <3>1, <3>2, <3>3
  <2>2. s.id = i /\ Hands[h].listed => SignInHolds(i)
    <3>1. s \in request[h].snaps
      BY <1>1
    <3>2. Hands[h].listed = (request[h].pc = "accepting")
      BY <3>1 DEF Hands, Hand
    <3> QED
      BY <3>1, <3>2 DEF SignInHolds, Holds
  <2>3. B!Settle(s, Hands[h].listed)
    BY <1>8 DEF B!Accept, Hands
  <2>4. ~SignInHolds(i) => invites'[i] = invites[i]
    BY <1>3, <1>4, <2>2, <2>3 DEF B!Settle, B!IsPending
  <2> QED
    BY <2>1, <2>4
<1>9. ASSUME NEW t \in Invites,
             \/ \E p, a, role : B!Issue(p, a, role, t)
             \/ \E j \in Invites : \E role : B!Renew(j, role, t)
             \/ B!Revoke(t) \/ B!Lapse(t)
      PROVE  invites'[i] = invites[i] /\ UNCHANGED Hands
  BY <1>3, <1>4, <1>9 DEF B!Issue, B!Renew, B!Draw, B!Revoke, B!Lapse, Hands
<1>10. ASSUME NEW p, B!Close(p) \/ \E x : B!Seat(p, x)
       PROVE  invites'[i] \in {invites[i], NoInvite} /\ UNCHANGED Hands
  BY <1>4, <1>10 DEF B!Close, B!Seat, Hands
<1>11. /\ \A r \in Requests : in(r)' => in(r)
       /\ ~SignInHolds(i) => invites'[i] \in {invites[i], NoInvite}
  <2>1. CASE UNCHANGED B!bvars
    BY <1>5, <2>1 DEF B!bvars, Hands
  <2>2. CASE \E h \in Requests : \E x \in UserIds, a \in Emails : B!List(h, x, a)
    <3>1. PICK h, x, a : h \in Requests /\ B!Take(h, x, TRUE, B!OpenFor(a))
      BY <2>2 DEF B!List
    <3>2. B!OpenFor(a) \subseteq B!Open
      BY DEF B!OpenFor
    <3> HIDE DEF in
    <3> QED
      BY <1>7, <3>1, <3>2
  <2>3. CASE \E h \in Requests : \E x \in UserIds, j \in Invites : B!LookUp(h, x, j)
    <3>1. PICK h, x, j : /\ h \in Requests
                         /\ j \in B!Open /\ B!Take(h, x, FALSE, {j})
      BY <2>3 DEF B!LookUp
    <3>2. {j} \subseteq B!Open
      BY <3>1
    <3> HIDE DEF in
    <3> QED
      BY <1>7, <3>1, <3>2
  <2>4. CASE \E h \in Requests : B!Drop(h) \/ \E s \in Hands[h].of : B!Accept(h, s)
    <3> HIDE DEF in
    <3> QED
      BY <1>6, <1>8, <2>4
  <2> HIDE DEF in
  <2> QED
    BY <1>5, <1>9, <1>10, <2>1, <2>2, <2>3, <2>4 DEF B!BNext, Hands
<1> QED
  BY <1>1, <1>2, <1>11 DEF Holds

\* Revoking or accepting an invitation puts it out of use for good: no request
\* comes to hold it, and once the sign-ins that had listed it are over nothing
\* brings it back, claims that had looked it up included.
THEOREM SettledIsFinal == Spec => SettledStaysSettled
<1>1. Consistent /\ Consistent' /\ InvitesDistinct /\ [Next]_vars => [FreezesSettled]_vars
  BY NextIsBookStep, BookStepFreezes DEF FreezesSettled
<1> QED
  BY <1>1, AlwaysConsistent, InvitesStayDistinct, PTL DEF Spec, SettledStaysSettled
=============================================================================
