------------------------------ MODULE Workspaces ------------------------------
(***************************************************************************)
(* Workspaces, their members and the invitations to them: the handlers of  *)
(* internal/handler/workspace.go, the queries of                           *)
(* internal/repository/workspace.go they issue, and the part of            *)
(* internal/middleware/auth.go that runs before every handler.             *)
(*                                                                         *)
(* Several requests are in progress at once.  One action is one statement, *)
(* or one transaction, of one request: between two of them any other       *)
(* request may run.  A transaction is one action because the rows it       *)
(* writes stay locked until its commit (Read Committed, the driver's       *)
(* default): what its first statement matched still holds at the commit.   *)
(*                                                                         *)
(* The schema is not in the repository.  A member row for a workspace that *)
(* is gone is therefore accepted (no foreign key) or makes the statement   *)
(* fail (FailRequest), and deleting a workspace keeps or cascades to its   *)
(* invitations.                                                            *)
(***************************************************************************)
EXTENDS Authorization, FiniteSets

CONSTANTS
  Users,        \* the user ids requests carry or name
  Agent,        \* "m2m-agent", the user id of every machine request
  Tenants,      \* the workspaces machine API keys exist for
  Requests,     \* slots for the requests in progress at the same time
  Shared,       \* the ids CreateWorkspace can draw ("ws-" and 8 hex digits)
  DefaultWs,    \* "default_ws", the workspace POST /users adds members to
  PersonalOf,   \* user id -> "personal-" and the id without "user_"
  Emails,       \* email addresses as they are spelled
  Fold,         \* spelling -> the address in lower case
  Invites,      \* the ids (and tokens) CreateInvitation can draw
  GrantRoles,   \* the roles requests ask for
  TargetLists,  \* the workspace_ids clients invite to, {} when left out
  Endpoints,    \* the endpoints the clients call
  NoUser,       \* the empty user id, and the owner of no workspace
  NoWs, NoEmail, NoInvite

\* The user ids a row or a request can have: POST /users accepts an empty id and
\* a request that only names a tenant has one.
UserIds == Users \cup {NoUser}

Personal == {PersonalOf[u] : u \in Users}

WorkspaceIds == Shared \cup Personal \cup {DefaultWs}

\* PersonalOf need not be injective for the safety theorems: "a" and "user_a"
\* have the same sandbox.
ASSUME WorkspacesAssumption ==
  /\ NoUser \notin Users
  /\ PersonalOf \in [Users -> Personal]
  /\ Shared \cap (Personal \cup {DefaultWs}) = {}
  /\ DefaultWs \notin Personal
  /\ NoWs \notin WorkspaceIds
  /\ Tenants \subseteq WorkspaceIds
  /\ NoEmail \notin Emails
  /\ GrantRoles \subseteq Roles
  /\ TargetLists \subseteq SUBSET WorkspaceIds
  /\ Shared \cap Invites = {}

VARIABLES
  owner,     \* workspaces: id -> owner_id, NoUser when there is no such row
  members,   \* workspace_members: workspace -> user -> role
  invites,   \* workspace_invitations: id -> the row, or NoInvite
  spent,     \* ids drawn so far; uuid.New() does not draw one twice
  request    \* slot -> the locals of the request it runs

vars == <<owner, members, invites, spent, request>>

Statuses == {"pending", "accepted", "revoked"}

InviteRows == [ws: WorkspaceIds, email: Emails, role: Roles, token: Invites,
               status: Statuses, expired: BOOLEAN]

\* What a request remembers of an invitation it has read.
Snapshots == [id: Invites, ws: WorkspaceIds, role: Roles]

(***************************************************************************)
(* pc: "idle"; in the middleware "accepting" (pending invitations read),   *)
(* "probing", "sandboxing", "resolving"; "ready" when the locals are set;  *)
(* then, between two statements of a handler, "removing", "deleting",      *)
(* "listing", "checking", "inserting" and "claiming".                      *)
(***************************************************************************)
Pcs == {"idle", "accepting", "probing", "sandboxing", "resolving", "ready",
        "removing", "deleting", "listing", "checking", "inserting", "claiming"}

RequestRows ==
  [pc: Pcs,
   user: UserIds,                       \* clerk_user_id
   ws: WorkspaceIds \cup {NoWs},        \* workspace_id, or the target
   role: Roles \cup {NoRole},           \* role, or the caller's in the target
   snaps: SUBSET Snapshots,             \* pendingInvites, or the one claimed
   subject: UserIds,                    \* the member to remove
   targets: SUBSET WorkspaceIds,        \* targetWSIDs still to invite to
   email: Emails \cup {NoEmail},        \* the invitee
   grant: Roles \cup {NoRole}]          \* the role offered

Idle == [pc |-> "idle", user |-> NoUser, ws |-> NoWs, role |-> NoRole,
         snaps |-> {}, subject |-> NoUser, targets |-> {},
         email |-> NoEmail, grant |-> NoRole]

Init ==
  /\ owner = [w \in WorkspaceIds |-> NoUser]
  /\ members = [w \in WorkspaceIds |-> [u \in UserIds |-> NoRole]]
  /\ invites = [i \in Invites |-> NoInvite]
  /\ spent = {}
  /\ request = [r \in Requests |-> Idle]

MembershipsOf(u) == {w \in WorkspaceIds : members[w][u] # NoRole}

Pending(i) == invites[i] # NoInvite /\ invites[i].status = "pending"

Snapshot(i) == [id |-> i, ws |-> invites[i].ws, role |-> invites[i].role]

Become(r, locals) == request' = [request EXCEPT ![r] = locals]

\* The handler answers; the slot is free for another request.
Respond(r) == Become(r, Idle)

-----------------------------------------------------------------------------
(* The middleware: ClerkAuthMiddleware.Authenticate.                        *)

\* What runs once the invitations of the caller are settled: a machine has the
\* tenant of its key as workspace and is Admin there, anyone else needs a sandbox.
Authenticated(u, tenant) ==
  IF tenant # NoWs
  THEN [Idle EXCEPT !.pc = "ready", !.user = u, !.ws = tenant, !.role = "Admin"]
  ELSE [Idle EXCEPT !.pc = "probing", !.user = u]

\* The pending invitations autoAcceptInvitations selects for an address.
Claimable(email) ==
  {i \in Invites : /\ Pending(i)
                   /\ Fold[invites[i].email] = Fold[email]
                   /\ ~invites[i].expired}

\* A request of user u arrives.  Only a machine key gives it a tenant, and then
\* u is Agent; x-clerk-user-id may name Agent without a key.  Its email is that
\* of the token or of a header, so any or none; with one, its pending invitations
\* are read, and the error of that query is ignored (found = {}).
Arrive(r, u) ==
  /\ request[r].pc = "idle"
  /\ \E tenant \in {NoWs} \cup IF u = Agent THEN Tenants ELSE {},
        email \in Emails \cup {NoEmail} :
       \E found \in {{}} \cup IF email = NoEmail THEN {}
                               ELSE {{Snapshot(i) : i \in Claimable(email)}} :
         Become(r, IF found = {} THEN Authenticated(u, tenant)
                   ELSE [Idle EXCEPT !.pc = "accepting", !.user = u,
                                     !.ws = tenant, !.snaps = found])
  /\ UNCHANGED <<owner, members, invites, spent>>

\* A request with x-tenant-id and no user: the handler runs without a user,
\* without a workspace and without a role.
ArriveWithoutUser(r) ==
  /\ request[r].pc = "idle"
  /\ Become(r, [Idle EXCEPT !.pc = "ready"])
  /\ UNCHANGED <<owner, members, invites, spent>>

\* INSERT ... ON CONFLICT DO UPDATE SET role.
UpsertMember(w, u, role) == members' = [members EXCEPT ![w][u] = role]

\* The transaction both ways of accepting an invitation end with: the row s.id
\* becomes accepted if its status is in From, and the user a member of s.ws.
Enrol(s, u, From) ==
  /\ invites' = IF invites[s.id] # NoInvite /\ invites[s.id].status \in From
                THEN [invites EXCEPT ![s.id].status = "accepted"]
                ELSE invites
  /\ UpsertMember(s.ws, u, s.role)

\* One round of the loop of autoAcceptInvitations: its UPDATE matches the id
\* only, whatever the status has become since the SELECT.
AutoAccept(r, s) ==
  /\ request[r].pc = "accepting"
  /\ s \in request[r].snaps
  /\ Enrol(s, request[r].user, Statuses)
  /\ Become(r, IF request[r].snaps = {s}
               THEN Authenticated(request[r].user, request[r].ws)
               ELSE [request[r] EXCEPT !.snaps = @ \ {s}])
  /\ UNCHANGED <<owner, spent>>

\* A statement of a round fails: the others are given up, the request goes on.
AutoAcceptFails(r) ==
  /\ request[r].pc = "accepting"
  /\ Become(r, Authenticated(request[r].user, request[r].ws))
  /\ UNCHANGED <<owner, members, invites, spent>>

\* resolveWorkspaceAndRole: SELECT EXISTS of the caller's sandbox.
ProbeSandbox(r) ==
  /\ request[r].pc = "probing"
  /\ Become(r, [request[r] EXCEPT
                  !.pc = IF owner[PersonalOf[request[r].user]] # NoUser
                         THEN "resolving" ELSE "sandboxing"])
  /\ UNCHANGED <<owner, members, invites, spent>>

\* The transaction that makes it, both inserts with ON CONFLICT DO NOTHING.
CreateSandbox(r) ==
  LET u == request[r].user
      w == PersonalOf[u]
  IN /\ request[r].pc = "sandboxing"
     /\ owner' = [owner EXCEPT ![w] = IF @ = NoUser THEN u ELSE @]
     /\ members' = [members EXCEPT ![w][u] = IF @ = NoRole THEN "Admin" ELSE @]
     /\ Become(r, [request[r] EXCEPT !.pc = "resolving"])
     /\ UNCHANGED <<invites, spent>>

\* The membership used: the one asked for in x-active-workspace-id, or else
\* the first row of a SELECT without ORDER BY, that is, any.
Resolutions(u, asked) ==
  IF asked \in MembershipsOf(u) THEN {asked} ELSE MembershipsOf(u)

Resolve(r) ==
  LET u == request[r].user
  IN /\ request[r].pc = "resolving"
     /\ \E asked \in WorkspaceIds \cup {NoWs} :
          \E w \in Resolutions(u, asked) :
            Become(r, [Idle EXCEPT !.pc = "ready", !.user = u, !.ws = w,
                                   !.role = members[w][u]])
     /\ UNCHANGED <<owner, members, invites, spent>>

\* resolveWorkspaceAndRole fails but the request has an x-tenant-id header:
\* the handler runs without a workspace and without a role.
ResolveFails(r) ==
  /\ request[r].pc \in {"probing", "sandboxing", "resolving"}
  /\ Become(r, [Idle EXCEPT !.pc = "ready", !.user = request[r].user])
  /\ UNCHANGED <<owner, members, invites, spent>>

-----------------------------------------------------------------------------
(* The members of the active workspace.                                     *)

\* The check of AddWorkspaceMember, RemoveWorkspaceMember and
\* RevokeInvitation: it uses the role the middleware read.
MayManage(r, endpoint) ==
  /\ endpoint \in Endpoints
  /\ request[r].pc = "ready"
  /\ request[r].ws # NoWs
  /\ IsAuthorized(request[r].role, "manage_members")

AddWorkspaceMember(r, u, role) ==
  /\ MayManage(r, "add")
  /\ UpsertMember(request[r].ws, u, role)
  /\ Respond(r)
  /\ UNCHANGED <<owner, invites, spent>>

\* Slip: the owner is not compared with the member to remove.
RemoveAnyone(r, u) ==
  /\ MayManage(r, "remove")
  /\ owner[request[r].ws] # NoUser
  /\ Become(r, [Idle EXCEPT !.pc = "removing", !.ws = request[r].ws,
                            !.subject = u])
  /\ UNCHANGED <<owner, members, invites, spent>>

\* Slip: the error of GetWorkspaceOwner is ignored, as CreateInvitation does.
RemoveIgnoresError(r, u) ==
  /\ MayManage(r, "remove")
  /\ u # owner[request[r].ws]
  /\ Become(r, [Idle EXCEPT !.pc = "removing", !.ws = request[r].ws,
                            !.subject = u])
  /\ UNCHANGED <<owner, members, invites, spent>>

\* RemoveWorkspaceMember reads the owner and refuses to remove the owner ...
RemoveChecksOwner(r, u) ==
  /\ MayManage(r, "remove")
  /\ owner[request[r].ws] # NoUser
  /\ u # owner[request[r].ws]
  /\ Become(r, [Idle EXCEPT !.pc = "removing", !.ws = request[r].ws,
                            !.subject = u])
  /\ UNCHANGED <<owner, members, invites, spent>>

\* ... and then deletes the row in a second statement.
RemoveWorkspaceMember(r) ==
  /\ request[r].pc = "removing"
  /\ members' = [members EXCEPT ![request[r].ws][request[r].subject] = NoRole]
  /\ Respond(r)
  /\ UNCHANGED <<owner, invites, spent>>

\* POST /users: PostgresUserRepository.Create, ON CONFLICT DO NOTHING.
CreateUser(r, u) ==
  /\ "users" \in Endpoints
  /\ request[r].pc = "ready"
  /\ members' = [members EXCEPT ![DefaultWs][u] = IF @ = NoRole THEN "Admin" ELSE @]
  /\ Respond(r)
  /\ UNCHANGED <<owner, invites, spent>>

-----------------------------------------------------------------------------
(* Workspaces.                                                              *)

\* The transaction inserts the workspace and its first member, both plainly: a
\* row that exists makes it fail.
InsertWorkspace(w, u) ==
  /\ w \notin spent
  /\ members[w][u] = NoRole
  /\ owner' = [owner EXCEPT ![w] = u]
  /\ members' = [members EXCEPT ![w][u] = "Admin"]
  /\ spent' = spent \cup {w}

CreateWorkspace(r, w) ==
  /\ "create" \in Endpoints
  /\ request[r].pc = "ready"
  /\ request[r].user # NoUser
  /\ InsertWorkspace(w, request[r].user)
  /\ Respond(r)
  /\ UNCHANGED invites

\* Slip: the check for the prefix "personal-" is missing.
DeletePersonalToo(r, w) ==
  /\ "delete" \in Endpoints
  /\ request[r].pc = "ready"
  /\ request[r].user # NoUser
  /\ owner[w] = request[r].user
  /\ Become(r, [Idle EXCEPT !.pc = "deleting", !.ws = w])
  /\ UNCHANGED <<owner, members, invites, spent>>

\* DeleteWorkspace refuses ids that begin with "personal-" and callers that
\* are no user or not the owner ...
DeleteChecksOwner(r, w) ==
  /\ "delete" \in Endpoints
  /\ request[r].pc = "ready"
  /\ request[r].user # NoUser
  /\ w \notin Personal
  /\ owner[w] = request[r].user
  /\ Become(r, [Idle EXCEPT !.pc = "deleting", !.ws = w])
  /\ UNCHANGED <<owner, members, invites, spent>>

\* Slip: only the workspace row is deleted.
DeleteKeepsMembers(w) ==
  /\ owner' = [owner EXCEPT ![w] = NoUser]
  /\ UNCHANGED <<members, invites>>

\* The transaction that deletes the member rows and the workspace.
DeleteRows(w) ==
  /\ owner' = [owner EXCEPT ![w] = NoUser]
  /\ members' = [members EXCEPT ![w] = [u \in UserIds |-> NoRole]]
  /\ \/ UNCHANGED invites
     \/ invites' = [i \in Invites |->
                      IF invites[i] # NoInvite /\ invites[i].ws = w
                      THEN NoInvite ELSE invites[i]]

\* ... and then deletes it.
DeleteWorkspace(r) ==
  /\ request[r].pc = "deleting"
  /\ DeleteRows(request[r].ws)
  /\ Respond(r)
  /\ UNCHANGED spent

-----------------------------------------------------------------------------
(* Invitations.                                                             *)

\* CreateInvitation: the body names the invitee, the role and the workspaces,
\* or none: then it is the active one.  The caller may be no user.  The loop
\* begins.
InviteBegins(r, email, role, named) ==
  LET targets == IF named # {} THEN named ELSE {request[r].ws} \ {NoWs}
  IN /\ "invite" \in Endpoints
     /\ request[r].pc = "ready"
     /\ targets # {}
     /\ Become(r, [Idle EXCEPT !.pc = "listing", !.user = request[r].user,
                               !.targets = targets, !.email = email,
                               !.grant = role])
     /\ UNCHANGED <<owner, members, invites, spent>>

\* A round: ListWorkspaceMembers, which gives the caller's role in w.
InviteListsMembers(r, w) ==
  /\ request[r].pc = "listing"
  /\ w \in request[r].targets
  /\ Become(r, [request[r] EXCEPT !.pc = "checking", !.ws = w,
                                  !.role = members[w][request[r].user]])
  /\ UNCHANGED <<owner, members, invites, spent>>

\* What GetWorkspaceOwner leaves in ownerID: its error, which an id without a row
\* is too, is ignored and leaves it empty.
OwnerReads(w) == {owner[w], NoUser}

\* The caller may invite: for its role, or because its id is the ownerID read.  No
\* user is the empty ownerID.
MayInvite(r, ownerID) == \/ IsAuthorized(request[r].role, "manage_members")
                         \/ request[r].user = ownerID

InviteChecksOwner(r) ==
  /\ request[r].pc = "checking"
  /\ \E ownerID \in OwnerReads(request[r].ws) : MayInvite(r, ownerID)
  /\ Become(r, [request[r] EXCEPT !.pc = "inserting", !.role = NoRole])
  /\ UNCHANGED <<owner, members, invites, spent>>

\* Forbidden: what earlier rounds inserted stays.
InviteRefused(r) ==
  /\ request[r].pc = "checking"
  /\ \E ownerID \in OwnerReads(request[r].ws) : ~MayInvite(r, ownerID)
  /\ Respond(r)
  /\ UNCHANGED <<owner, members, invites, spent>>

\* The rows the partial unique index (workspace_id, email) WHERE pending finds.
Conflicting(w, email) ==
  {i \in Invites : Pending(i) /\ invites[i].ws = w /\ invites[i].email = email}

\* The upsert with the id and token i just drawn: a pending row for the same
\* workspace and email keeps its id and takes the new role, token and expiry.
UpsertInvitation(i, w, email, role) ==
  LET row == [ws |-> w, email |-> email, role |-> role, token |-> i,
              status |-> "pending", expired |-> FALSE]
  IN invites' = [j \in Invites |->
                   IF \/ j \in Conflicting(w, email)
                      \/ j = i /\ Conflicting(w, email) = {}
                   THEN row ELSE invites[j]]

\* The end of a round, and of the request after the last.
InviteInserts(r, i) ==
  LET q == request[r]
  IN /\ q.pc = "inserting"
     /\ i \notin spent
     /\ spent' = spent \cup {i}
     /\ UpsertInvitation(i, q.ws, q.email, q.grant)
     /\ Become(r, IF q.targets = {q.ws} THEN Idle
                  ELSE [q EXCEPT !.pc = "listing", !.ws = NoWs,
                                 !.targets = @ \ {q.ws}])
     /\ UNCHANGED <<owner, members>>

\* GetInvitationByTokenHash.
FindByToken(token) == {i \in Invites : /\ invites[i] # NoInvite
                                       /\ invites[i].token = token}

\* Slip: the status of the invitation is not checked.
ClaimAnyStatus(r, token, email) ==
  \E i \in FindByToken(token) :
    /\ "accept" \in Endpoints
    /\ request[r].pc = "ready"
    /\ ~invites[i].expired
    /\ email # NoEmail => Fold[email] = Fold[invites[i].email]
    /\ request[r].user \notin {Agent, NoUser}
    /\ Become(r, [Idle EXCEPT !.pc = "claiming", !.user = request[r].user,
                              !.snaps = {Snapshot(i)}])
    /\ UNCHANGED <<owner, members, invites, spent>>

\* AcceptInvitation looks up the token and checks what it read.  The body's
\* email, when there is one, must be the invitation's.
ClaimLooksUp(r, token, email) ==
  \E i \in FindByToken(token) :
    /\ "accept" \in Endpoints
    /\ request[r].pc = "ready"
    /\ invites[i].status = "pending"
    /\ ~invites[i].expired
    /\ email # NoEmail => Fold[email] = Fold[invites[i].email]
    /\ request[r].user \notin {Agent, NoUser}
    /\ Become(r, [Idle EXCEPT !.pc = "claiming", !.user = request[r].user,
                              !.snaps = {Snapshot(i)}])
    /\ UNCHANGED <<owner, members, invites, spent>>

\* The transaction: the UPDATE asks for a pending row, but whether it matched
\* one is not looked at and the caller becomes a member either way.
ClaimInvitation(r, s) ==
  /\ request[r].pc = "claiming"
  /\ s \in request[r].snaps
  /\ Enrol(s, request[r].user, {"pending"})
  /\ Respond(r)
  /\ UNCHANGED <<owner, spent>>

\* UPDATE ... SET status = 'revoked' WHERE id = i AND status = 'pending'.
MarkRevoked(i) ==
  invites' = IF Pending(i) THEN [invites EXCEPT ![i].status = "revoked"]
             ELSE invites

\* RevokeInvitation by id, of whatever workspace the row is.
RevokeInvitation(r, i) ==
  /\ MayManage(r, "revoke")
  /\ MarkRevoked(i)
  /\ Respond(r)
  /\ UNCHANGED <<owner, members, spent>>

\* 24 hours pass: expires_at is now in the past.
Expire(i) ==
  /\ Pending(i)
  /\ ~invites[i].expired
  /\ invites' = [invites EXCEPT ![i].expired = TRUE]
  /\ UNCHANGED <<owner, members, spent, request>>

-----------------------------------------------------------------------------

\* A statement fails, a check refuses or the endpoint only reads: the request
\* is answered and what it has already committed stays.
FailRequest(r) ==
  /\ request[r].pc # "idle"
  /\ Respond(r)
  /\ UNCHANGED <<owner, members, invites, spent>>

Middleware(r) ==
  \/ \E u \in Users : Arrive(r, u)
  \/ ArriveWithoutUser(r)
  \/ \E s \in request[r].snaps : AutoAccept(r, s)
  \/ AutoAcceptFails(r)
  \/ ProbeSandbox(r)
  \/ CreateSandbox(r)
  \/ Resolve(r)
  \/ ResolveFails(r)

Membership(r) ==
  \/ \E u \in Users, role \in GrantRoles : AddWorkspaceMember(r, u, role)
  \/ \E u \in UserIds : RemoveChecksOwner(r, u)
  \/ RemoveWorkspaceMember(r)
  \/ \E u \in UserIds : CreateUser(r, u)
  \/ \E w \in Shared : CreateWorkspace(r, w)
  \/ \E w \in WorkspaceIds : DeleteChecksOwner(r, w)
  \/ DeleteWorkspace(r)

Invitation(r) ==
  \/ \E e \in Emails, role \in GrantRoles, named \in TargetLists :
       InviteBegins(r, e, role, named)
  \/ \E w \in request[r].targets : InviteListsMembers(r, w)
  \/ InviteChecksOwner(r)
  \/ InviteRefused(r)
  \/ \E i \in Invites : InviteInserts(r, i)
  \/ \E i \in Invites, e \in Emails \cup {NoEmail} : ClaimLooksUp(r, i, e)
  \/ \E s \in request[r].snaps : ClaimInvitation(r, s)
  \/ \E i \in Invites : RevokeInvitation(r, i)

Next ==
  \/ \E r \in Requests : \/ Middleware(r)
                         \/ Membership(r)
                         \/ Invitation(r)
                         \/ FailRequest(r)
  \/ \E i \in Invites : Expire(i)

Spec == Init /\ [][Next]_vars

-----------------------------------------------------------------------------
(* Safety.                                                                  *)

TypeOK ==
  /\ owner \in [WorkspaceIds -> UserIds]
  /\ members \in [WorkspaceIds -> [UserIds -> Roles \cup {NoRole}]]
  /\ invites \in [Invites -> InviteRows \cup {NoInvite}]
  /\ spent \subseteq Shared \cup Invites
  /\ request \in [Requests -> RequestRows]

\* The owner of a workspace that exists is a member of it, whatever removals,
\* deletions and creations overlap.  RemoveWorkspaceMember compares with the
\* owner in one statement and deletes in another (handler/workspace.go:162-171).
OwnerIsMember ==
  \A w \in WorkspaceIds : owner[w] # NoUser => members[w][owner[w]] # NoRole

\* A request about to read its caller's memberships finds one, so the error of
\* middleware/auth.go:339-341 ("no memberships found even after personal
\* sandbox creation") cannot happen when every user has a sandbox of its own.
SandboxFound ==
  \A r \in Requests :
    request[r].pc = "resolving" => MembershipsOf(request[r].user) # {}

Settled(i) == invites[i] # NoInvite /\ invites[i].status # "pending"

Holds(q, i) == \E s \in q.snaps : s.id = i

\* A sign-in in progress read the invitation while it was pending.
SignInHolds(i) ==
  \E r \in Requests : request[r].pc = "accepting" /\ Holds(request[r], i)

\* What a step leaves alone of a settled invitation: no request comes to hold it,
\* and unless a sign-in holds it its row stays, until a deleted workspace takes it
\* along.
FreezesSettled ==
  \A i \in Invites : Settled(i) =>
    /\ \A r \in Requests : Holds(request[r], i)' => Holds(request[r], i)
    /\ ~SignInHolds(i) => invites'[i] \in {invites[i], NoInvite}

\* An accepted or revoked invitation is out of use: no request picks it up again,
\* by token (the status check of handler/workspace.go:567) or by email
\* (middleware/auth.go:469), no upsert or revocation changes its row, and neither
\* does a claim that had looked it up: only a sign-in that had listed it does.
SettledStaysSettled == [][FreezesSettled]_vars

\* The ids in use so far: a shared id once it was drawn, a sandbox once made.
Founded == (spent \cap Shared) \cup {w \in Personal : owner[w] # NoUser}

\* What holds between the statements of a request: the locals a statement uses
\* are set, and what an earlier statement checked has not been undone since.
LocalsOK(q) ==
  /\ q.pc \in {"accepting", "probing", "sandboxing", "resolving", "claiming"} =>
       q.user \in Users
  /\ q.snaps # {} => q.pc \in {"accepting", "claiming"}
  /\ q.pc = "claiming" => \E s \in Snapshots : q.snaps = {s}
  /\ q.pc = "removing" => q.ws \in Founded
  /\ q.pc = "removing" /\ q.subject # NoUser => owner[q.ws] # q.subject
  /\ q.pc = "deleting" => q.ws \in Shared
  /\ q.pc = "resolving" => owner[PersonalOf[q.user]] # NoUser
  /\ q.pc \in {"checking", "inserting"} => q.ws \in WorkspaceIds
  /\ q.pc \in {"listing", "checking", "inserting"} =>
       q.email \in Emails /\ q.grant \in Roles

\* The inductive invariant behind the theorems of WorkspacesProofs: an owned id
\* was founded, a sandbox belongs to a user it is named after, only drawn ids
\* have an invitation, and every request's locals are consistent with the tables.
Consistent ==
  /\ TypeOK
  /\ OwnerIsMember
  /\ \A w \in WorkspaceIds : owner[w] # NoUser => w \in Founded
  /\ \A w \in Personal : owner[w] # NoUser => PersonalOf[owner[w]] = w
  /\ \A i \in Invites : invites[i] # NoInvite => i \in spent
  /\ \A r \in Requests : LocalsOK(request[r])

D == INSTANCE Directory WITH Ids <- WorkspaceIds, Closable <- Shared,
                             People <- UserIds, Nobody <- NoUser,
                             founded <- Founded

\* The tables implement the directory: an id is founded once, its owner never
\* changes and is never dropped, a sandbox is never closed.
ImplementsDirectory == D!DSpec

\* What a request has read of invitations and not acted on yet, and for whom.
Nothing == [who |-> NoUser, listed |-> FALSE, of |-> {}]

Hand(q) == IF q.snaps = {} THEN Nothing
           ELSE [who |-> q.user, listed |-> q.pc = "accepting", of |-> q.snaps]

B == INSTANCE InvitationBook WITH Ids <- Invites, Places <- WorkspaceIds,
       Addresses <- Emails, Canon <- Fold, Offers <- Roles, NoOffer <- NoRole,
       People <- UserIds, Nobody <- NoUser, Hands <- Requests, None <- NoInvite,
       book <- invites, drawn <- spent \cap Invites, seats <- members,
       hand <- [r \in Requests |-> Hand(request[r])]

\* The invitations implement the book: at most one pending row per workspace and
\* address, every token new; only pending unexpired rows are read, those of one
\* address or one of them; each is acted on once, its membership and its row
\* together, and a claim brings no settled row back.
ImplementsInvitationBook == B!BSpec

\* What the partial unique index and the tokens of uuid.New() give together: no
\* two pending rows for a workspace and an address, no token in two rows, so
\* GetInvitationByTokenHash has at most one row to find.
InvitesDistinct ==
  /\ \A i, j \in Invites :
       Pending(i) /\ Pending(j) /\ invites[i].ws = invites[j].ws
                 /\ invites[i].email = invites[j].email => i = j
  /\ \A i, j \in Invites :
       /\ invites[i] # NoInvite => invites[i].token \in spent
       /\ invites[i] # NoInvite /\ invites[j] # NoInvite
            /\ invites[i].token = invites[j].token => i = j
=============================================================================
