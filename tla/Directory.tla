------------------------------ MODULE Directory ------------------------------
(***************************************************************************)
(* What the workspace tables promise the rest of the system, without       *)
(* requests, invitations or statements: a directory of workspaces, each    *)
(* with an owner that stays, and of the roles of users in them.            *)
(***************************************************************************)
EXTENDS Authorization

CONSTANTS Ids,       \* the ids of workspaces
          Closable,  \* those that may be deleted
          People,    \* the users
          Nobody     \* the owner of a workspace that does not exist

VARIABLES owner,     \* id -> the owner
          members,   \* id -> user -> role
          founded    \* the ids some workspace has had so far

dvars == <<owner, members, founded>>

DInit ==
  /\ owner = [w \in Ids |-> Nobody]
  /\ members = [w \in Ids |-> [u \in People |-> NoRole]]
  /\ founded = {}

\* A workspace begins with its owner as a member, under an id never used.
Found(w, u) ==
  /\ w \notin founded
  /\ u # Nobody
  /\ founded' = founded \cup {w}
  /\ owner' = [owner EXCEPT ![w] = u]
  /\ \E role \in Roles : members' = [members EXCEPT ![w][u] = role]

\* A user gets a role, or another role.
Grant(w, u) ==
  /\ \E role \in Roles : members' = [members EXCEPT ![w][u] = role]
  /\ UNCHANGED <<owner, founded>>

\* A member leaves; the owner cannot.
Drop(w, u) ==
  /\ u = owner[w] => u = Nobody
  /\ members' = [members EXCEPT ![w][u] = NoRole]
  /\ UNCHANGED <<owner, founded>>

\* A workspace ends, with all its memberships; its id is not founded again.
Close(w) ==
  /\ owner' = [owner EXCEPT ![w] = Nobody]
  /\ members' = [members EXCEPT ![w] = [u \in People |-> NoRole]]
  /\ UNCHANGED founded

DNext ==
  \/ \E w \in Ids, u \in People : Drop(w, u) \/ Grant(w, u) \/ Found(w, u)
  \/ \E w \in Closable : Close(w)

DSpec == DInit /\ [][DNext]_dvars
=============================================================================
