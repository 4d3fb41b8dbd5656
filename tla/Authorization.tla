---------------------------- MODULE Authorization ----------------------------
(***************************************************************************)
(* The role table of internal/auth/permissions.go.                         *)
(***************************************************************************)

Roles == {"Admin", "SRE", "Developer", "Viewer"}

\* The empty string a handler finds in c.Locals("role"), or in callerRole,
\* when the caller is not a member.
NoRole == ""

Actions == {"modify_settings", "approve_plan", "dispatch_queue",
            "compile_schema", "read_logs", "manage_members"}

\* The actions a role may perform; an unknown role may perform none.
Permitted(role) ==
  CASE role = "Admin"     -> Actions
    [] role = "SRE"       -> Actions \ {"manage_members"}
    [] role = "Developer" -> {"compile_schema", "read_logs"}
    [] role = "Viewer"    -> {"read_logs"}
    [] OTHER              -> {}

IsAuthorized(role, action) == action \in Permitted(role)
=============================================================================
