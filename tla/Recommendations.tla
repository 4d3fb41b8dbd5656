--------------------------- MODULE Recommendations ---------------------------
(***************************************************************************)
(* Approving and rejecting index recommendations: ApproveRecommendation    *)
(* and RejectRecommendation of internal/handler/telemetry.go, of           *)
(* internal/service/telemetry.go and of internal/repository/telemetry.go.  *)
(*                                                                         *)
(* An approval reads the row, asks the engine, runs the DDL and marks the  *)
(* row, each without a transaction around them; a rejection is one UPDATE. *)
(* Requests name recommendations of their own tenant: for another's, the   *)
(* SELECT of an approval fails and the UPDATE of a rejection matches none. *)
(***************************************************************************)
EXTENDS Authorization, Naturals, FiniteSets

CONSTANTS
  Recs,      \* the rows of index_recommendations
  NoDDL,     \* the recommendations whose proposed_ddl is empty
  Critical,  \* those the engine finds CRITICAL when it answers
  Requests,  \* slots for the approvals in progress
  MaxRuns,   \* bound of the times a DDL is run
  NoRec

ASSUME RecommendationsAssumption ==
  /\ NoDDL \subseteq Recs
  /\ Critical \subseteq Recs \ NoDDL
  /\ NoRec \notin Recs
  /\ IsFiniteSet(Requests)
  /\ MaxRuns \in Nat

VARIABLES
  status,   \* recommendation -> its status
  runs,     \* recommendation -> how often its DDL took effect
  tried,    \* those whose DDL was sent and ran, or met a missing table
  request   \* slot -> the approval it runs

vars == <<status, runs, tried, request>>

Statuses == {"pending_approval", "applied", "rejected"}

\* pc: "read" (the row was pending), "cleared" (the engine did not object),
\* "executed" (nothing left but the UPDATE).
RequestRows == [pc: {"idle", "read", "cleared", "executed"},
                rec: Recs \cup {NoRec}]

Idle == [pc |-> "idle", rec |-> NoRec]

Init ==
  /\ status = [c \in Recs |-> "pending_approval"]
  /\ runs = [c \in Recs |-> 0]
  /\ tried = {}
  /\ request = [r \in Requests |-> Idle]

Respond(r) == request' = [request EXCEPT ![r] = Idle]

Proceed(r, pc) ==
  request' = [request EXCEPT ![r] = [pc |-> pc, rec |-> request[r].rec]]

-----------------------------------------------------------------------------
(* POST /telemetry/recommendations/:id/approve                              *)

\* Slip: the error of the SELECT, no such row, is not looked at.
ReadMissingRow(r, c, role) ==
  /\ request[r].pc = "idle"
  /\ IsAuthorized(role, "approve_plan")
  /\ \E row \in {c, NoRec} :
       request' = [request EXCEPT ![r] = [pc |-> "read", rec |-> row]]
  /\ UNCHANGED <<status, runs, tried>>

\* The row is read and is pending; otherwise the approval is refused.
ReadPending(r, c, role) ==
  /\ request[r].pc = "idle"
  /\ IsAuthorized(role, "approve_plan")
  /\ status[c] = "pending_approval"
  /\ request' = [request EXCEPT ![r] = [pc |-> "read", rec |-> c]]
  /\ UNCHANGED <<status, runs, tried>>

\* Without DDL there is nothing to verify or to run.
SkipEmpty(r) ==
  /\ request[r].pc = "read"
  /\ request[r].rec \in NoDDL
  /\ Proceed(r, "executed")
  /\ UNCHANGED <<status, runs, tried>>

\* VerifySafety answers, and CRITICAL ends the approval.
VerifySafety(r) ==
  /\ request[r].pc = "read"
  /\ request[r].rec \notin NoDDL
  /\ IF request[r].rec \in Critical THEN Respond(r) ELSE Proceed(r, "cleared")
  /\ UNCHANGED <<status, runs, tried>>

\* VerifySafety returns an error: the approval goes on without an answer.
VerifyFails(r) ==
  /\ request[r].pc = "read"
  /\ request[r].rec \notin NoDDL
  /\ Proceed(r, "cleared")
  /\ UNCHANGED <<status, runs, tried>>

RunDDL(r) ==
  /\ request[r].pc = "cleared"
  /\ runs[request[r].rec] < MaxRuns
  /\ runs' = [runs EXCEPT ![request[r].rec] = @ + 1]
  /\ tried' = tried \cup {request[r].rec}
  /\ Proceed(r, "executed")
  /\ UNCHANGED status

\* Slip: every error of the DDL is tolerated.
AnyErrorTolerated(r) ==
  /\ request[r].pc = "cleared"
  /\ Proceed(r, "executed")
  /\ UNCHANGED <<status, runs, tried>>

\* A table or other object the DDL names does not exist, which is tolerated.
TableMissing(r) ==
  /\ request[r].pc = "cleared"
  /\ tried' = tried \cup {request[r].rec}
  /\ Proceed(r, "executed")
  /\ UNCHANGED <<status, runs>>

\* A statement fails (a DDL for another reason than a missing table, or the
\* UPDATE), or the client is gone: the approval ends where it is.
ApproveFails(r) ==
  /\ request[r].pc # "idle"
  /\ Respond(r)
  /\ UNCHANGED <<status, runs, tried>>

\* The UPDATE matches the row by its id, whatever its status is now.
MarkApplied(r) ==
  /\ request[r].pc = "executed"
  /\ status' = [status EXCEPT ![request[r].rec] = "applied"]
  /\ Respond(r)
  /\ UNCHANGED <<runs, tried>>

-----------------------------------------------------------------------------
(* POST /telemetry/recommendations/:id/reject                               *)

\* Slip: the UPDATE has no AND status = 'pending_approval'.
RejectAnyStatus(c, role) ==
  /\ IsAuthorized(role, "approve_plan")
  /\ status' = [status EXCEPT ![c] = "rejected"]
  /\ UNCHANGED <<runs, tried, request>>

\* The UPDATE matches a pending row only; the answer does not depend on it.
Reject(c, role) ==
  /\ IsAuthorized(role, "approve_plan")
  /\ status' = [status EXCEPT ![c] =
                  IF @ = "pending_approval" THEN "rejected" ELSE @]
  /\ UNCHANGED <<runs, tried, request>>

Next ==
  \/ \E r \in Requests, c \in Recs, role \in Roles \cup {NoRole} :
       ReadPending(r, c, role)
  \/ \E r \in Requests : SkipEmpty(r)
  \/ \E r \in Requests : VerifySafety(r)
  \/ \E r \in Requests : VerifyFails(r)
  \/ \E r \in Requests : RunDDL(r)
  \/ \E r \in Requests : TableMissing(r)
  \/ \E r \in Requests : ApproveFails(r)
  \/ \E r \in Requests : MarkApplied(r)
  \/ \E c \in Recs, role \in Roles \cup {NoRole} : Reject(c, role)

Spec == Init /\ [][Next]_vars

-----------------------------------------------------------------------------
(* Properties.                                                              *)

\* Rows and requests have their types; an approval in progress has its row.
TypeOK ==
  /\ status \in [Recs -> Statuses]
  /\ runs \in [Recs -> Nat]
  /\ tried \subseteq Recs
  /\ request \in [Requests -> RequestRows]
  /\ \A r \in Requests : request[r].pc # "idle" => request[r].rec \in Recs

\* A recommendation is marked applied only after its DDL ran, met a missing
\* table or was found empty, whatever other approvals and rejections did since.
AppliedWasTried ==
  \A c \in Recs : status[c] = "applied" => c \in tried \cup NoDDL

\* What AppliedWasTried needs of an approval in progress.
ExecutedWasTried ==
  \A r \in Requests :
    request[r].pc = "executed" => request[r].rec \in tried \cup NoDDL

\* No approval in progress has read the row while it was pending.
Released(c) == \A r \in Requests : request[r].rec # c

\* The approvals in progress that may still run the DDL.
Acting(c) == {r \in Requests :
                request[r].rec = c /\ request[r].pc \in {"read", "cleared"}}

\* A decision: the DDL runs again at most once for every approval that had read
\* the row before, and when none is left a step leaves the status and the effects
\* of the DDL alone, and no approval takes it up.
DecisionsKept ==
  \A c \in Recs :
    status[c] # "pending_approval" =>
      /\ runs'[c] + Cardinality(Acting(c)') <= runs[c] + Cardinality(Acting(c))
      /\ Released(c) =>
           /\ status'[c] = status[c]
           /\ runs'[c] = runs[c]
           /\ Released(c)'

\* Once a recommendation is applied or rejected, each approval that had read it
\* before runs its DDL once at most, and when they are over its DDL never runs and
\* its status never changes.
DecisionsAreFinal == [][DecisionsKept]_vars

-----------------------------------------------------------------------------
(* What a message says and the code does not do.                            *)

\* "Successfully rejected recommendation" (handler/telemetry.go:196): a
\* rejected recommendation is not marked applied by an approval under way.
RejectedStaysRejected ==
  [][\A c \in Recs : status[c] = "rejected" => status'[c] = "rejected"]_vars
=============================================================================
