------------------------ MODULE RecommendationsProofs ------------------------
(***************************************************************************)
(* Proofs about Recommendations, for any number of recommendations and of  *)
(* approvals in progress.                                                  *)
(***************************************************************************)
EXTENDS Recommendations, FiniteSetTheorems, TLAPS

\* The inductive invariant: what the rows say about DDL that was sent, and what
\* an approval must have done before it may say so.
Decided == TypeOK /\ AppliedWasTried /\ ExecutedWasTried

LEMMA DecidedInit == Init => Decided
  BY DEF Init, Decided, TypeOK, AppliedWasTried, ExecutedWasTried, Statuses,
         RequestRows, Idle

\* What the steps of an approval do to its slot: it becomes idle, or it keeps
\* its recommendation.
LEMMA SlotTypes ==
  ASSUME TypeOK, NEW r \in Requests,
         NEW q \in RequestRows, q.pc # "idle" => q.rec \in Recs,
         request' = [request EXCEPT ![r] = q]
  PROVE  /\ request' \in [Requests -> RequestRows]
         /\ \A s \in Requests : request'[s].pc # "idle" => request'[s].rec \in Recs
         /\ request'[r] = q
         /\ \A s \in Requests \ {r} : request'[s] = request[s]
  BY DEF TypeOK

LEMMA DecidedStep == Decided /\ [Next]_vars => Decided'
<1> SUFFICES ASSUME Decided, [Next]_vars PROVE Decided'
  OBVIOUS
<1> USE DEF Decided, RequestRows, Idle, Statuses, Respond, Proceed
<1>1. ASSUME NEW r \in Requests, NEW c \in Recs, NEW role \in Roles \cup {NoRole},
             ReadPending(r, c, role)
      PROVE  Decided'
  <2> DEFINE q == [pc |-> "read", rec |-> c]
  <2>1. q \in RequestRows /\ q.rec \in Recs
    OBVIOUS
  <2>2. request' = [request EXCEPT ![r] = q]
    BY <1>1 DEF ReadPending
  <2> HIDE DEF q
  <2>3. TypeOK'
    BY <1>1, <2>1, <2>2, SlotTypes DEF TypeOK, ReadPending
  <2>4. request'[r].pc = "read"
    BY <2>2 DEF q, TypeOK
  <2>5. AppliedWasTried' /\ ExecutedWasTried'
    BY <1>1, <2>1, <2>2, <2>4, SlotTypes
       DEF ReadPending, AppliedWasTried, ExecutedWasTried
  <2> QED
    BY <2>3, <2>5
<1>2. ASSUME NEW r \in Requests, SkipEmpty(r)
      PROVE  Decided'
  <2>1. TypeOK'
    BY <1>2 DEF TypeOK, SkipEmpty
  <2>2. ExecutedWasTried'
    BY <1>2 DEF TypeOK, SkipEmpty, ExecutedWasTried
  <2> QED
    BY <1>2, <2>1, <2>2 DEF SkipEmpty, AppliedWasTried
<1>3. ASSUME NEW r \in Requests, VerifySafety(r) \/ VerifyFails(r)
      PROVE  Decided'
  <2>1. TypeOK'
    BY <1>3 DEF TypeOK, VerifySafety, VerifyFails
  <2>2. ExecutedWasTried'
    BY <1>3 DEF TypeOK, VerifySafety, VerifyFails, ExecutedWasTried
  <2> QED
    BY <1>3, <2>1, <2>2 DEF VerifySafety, VerifyFails, AppliedWasTried
<1>4. ASSUME NEW r \in Requests, RunDDL(r) \/ TableMissing(r)
      PROVE  Decided'
  <2> DEFINE q == [pc |-> "executed", rec |-> request[r].rec]
  <2>1. request[r].rec \in Recs
    BY <1>4 DEF TypeOK, RunDDL, TableMissing
  <2>2. q \in RequestRows /\ q.rec \in Recs
    BY <2>1
  <2>3. request' = [request EXCEPT ![r] = q]
    BY <1>4 DEF RunDDL, TableMissing
  <2>4. runs' \in [Recs -> Nat] /\ tried' \subseteq Recs /\ status' = status
    BY <1>4, <2>1 DEF TypeOK, RunDDL, TableMissing
  <2> HIDE DEF q
  <2>5. TypeOK'
    BY <2>2, <2>3, <2>4, SlotTypes DEF TypeOK
  <2>6. ExecutedWasTried'
    BY <1>4 DEF TypeOK, RunDDL, TableMissing, ExecutedWasTried
  <2> QED
    BY <1>4, <2>5, <2>6 DEF RunDDL, TableMissing, AppliedWasTried
<1>5. ASSUME NEW r \in Requests, ApproveFails(r)
      PROVE  Decided'
  <2>1. TypeOK'
    BY <1>5 DEF TypeOK, ApproveFails
  <2>2. ExecutedWasTried'
    BY <1>5 DEF TypeOK, ApproveFails, ExecutedWasTried
  <2> QED
    BY <1>5, <2>1, <2>2 DEF ApproveFails, AppliedWasTried
<1>6. ASSUME NEW r \in Requests, MarkApplied(r)
      PROVE  Decided'
  <2>1. TypeOK'
    BY <1>6 DEF TypeOK, MarkApplied
  <2>2. ExecutedWasTried'
    BY <1>6 DEF TypeOK, MarkApplied, ExecutedWasTried
  <2>3. AppliedWasTried'
    BY <1>6 DEF TypeOK, MarkApplied, AppliedWasTried, ExecutedWasTried
  <2> QED
    BY <2>1, <2>2, <2>3
<1>7. ASSUME NEW c \in Recs, NEW role \in Roles \cup {NoRole}, Reject(c, role)
      PROVE  Decided'
  <2>1. TypeOK'
    BY <1>7 DEF TypeOK, Reject
  <2>2. AppliedWasTried'
    BY <1>7 DEF TypeOK, Reject, AppliedWasTried
  <2> QED
    BY <1>7, <2>1, <2>2 DEF Reject, ExecutedWasTried
<1>8. CASE UNCHANGED vars
  BY <1>8 DEF vars, TypeOK, AppliedWasTried, ExecutedWasTried
<1> QED
  BY <1>1, <1>2, <1>3, <1>4, <1>5, <1>6, <1>7, <1>8 DEF Next

\* The inductive invariant holds in every reachable state.
THEOREM AlwaysDecided == Spec => []Decided
  BY DecidedInit, DecidedStep, PTL DEF Spec

\* TypeOK holds in every reachable state.
THEOREM TypeCorrect == Spec => []TypeOK
<1>1. Decided => TypeOK
  BY DEF Decided
<1> QED
  BY <1>1, AlwaysDecided, PTL

\* Nothing is marked applied before its DDL ran or met a missing table, however
\* many approvals and rejections of it overlap.
THEOREM AppliedAfterDDL == Spec => []AppliedWasTried
<1>1. Decided => AppliedWasTried
  BY DEF Decided
<1> QED
  BY <1>1, AlwaysDecided, PTL

LEMMA ReleasedStep ==
  ASSUME TypeOK, [Next]_vars, NEW c \in Recs,
         status[c] # "pending_approval", Released(c)
  PROVE  /\ status'[c] = status[c]
         /\ runs'[c] = runs[c]
         /\ Released(c)'
<1> USE DEF TypeOK, Released, Respond, Proceed, Idle
<1>0. c # NoRec
  BY RecommendationsAssumption
<1>1. CASE \E r \in Requests, d \in Recs, role \in Roles \cup {NoRole} :
             ReadPending(r, d, role)
  BY <1>1 DEF ReadPending
<1>2. CASE \E r \in Requests : SkipEmpty(r)
  BY <1>2 DEF SkipEmpty
<1>3. CASE \E r \in Requests : VerifySafety(r) \/ VerifyFails(r)
  BY <1>0, <1>3 DEF VerifySafety, VerifyFails
<1>4. CASE \E r \in Requests : RunDDL(r) \/ TableMissing(r)
  BY <1>4 DEF RunDDL, TableMissing
<1>5. CASE \E r \in Requests : ApproveFails(r)
  BY <1>0, <1>5 DEF ApproveFails
<1>6. CASE \E r \in Requests : MarkApplied(r)
  BY <1>0, <1>6 DEF MarkApplied
<1>7. CASE \E d \in Recs, role \in Roles \cup {NoRole} : Reject(d, role)
  BY <1>7 DEF Reject
<1>8. CASE UNCHANGED vars
  BY <1>8 DEF vars
<1> QED
  BY <1>1, <1>2, <1>3, <1>4, <1>5, <1>6, <1>7, <1>8 DEF Next

\* No step opens a decided recommendation to another approval.
LEMMA ActingShrinks ==
  ASSUME TypeOK, [Next]_vars, NEW c \in Recs, status[c] # "pending_approval"
  PROVE  Acting(c)' \subseteq Acting(c)
<1> SUFFICES ASSUME NEW s \in Requests, request'[s].rec = c,
                    request'[s].pc \in {"read", "cleared"}
             PROVE  request[s].rec = c /\ request[s].pc \in {"read", "cleared"}
  BY DEF Acting
<1> USE DEF TypeOK, RequestRows, Respond, Proceed, Idle
<1>1. CASE \E r \in Requests, d \in Recs, role \in Roles \cup {NoRole} :
             ReadPending(r, d, role)
  BY <1>1 DEF ReadPending
<1>2. CASE \E r \in Requests : SkipEmpty(r)
  BY <1>2 DEF SkipEmpty
<1>3. CASE \E r \in Requests : VerifySafety(r) \/ VerifyFails(r)
  BY <1>3 DEF VerifySafety, VerifyFails
<1>4. CASE \E r \in Requests : RunDDL(r) \/ TableMissing(r)
  BY <1>4 DEF RunDDL, TableMissing
<1>5. CASE \E r \in Requests : ApproveFails(r) \/ MarkApplied(r)
  BY <1>5 DEF ApproveFails, MarkApplied
<1>6. CASE request' = request
  BY <1>6
<1> QED
  BY <1>1, <1>2, <1>3, <1>4, <1>5, <1>6 DEF Next, Reject, vars

\* An approval that runs the DDL cannot run it again.
LEMMA RunCounts ==
  ASSUME TypeOK, NEW r \in Requests, RunDDL(r), NEW c, request[r].rec = c
  PROVE  /\ r \in Acting(c)
         /\ r \notin Acting(c)'
         /\ runs'[c] = runs[c] + 1
         /\ \A d \in Recs \ {c} : runs'[d] = runs[d]
<1>1. request[r].rec \in Recs
  BY DEF TypeOK, RunDDL
<1> QED
  BY <1>1 DEF TypeOK, RunDDL, Acting, Proceed

LEMMA RunsCounted ==
  ASSUME TypeOK, [Next]_vars, NEW c \in Recs, status[c] # "pending_approval"
  PROVE  runs'[c] + Cardinality(Acting(c)') <= runs[c] + Cardinality(Acting(c))
<1> DEFINE A == Acting(c)
           B == Acting(c)'
<1>1. IsFiniteSet(A) /\ B \subseteq A
  <2>1. A \subseteq Requests
    BY DEF Acting
  <2> QED
    BY <2>1, ActingShrinks, FS_Subset, RecommendationsAssumption
<1>2. runs[c] \in Nat
  BY DEF TypeOK
<1>3. ASSUME NEW r \in Requests, RunDDL(r), request[r].rec = c
      PROVE  r \in A /\ r \notin B /\ runs'[c] = runs[c] + 1
  BY <1>3, RunCounts
<1>4. \/ runs'[c] = runs[c]
      \/ \E r \in Requests : RunDDL(r) /\ request[r].rec = c
  <2>1. ASSUME NEW r \in Requests, RunDDL(r), request[r].rec # c
        PROVE  runs'[c] = runs[c]
    BY <2>1, RunCounts
  <2> QED
    BY <2>1 DEF Next, vars, ReadPending, SkipEmpty, VerifySafety, VerifyFails,
                TableMissing, ApproveFails, MarkApplied, Reject
<1> HIDE DEF A, B
<1>5. Cardinality(A) \in Nat /\ Cardinality(B) \in Nat /\ Cardinality(B) <= Cardinality(A)
  BY <1>1, FS_Subset, FS_CardinalityType
<1>6. ASSUME NEW r, r \in A, r \notin B
      PROVE  Cardinality(B) + 1 <= Cardinality(A)
  <2>1. /\ IsFiniteSet(A \ {r})
        /\ Cardinality(A \ {r}) = Cardinality(A) - 1
        /\ B \subseteq A \ {r}
    BY <1>1, <1>6, FS_RemoveElement
  <2>2. Cardinality(B) <= Cardinality(A \ {r})
    BY <2>1, FS_Subset
  <2> QED
    BY <1>5, <2>1, <2>2
<1>7. runs'[c] + Cardinality(B) <= runs[c] + Cardinality(A)
  <2>1. CASE runs'[c] = runs[c]
    BY <1>2, <1>5, <2>1
  <2>2. CASE \E r \in Requests : RunDDL(r) /\ request[r].rec = c
    BY <1>2, <1>3, <1>5, <1>6, <2>2
  <2> QED
    BY <1>4, <2>1, <2>2
<1> QED
  BY <1>7 DEF A, B

LEMMA DecisionStep == TypeOK /\ [Next]_vars => DecisionsKept
  BY ReleasedStep, RunsCounted DEF DecisionsKept

\* A decision is final but for the approvals that overlooked it, of which each runs
\* the DDL once at most: then its status stays and its DDL does not run again.
THEOREM FinalDecisions == Spec => DecisionsAreFinal
<1>1. TypeOK /\ [Next]_vars => [DecisionsKept]_vars
  BY DecisionStep
<1> QED
  BY <1>1, TypeCorrect, PTL DEF Spec, DecisionsAreFinal
=============================================================================
