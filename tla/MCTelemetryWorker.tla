-------------------------- MODULE MCTelemetryWorker --------------------------
(* Instances of TelemetryWorker for TLC. *)
EXTENDS TelemetryWorker, TLC

CONSTANTS run, acme, quick

Event(id, tenant, metrics, decodes) ==
  [id |-> id, tenant |-> tenant, metrics |-> metrics, decodes |-> decodes]

\* Two events without an id, of which one has no tenant either and a null
\* object, and one that does not decode although its fields are all there.
MCMessages == {Event(Absent, acme, quick, TRUE),
               Event(Absent, Absent, Null, TRUE),
               Event(run, acme, quick, FALSE)}

Symmetry == Permutations(Workers) \cup Permutations(Events)
=============================================================================
