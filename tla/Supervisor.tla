----------------------------- MODULE Supervisor -----------------------------
(***************************************************************************)
(* What the supervisor makes of a worker's status.json once the worker is  *)
(* no longer alive (internal/supervisor/supervisor.go).  A status has the  *)
(* phase of the worker and the state it gave itself; Interrupt writes a    *)
(* status that has no state.                                               *)
(***************************************************************************)

NoStatus == [phase |-> "", state |-> ""]

Terminal == {"completed", "failed", "interrupted"}

\* stateForPhase (internal/worker), and Observe's reading of a bare phase.
StateForPhase(phase) ==
    CASE phase \in {"completed", "interrupted"} -> phase
      [] phase \in {"timeout", "idle_timeout", "provider_error"} -> "failed"
      [] phase = "" -> "starting"
      [] OTHER -> "progressing"

\* The worker's own status, and Interrupt's.
WorkerStatus(phase) == [phase |-> phase, state |-> StateForPhase(phase)]
BareStatus(phase) == [phase |-> phase, state |-> ""]

\* Observe, for a worker that is not alive: its last word, if it was one.
Named(s) == IF s.state # "" THEN s.state ELSE StateForPhase(s.phase)
Observe(s) == IF Named(s) \in Terminal THEN Named(s) ELSE "failed"
=============================================================================
