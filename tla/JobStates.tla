------------------------------ MODULE JobStates ------------------------------
(****************************************************************************)
(* The vocabulary both databases share: the states of a job in the core     *)
(* database (models.py), the states of its row in the queue database        *)
(* (backends/base.py), the transitions Database.update_job accepts, and the *)
(* one point where a backend state becomes a job state.                     *)
(****************************************************************************)

\* Exit codes, abstracted to what the code tells apart: zero, anything else,
\* and "never recorded" (SQL NULL).
ExitCodes == {"zero", "nonzero"}
NoCode    == "none"

TERMINAL_STATES == {"SUCCEEDED", "FAILED", "CANCELLED", "LOST"}
ACTIVE_STATES   == {"PREPARING", "QUEUED", "RUNNING"}
JobState        == ACTIVE_STATES \cup TERMINAL_STATES

\* Rows of the queue database.  A row that does not exist (not enqueued yet, or
\* trimmed) is what LocalDispatcherBackend.get_job reports as MISSING.
BackendState    == {"MISSING", "QUEUED", "RUNNING", "FINISHED", "REMOVED"}
BackendActive   == {"QUEUED", "RUNNING"}

\* ALLOWED_TRANSITIONS: forward only, except that a displaced job goes back
\* from RUNNING to QUEUED.
ALLOWED_TRANSITIONS ==
  [s \in JobState |->
     CASE s = "PREPARING" -> {"QUEUED", "FAILED", "CANCELLED", "LOST"}
       [] s = "QUEUED"    -> {"RUNNING"} \cup TERMINAL_STATES
       [] s = "RUNNING"   -> {"QUEUED"} \cup TERMINAL_STATES
       [] OTHER           -> {}]

\* Mutants: a job whose submission was never recorded may run; a queued job may
\* not fail.
can_transition_unrecorded(current, target) ==
  target \in {current} \cup ALLOWED_TRANSITIONS[current]
                     \cup (IF current = "PREPARING" THEN {"RUNNING"} ELSE {})
can_transition_no_early_failure(current, target) ==
  /\ target \in {current} \cup ALLOWED_TRANSITIONS[current]
  /\ <<current, target>> # <<"QUEUED", "FAILED">>

can_transition(current, target) ==
  \/ current = target
  \/ target \in ALLOWED_TRANSITIONS[current]

\* Database.try_update_state: the state after an attempted write, inside the
\* transaction that validates it; an illegal write changes nothing.
TryUpdate(current, target) ==
  IF can_transition(current, target) THEN target ELSE current

\* Mutant: an exit code nobody saw counts as success.
map_backend_state_optimistic(bstate, code) ==
  CASE bstate = "QUEUED"   -> "QUEUED"
    [] bstate = "RUNNING"  -> "RUNNING"
    [] bstate = "REMOVED"  -> "CANCELLED"
    [] bstate = "FINISHED" -> IF code = "nonzero" THEN "FAILED" ELSE "SUCCEEDED"
    [] bstate = "MISSING"  -> "LOST"

\* map_backend_state: a finished row without an exit code is a failure.
map_backend_state(bstate, code) ==
  CASE bstate = "QUEUED"   -> "QUEUED"
    [] bstate = "RUNNING"  -> "RUNNING"
    [] bstate = "REMOVED"  -> "CANCELLED"
    [] bstate = "FINISHED" -> IF code = "zero" THEN "SUCCEEDED" ELSE "FAILED"
    [] bstate = "MISSING"  -> "LOST"
=============================================================================
