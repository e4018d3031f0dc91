------------------------------ MODULE JobBackend -----------------------------
(****************************************************************************)
(* What a SchedulerBackend promises its callers about a job, whatever the   *)
(* backend is made of: the states a caller can read, and whether a process  *)
(* works on the job.  Nothing here knows of databases, pids, daemons or     *)
(* crashes.  Lifecycle is shown to implement it.                            *)
(*                                                                          *)
(* Several jobs may move in one step: a step says of each job what it may   *)
(* do, which is nothing, or one of the operations below.                    *)
(****************************************************************************)
EXTENDS JobStates, Naturals

CONSTANT Jobs

VARIABLES
  status,  \* what get_state answers
  worker,  \* does a process work on the job?
  runs     \* how often one was started

Init ==
  /\ status = [j \in Jobs |-> "MISSING"]
  /\ worker = [j \in Jobs |-> FALSE]
  /\ runs = [j \in Jobs |-> 0]

Goes(j, from, to) == status[j] = from /\ status'[j] = to

\* A process ends when it likes; a new one appears only in Begin.
NoNewWorker(j) == (worker'[j] => worker[j]) /\ runs'[j] = runs[j]

Submit(j) == Goes(j, "MISSING", "QUEUED") /\ NoNewWorker(j)

\* Cancelled while it waits: no process of it is left, and none will come.
remove_queued(j) == Goes(j, "QUEUED", "REMOVED") /\ ~worker[j] /\ NoNewWorker(j)

Claim(j) == Goes(j, "QUEUED", "RUNNING") /\ ~worker[j] /\ NoNewWorker(j)

\* A process starts only for a job that is running and has none.
Begin(j) ==
  /\ Goes(j, "RUNNING", "RUNNING")
  /\ ~worker[j] /\ worker'[j]
  /\ runs'[j] = runs[j] + 1

\* A displaced job waits again only once its process is gone.
Return(j) == Goes(j, "RUNNING", "QUEUED") /\ ~worker[j] /\ NoNewWorker(j)

\* A job ends when its process did, or when the backend lost sight of it: a
\* process it cannot name may then go on, but is never followed by another.
End(j) == Goes(j, "RUNNING", "FINISHED") /\ NoNewWorker(j)

Stay(j) == status'[j] = status[j] /\ NoNewWorker(j)

Move(j) == \/ Submit(j) \/ remove_queued(j) \/ Claim(j) \/ Begin(j)
           \/ Return(j) \/ End(j) \/ Stay(j)

Next ==
  /\ status' \in [Jobs -> BackendState]
  /\ worker' \in [Jobs -> BOOLEAN]
  /\ runs'   \in [Jobs -> Nat]
  /\ \A j \in Jobs : Move(j)

Spec == Init /\ [][Next]_<<status, worker, runs>>
=============================================================================
