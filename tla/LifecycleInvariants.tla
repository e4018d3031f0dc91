------------------------- MODULE LifecycleInvariants -------------------------
(****************************************************************************)
(* The inductive invariants behind the theorems of Lifecycle.  Each part    *)
(* says what one database, or one dispatcher's memory, may take for granted *)
(* about the processes.                                                     *)
(****************************************************************************)
EXTENDS Lifecycle

\* Attempts are used in order: exactly those not started yet are absent, and
\* only the last one started may be alive.
AttemptsInOrder ==
  \A j \in Jobs, a \in Attempts :
    /\ a > starts[j] <=> proc[j][a].ph = "absent"
    /\ Alive(j, a) => a = starts[j]

\* A job that waits, was removed or was never enqueued has no process.
WaitingIsIdle ==
  \A j \in Jobs : row[j].state \in {"MISSING", "QUEUED", "REMOVED"}
                    => \A a \in Attempts : ~Alive(j, a)

\* A row that holds a pid is running, and it is the pid of the last attempt.
PidIsCurrent ==
  \A j \in Jobs : row[j].pid # 0 => row[j].state = "RUNNING" /\ row[j].pid = starts[j]

\* A submission that has not reached the queue has no row.
NotYetEnqueued ==
  \A j \in Jobs : submit[j] \in {"idle", "inserted"} => row[j].state = "MISSING"

\* The job being started is claimed, has no pid, is not held, and has no
\* process until it is spawned.
StartingIsClaimed ==
  /\ starting # {} => phase \in {"claimed", "spawned"}
  /\ \A j \in starting :
       /\ row[j].state = "RUNNING" /\ row[j].pid = 0
       /\ running[j] = 0 /\ adopted[j] = 0
       /\ phase = "claimed" => \A a \in Attempts : ~Alive(j, a)

\* What the dispatcher holds by handle is what the queue says is running; what
\* it adopted may have been finished behind its back, by a cancellation.
HeldIsRunning ==
  \A j \in Jobs :
    /\ running[j] # 0 => /\ row[j].state = "RUNNING" /\ row[j].pid = running[j]
                         /\ adopted[j] = 0
    /\ adopted[j] # 0 => \/ row[j].state = "FINISHED"
                         \/ row[j].state = "RUNNING" /\ row[j].pid = adopted[j]

\* A dispatcher that is not up, or still recovering, holds no handle; the rows
\* it has still to recover are running and not adopted.
RecoveryIsClean ==
  /\ phase \in {"down", "recover"} => \A j \in Jobs : running[j] = 0
  /\ phase = "down" => \A j \in Jobs : adopted[j] = 0
  /\ phase = "recover" => \A j \in todo : row[j].state = "RUNNING" /\ adopted[j] = 0

\* A recorded live process is held, or its row is still to be recovered.
LiveIsHeldOrTodo ==
  phase # "down" =>
    \A j \in Jobs : row[j].pid # 0 /\ Alive(j, row[j].pid)
      => \/ running[j] = row[j].pid \/ adopted[j] = row[j].pid
         \/ phase = "recover" /\ j \in todo

\* The processes, the queue and the dispatcher's memory agree.  This is the
\* inductive invariant from which OneRunner, RemovedNeverRuns, LiveIsOwned,
\* EndedRowStaysEnded and HeldDisplacedReturns follow.
QueueInv ==
  /\ AttemptsInOrder
  /\ WaitingIsIdle
  /\ PidIsCurrent
  /\ NotYetEnqueued
  /\ StartingIsClaimed
  /\ HeldIsRunning
  /\ RecoveryIsClean
  /\ LiveIsHeldOrTodo

\* Whoever may let a job run, or queue it again, knows that its submission was
\* recorded: this keeps an unrecorded job from executing.
Looking == {"look", "remove", "relook", "request", "wait", "finished"}
Attached(j) ==
  /\ submit[j] # "idle" => state[j] # "NONE"
  /\ state[j] \in {"QUEUED", "RUNNING"} => backendId[j]
  /\ rec[j].attached \/ rec[j].pc = "got" => backendId[j]
  /\ cancel[j] \in Looking => backendId[j]
  /\ \A a \in Attempts : proc[j][a].ph \in {"exec", "ended"} => backendId[j]
AttachedInv == \A j \in Jobs : Attached(j)

\* Whoever is about to record SUCCEEDED has the exit code of a process that
\* ended, on a row no process will be started for again.
Exited0(j) == \E a \in Attempts : proc[j][a].ph = "exited" /\ proc[j][a].code = "zero"
Idle(j)    == \A a \in Attempts : ~Alive(j, a)
Succeeds(j) ==
  /\ state[j] = "SUCCEEDED" => Exited0(j) /\ ~Executing(j)
  /\ row[j].state = "FINISHED" /\ row[j].code = "zero" => Exited0(j) /\ Idle(j)
  /\ rec[j].pc = "got" /\ rec[j].target = "SUCCEEDED"
       => row[j].state = "FINISHED" /\ Exited0(j) /\ Idle(j)
SuccessInv == \A j \in Jobs : Succeeds(j)

----------------------------------------------------------------------------
(* What a caller of the backend sees of all this.                           *)

HasWorker(j) == \E a \in Attempts : Alive(j, a)

JB == INSTANCE JobBackend WITH
        status <- [j \in Jobs |-> row[j].state],
        worker <- [j \in Jobs |-> HasWorker(j)],
        runs   <- starts

\* The local dispatcher, with the runners, the command lines, the crashes and
\* the faults, implements the backend callers are written against
\* (backends/base.py): a job has one process at most, none while it waits, and
\* a job that ended or was removed gets no further one.
ImplementsBackend == JB!Spec
=============================================================================
