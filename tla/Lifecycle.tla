------------------------------ MODULE Lifecycle ------------------------------
(****************************************************************************)
(* The life of a job that runs on this machine, across the four programs    *)
(* that share it:                                                           *)
(*   - the submitting CLI (GPUQService.submit),                             *)
(*   - the dispatcher daemon (backends/dispatcher.py), which may die at any *)
(*     instant and be restarted,                                            *)
(*   - the runner, one process per start (`workerq _run`, runner.py),       *)
(*   - the cancelling CLI (GPUQService.cancel) and the reconciling CLI      *)
(*     (GPUQService.reconcile, run by every status read).                   *)
(* They communicate only through two SQLite databases: every action below   *)
(* is at most one transaction on each, so what an actor read in an earlier  *)
(* step may be stale in the next.                                           *)
(*                                                                          *)
(* Abstracted: what the admission check decides (any queued job may be      *)
(* admitted or passed over, Scheduler models it), the order of the queue,   *)
(* time (a grace period or a timeout may end at any moment), the snapshot.  *)
(* Remote placement is out of scope here: every row has node = NULL.        *)
(****************************************************************************)
EXTENDS JobStates, Naturals, FiniteSets

CONSTANTS
  Jobs,         \* the jobs that may be submitted
  Preemptible,  \* those submitted with --preemptible
  Observed,     \* those somebody runs `status` or `reconcile` on
  Cancelled,    \* those somebody runs `cancel` on
  Slots,        \* META_SLOTS: local jobs that may run at once
  MaxStarts,    \* bound: processes started for one job
  MaxPreempts,  \* bound: times that running jobs are asked to make room
  MaxCrashes,   \* bound: deaths of the dispatcher or of a submitting CLI
  MaxFaults     \* bound: failed writes in a tick, runners killed from outside

ASSUME LifecycleAssumption ==
  /\ IsFiniteSet(Jobs)
  /\ Preemptible \subseteq Jobs /\ Observed \subseteq Jobs /\ Cancelled \subseteq Jobs
  /\ Slots \in Nat \ {0}
  /\ MaxStarts \in Nat
  /\ MaxPreempts \in Nat /\ MaxCrashes \in Nat /\ MaxFaults \in Nat

\* A process is identified by its pid and its creation time, which are never
\* both reused: its attempt number stands for the pair, 0 for "no pid".
Attempts == 1..MaxStarts

VARIABLES
  state,      \* core DB: jobs.state, or "NONE" before the row exists
  backendId,  \* core DB: jobs.backend_job_id has been recorded
  row,        \* queue DB: the bjobs row
  proc,       \* the runner processes
  starts,     \* processes started so far, per job
  phase,      \* where the dispatcher is in its tick; "down" when it is not up
  todo,       \* jobs the current phase has still to look at
  starting,   \* the job between claim_for_start and the record of its pid
  running,    \* Dispatcher.running: the attempt whose handle it holds, or 0
  adopted,    \* Dispatcher.adopted: the attempt it watches by pid, or 0
  submit,     \* where each job's submit call is
  cancel,     \* where each job's cancel call is
  rec,        \* where the CLI reconciling each job is
  used        \* how much of the bounds has been used

dbVars     == <<state, backendId>>
daemonVars == <<phase, todo, starting, running, adopted>>
procVars   == <<proc, starts>>
cliVars    == <<submit, cancel, rec>>
vars == <<state, backendId, row, proc, starts, phase, todo, starting, running,
          adopted, submit, cancel, rec, used>>

----------------------------------------------------------------------------
Row == [state : BackendState, code : ExitCodes \cup {NoCode},
        pid : 0..MaxStarts, cancel : BOOLEAN, preempt : BOOLEAN]

NoRow  == [state |-> "MISSING", code |-> NoCode, pid |-> 0,
           cancel |-> FALSE, preempt |-> FALSE]
NewRow == [NoRow EXCEPT !.state = "QUEUED"]

\* A runner: not started, before it took ownership of the job, its command is
\* executing, the command ended, the process is gone.
ProcPhase == {"absent", "boot", "exec", "ended", "exited"}
Proc == [ph : ProcPhase, code : ExitCodes, sawCancel : BOOLEAN, sawPreempt : BOOLEAN]
NoProc == [ph |-> "absent", code |-> "nonzero", sawCancel |-> FALSE, sawPreempt |-> FALSE]

Alive(j, a) == a \in Attempts /\ proc[j][a].ph \in {"boot", "exec", "ended"}
Executing(j) == \E a \in Attempts : proc[j][a].ph = "exec"

Bounds == {"crashes", "faults", "preempts"}
Limit(b) == CASE b = "crashes"  -> MaxCrashes
              [] b = "faults"   -> MaxFaults
              [] b = "preempts" -> MaxPreempts

Phases == {"down", "recover", "sample", "reap", "cancel", "backstop", "start",
           "claimed", "spawned"}
SubmitPc == {"idle", "inserted", "enqueued", "recorded", "done", "failed", "crashed"}
CancelPc == {"idle", "early", "look", "remove", "relook", "request", "wait",
             "finished", "mark", "done"}
Reconciler == [pc : {"idle", "listed", "got", "orphan"},
               seen : JobState, attached : BOOLEAN, target : JobState]
NoRec == [pc |-> "idle", seen |-> "PREPARING", attached |-> FALSE, target |-> "PREPARING"]

TypeOK ==
  /\ state \in [Jobs -> JobState \cup {"NONE"}]
  /\ backendId \in [Jobs -> BOOLEAN]
  /\ row \in [Jobs -> Row]
  /\ proc \in [Jobs -> [Attempts -> Proc]]
  /\ starts \in [Jobs -> 0..MaxStarts]
  /\ phase \in Phases
  /\ todo \in SUBSET Jobs
  /\ starting \in SUBSET Jobs
  /\ running \in [Jobs -> 0..MaxStarts]
  /\ adopted \in [Jobs -> 0..MaxStarts]
  /\ submit \in [Jobs -> SubmitPc]
  /\ cancel \in [Jobs -> CancelPc]
  /\ rec \in [Jobs -> Reconciler]
  /\ used \in [Bounds -> Nat] /\ \A b \in Bounds : used[b] <= Limit(b)

Init ==
  /\ state = [j \in Jobs |-> "NONE"]
  /\ backendId = [j \in Jobs |-> FALSE]
  /\ row = [j \in Jobs |-> NoRow]
  /\ proc = [j \in Jobs |-> [a \in Attempts |-> NoProc]]
  /\ starts = [j \in Jobs |-> 0]
  /\ phase = "down"
  /\ todo = {}
  /\ starting = {}
  /\ running = [j \in Jobs |-> 0]
  /\ adopted = [j \in Jobs |-> 0]
  /\ submit = [j \in Jobs |-> "idle"]
  /\ cancel = [j \in Jobs |-> "idle"]
  /\ rec = [j \in Jobs |-> NoRec]
  /\ used = [b \in Bounds |-> 0]

Spend(b) ==
  /\ used[b] < Limit(b)
  /\ used' = [used EXCEPT ![b] = @ + 1]

\* One write to jobs.state through Database.try_update_state.
WriteState(j, target) == state' = [state EXCEPT ![j] = TryUpdate(@, target)]

\* Database.update_job accepts the transition.
CanWrite(j, target) == can_transition(state[j], target)

----------------------------------------------------------------------------
(* QueueStore: the transactions on one row.                                *)

finish(j, code) ==
  row' = [row EXCEPT ![j] = [@ EXCEPT !.state = "FINISHED", !.code = code, !.pid = 0]]

\* requeue clears the displacement and the pid, and keeps the cancel flag.
requeue(j) ==
  row' = [row EXCEPT ![j] = [@ EXCEPT !.state = "QUEUED", !.pid = 0, !.preempt = FALSE]]

remove_queued(j) ==
  /\ row[j].state = "QUEUED"
  /\ row' = [row EXCEPT ![j].state = "REMOVED"]

\* The flag is set on each victim, in a transaction of its own: nothing the
\* others do in between reads two rows.
request_preempt(victims) ==
  /\ victims # {} /\ \A v \in victims : row[v].state = "RUNNING" /\ ~row[v].preempt
  /\ row' = [j \in Jobs |-> [row[j] EXCEPT !.preempt = @ \/ j \in victims]]
  /\ Spend("preempts")

----------------------------------------------------------------------------
(* GPUQService.submit.  Every step may be the last one: the CLI may die.    *)

SubmitInsert(j) ==
  /\ submit[j] = "idle"
  /\ submit' = [submit EXCEPT ![j] = "inserted"]
  /\ state' = [state EXCEPT ![j] = "PREPARING"]
  /\ UNCHANGED <<backendId, row, procVars, daemonVars, cancel, rec, used>>

\* The snapshot, the preflight check or the availability check raised.
SubmitPrepareFails(j) ==
  /\ submit[j] = "inserted"
  /\ submit' = [submit EXCEPT ![j] = "failed"]
  /\ WriteState(j, "FAILED")
  /\ UNCHANGED <<backendId, row, procVars, daemonVars, cancel, rec, used>>

SubmitEnqueue(j) ==
  /\ submit[j] = "inserted"
  /\ submit' = [submit EXCEPT ![j] = "enqueued"]
  /\ row' = [row EXCEPT ![j] = NewRow]
  /\ UNCHANGED <<dbVars, procVars, daemonVars, cancel, rec, used>>

\* update_job(backend_job_id, QUEUED): refused as a whole when the job became
\* terminal meanwhile, and the handler of that exception cannot write either.
SubmitRecord(j) ==
  /\ submit[j] = "enqueued"
  /\ \/ /\ CanWrite(j, "QUEUED")
        /\ state' = [state EXCEPT ![j] = "QUEUED"]
        /\ backendId' = [backendId EXCEPT ![j] = TRUE]
        /\ submit' = [submit EXCEPT ![j] = "recorded"]
     \/ /\ ~CanWrite(j, "QUEUED")
        /\ submit' = [submit EXCEPT ![j] = "failed"]
        /\ UNCHANGED dbVars
  /\ UNCHANGED <<row, procVars, daemonVars, cancel, rec, used>>

\* What follows the record (promotion, manifest) succeeds, or raises and the
\* job is marked FAILED although its row stays in the queue.
SubmitEnd(j) ==
  /\ submit[j] = "recorded"
  /\ \/ /\ submit' = [submit EXCEPT ![j] = "done"]
        /\ UNCHANGED <<state, used>>
     \/ /\ submit' = [submit EXCEPT ![j] = "failed"]
        /\ WriteState(j, "FAILED")
        /\ Spend("faults")
  /\ UNCHANGED <<backendId, row, procVars, daemonVars, cancel, rec>>

SubmitCrash(j) ==
  /\ submit[j] \in {"inserted", "enqueued"}
  /\ submit' = [submit EXCEPT ![j] = "crashed"]
  /\ Spend("crashes")
  /\ UNCHANGED <<dbVars, row, procVars, daemonVars, cancel, rec>>

----------------------------------------------------------------------------
(* The runner of attempt a of job j.                                        *)

Becomes(j, a, p) == proc' = [proc EXCEPT ![j][a] = p]

\* A job that is already terminal is refused, and success is repeated.
RunnerRefuse(j, a) ==
  /\ proc[j][a].ph = "boot"
  /\ state[j] \in TERMINAL_STATES
  /\ Becomes(j, a, [NoProc EXCEPT !.ph = "exited",
                      !.code = IF state[j] = "SUCCEEDED" THEN "zero" ELSE "nonzero"])
  /\ UNCHANGED <<dbVars, row, starts, daemonVars, cliVars, used>>

\* The command cannot be built, its directory is missing, or it does not start.
\* Here and below the check that the job is not terminal came in an earlier
\* step: a cancellation may have been recorded since.
RunnerFails(j, a) ==
  /\ proc[j][a].ph = "boot"
  /\ WriteState(j, "FAILED")
  /\ Becomes(j, a, [NoProc EXCEPT !.ph = "exited"])
  /\ UNCHANGED <<backendId, row, starts, daemonVars, cliVars, used>>

\* Mutant: the refused write is not looked at.
RunnerBegin_unchecked(j, a) ==
  /\ proc[j][a].ph = "boot"
  /\ WriteState(j, "RUNNING")
  /\ Becomes(j, a, [proc[j][a] EXCEPT !.ph = "exec"])
  /\ UNCHANGED <<backendId, row, starts, daemonVars, cliVars, used>>

\* Ownership: the command starts only once RUNNING has been accepted.
RunnerBegin(j, a) ==
  /\ proc[j][a].ph = "boot"
  /\ \/ /\ CanWrite(j, "RUNNING")
        /\ state' = [state EXCEPT ![j] = "RUNNING"]
        /\ Becomes(j, a, [proc[j][a] EXCEPT !.ph = "exec"])
     \/ /\ ~CanWrite(j, "RUNNING")
        /\ Becomes(j, a, [NoProc EXCEPT !.ph = "exited"])
        /\ UNCHANGED state
  /\ UNCHANGED <<backendId, row, starts, daemonVars, cliVars, used>>

\* _watch_cancel polls _stop_intent, where displacement hides a cancellation.
RunnerWatch(j, a) ==
  /\ proc[j][a].ph = "exec"
  /\ \/ /\ row[j].preempt
        /\ Becomes(j, a, [proc[j][a] EXCEPT !.sawPreempt = TRUE])
     \/ /\ row[j].cancel /\ ~row[j].preempt
        /\ Becomes(j, a, [proc[j][a] EXCEPT !.sawCancel = TRUE])
  /\ UNCHANGED <<dbVars, row, starts, daemonVars, cliVars, used>>

\* The command ends, by itself or because a watcher stopped it.
CommandEnds(j, a) ==
  /\ proc[j][a].ph = "exec"
  /\ \E code \in ExitCodes :
       Becomes(j, a, [proc[j][a] EXCEPT !.ph = "ended", !.code = code])
  /\ UNCHANGED <<dbVars, row, starts, daemonVars, cliVars, used>>

\* The state the runner persists: a terminal state found there is kept, a
\* displaced job goes back to QUEUED, a cancelled one is CANCELLED.
Outcome(j, p) ==
  CASE state[j] \in TERMINAL_STATES -> state[j]
    [] p.sawPreempt                 -> "QUEUED"
    [] p.sawCancel                  -> "CANCELLED"
    [] p.code = "zero"              -> "SUCCEEDED"
    [] OTHER                        -> "FAILED"

RunnerFinish(j, a) ==
  /\ proc[j][a].ph = "ended"
  /\ WriteState(j, Outcome(j, proc[j][a]))
  /\ Becomes(j, a, [proc[j][a] EXCEPT !.ph = "exited", !.sawCancel = FALSE])
  /\ UNCHANGED <<backendId, row, starts, daemonVars, cliVars, used>>

\* A process killed hard, by the dispatcher or from outside, persists nothing.
Kill(j, a) == Becomes(j, a, [NoProc EXCEPT !.ph = "exited"])

RunnerDies(j, a) ==
  /\ Alive(j, a)
  /\ Kill(j, a)
  /\ Spend("faults")
  /\ UNCHANGED <<dbVars, row, starts, daemonVars, cliVars>>

----------------------------------------------------------------------------
(* The dispatcher's life.  `running` and `adopted` are memory, lost when it *)
(* stops; the runners keep going.                                           *)

Down ==
  /\ phase' = "down" /\ todo' = {} /\ starting' = {}
  /\ running' = [j \in Jobs |-> 0]
  /\ adopted' = [j \in Jobs |-> 0]

DaemonCrash ==
  /\ phase # "down"
  /\ Down
  /\ Spend("crashes")
  /\ UNCHANGED <<dbVars, row, procVars, cliVars>>

\* `workerq shutdown`, honoured between two ticks.
DaemonStop ==
  /\ phase = "sample"
  /\ Down
  /\ Spend("crashes")
  /\ UNCHANGED <<dbVars, row, procVars, cliVars>>

DaemonStart ==
  /\ phase = "down"
  /\ phase' = "recover"
  /\ todo' = {j \in Jobs : row[j].state = "RUNNING"}
  /\ UNCHANGED <<dbVars, row, procVars, starting, running, adopted, cliVars, used>>

Visit(ph, j) ==
  /\ phase = ph /\ j \in todo
  /\ todo' = todo \ {j}

\* Mutants: a row whose process is gone, or has no pid yet, is put back in the
\* queue; live processes are left alone without being adopted.
Recover_requeues(j) ==
  /\ Visit("recover", j)
  /\ IF Alive(j, row[j].pid)
     THEN adopted' = [adopted EXCEPT ![j] = row[j].pid] /\ UNCHANGED row
     ELSE requeue(j) /\ UNCHANGED adopted
  /\ UNCHANGED <<dbVars, procVars, phase, starting, running, cliVars, used>>
Recover_forgets(j) ==
  /\ Visit("recover", j)
  /\ IF Alive(j, row[j].pid) THEN UNCHANGED row ELSE finish(j, NoCode)
  /\ UNCHANGED <<dbVars, procVars, phase, starting, running, adopted, cliVars, used>>

\* _recover_orphans: a live process is adopted, any other row is finished.
Recover(j) ==
  /\ Visit("recover", j)
  /\ IF Alive(j, row[j].pid)
     THEN /\ adopted' = [adopted EXCEPT ![j] = row[j].pid]
          /\ UNCHANGED row
     ELSE /\ finish(j, NoCode)
          /\ UNCHANGED adopted
  /\ UNCHANGED <<dbVars, procVars, phase, starting, running, cliVars, used>>

Ours(j) == running[j] # 0 \/ adopted[j] # 0

\* Mutant: only running jobs are looked at for a cancellation.
Agenda_running_only(ph) ==
  CASE ph = "reap"     -> {j \in Jobs : Ours(j)}
    [] ph = "cancel"   -> {j \in Jobs : row[j].cancel /\ row[j].state = "RUNNING"}
    [] ph = "backstop" -> {j \in Jobs : row[j].preempt /\ row[j].state = "RUNNING"}
    [] ph = "start"    -> {j \in Jobs : row[j].state = "QUEUED" /\ ~row[j].cancel}
    [] OTHER           -> {}

\* Jobs a pass over the queue still has to look at, read when it begins.
Agenda(ph) ==
  CASE ph = "reap"     -> {j \in Jobs : Ours(j)}
    [] ph = "cancel"   -> {j \in Jobs : row[j].cancel /\ row[j].state \in BackendActive}
    [] ph = "backstop" -> {j \in Jobs : row[j].preempt /\ row[j].state = "RUNNING"}
    [] ph = "start"    -> {j \in Jobs : row[j].state = "QUEUED" /\ ~row[j].cancel}
    [] OTHER           -> {}

Then(ph) == CASE ph = "recover" -> "sample" [] ph = "reap"     -> "cancel"
              [] ph = "cancel"  -> "backstop" [] ph = "backstop" -> "start"
              [] ph = "start"   -> "sample"

PassEnds ==
  /\ phase \in {"recover", "reap", "cancel", "backstop", "start"} /\ todo = {}
  /\ phase' = Then(phase)
  /\ todo' = Agenda(phase')
  /\ UNCHANGED <<dbVars, row, procVars, starting, running, adopted, cliVars, used>>

\* A tick begins by sampling the host; under memory pressure one preemptible
\* job that is ours is asked to stop.
TickBegins ==
  /\ phase = "sample"
  /\ phase' = "reap"
  /\ todo' = Agenda("reap")
  /\ \/ UNCHANGED <<row, used>>
     \/ \E v \in Preemptible : Ours(v) /\ request_preempt({v})
  /\ UNCHANGED <<dbVars, procVars, starting, running, adopted, cliVars>>

----------------------------------------------------------------------------
(* _reap and _reap_adopted.                                                 *)

PollAlive(j) ==
  /\ Visit("reap", j)
  /\ Alive(j, running[j]) \/ Alive(j, adopted[j])
  /\ UNCHANGED <<dbVars, row, procVars, phase, starting, running, adopted, cliVars, used>>

\* Mutant: a displaced job is finished like any other.
Reap_finishes(j) ==
  /\ Visit("reap", j)
  /\ running[j] # 0 /\ ~Alive(j, running[j])
  /\ running' = [running EXCEPT ![j] = 0]
  /\ finish(j, proc[j][running[j]].code)
  /\ UNCHANGED <<dbVars, procVars, phase, starting, adopted, cliVars, used>>

\* A displaced job returns to the queue, any other one is finished.
Reap(j) ==
  /\ Visit("reap", j)
  /\ running[j] # 0 /\ ~Alive(j, running[j])
  /\ running' = [running EXCEPT ![j] = 0]
  /\ IF row[j].preempt THEN requeue(j) ELSE finish(j, proc[j][running[j]].code)
  /\ UNCHANGED <<dbVars, procVars, phase, starting, adopted, cliVars, used>>

\* Mutant: an adopted job that was displaced is requeued, as in Reap.
ReapAdopted_requeues(j) ==
  /\ Visit("reap", j)
  /\ adopted[j] # 0 /\ ~Alive(j, adopted[j])
  /\ adopted' = [adopted EXCEPT ![j] = 0]
  /\ IF row[j].preempt THEN requeue(j) ELSE finish(j, NoCode)
  /\ UNCHANGED <<dbVars, procVars, phase, starting, running, cliVars, used>>

\* There is no handle, so no exit code, and nothing asks whether the job was
\* being displaced.
ReapAdopted(j) ==
  /\ Visit("reap", j)
  /\ adopted[j] # 0 /\ ~Alive(j, adopted[j])
  /\ adopted' = [adopted EXCEPT ![j] = 0]
  /\ finish(j, NoCode)
  /\ UNCHANGED <<dbVars, procVars, phase, starting, running, cliVars, used>>

\* The write fails: the job is already forgotten, the tick is abandoned.
ReapFault(j) ==
  /\ phase = "reap" /\ j \in todo
  /\ Ours(j) /\ ~Alive(j, running[j]) /\ ~Alive(j, adopted[j])
  /\ running' = [running EXCEPT ![j] = 0]
  /\ adopted' = [adopted EXCEPT ![j] = 0]
  /\ phase' = "sample" /\ todo' = {}
  /\ Spend("faults")
  /\ UNCHANGED <<dbVars, row, procVars, starting, cliVars>>

----------------------------------------------------------------------------
(* _service_cancellations and _service_preemptions.                         *)

CancelQueued(j) ==
  /\ Visit("cancel", j)
  /\ \/ remove_queued(j)
     \/ row[j].state \notin BackendActive /\ UNCHANGED row
  /\ UNCHANGED <<dbVars, procVars, phase, starting, running, adopted, cliVars, used>>

\* A job whose handle we hold: a polite signal (which a console-less process
\* never receives), patience until the grace period ends, or a kill.
CancelOwned(j) ==
  /\ Visit("cancel", j)
  /\ row[j].state = "RUNNING" /\ running[j] # 0
  /\ LET a == running[j] IN
       \/ UNCHANGED proc
       \/ proc[j][a].ph \in {"exec", "ended"} /\ Becomes(j, a, [proc[j][a] EXCEPT !.sawCancel = TRUE])
       \/ Alive(j, a) /\ Kill(j, a)
  /\ UNCHANGED <<dbVars, row, starts, phase, starting, running, adopted, cliVars, used>>

\* Running by the queue but not ours: killed by verified pid, or found gone; a
\* row without a pid is left alone, and so is a process that survives the kill.
CancelOrphan(j) ==
  /\ Visit("cancel", j)
  /\ row[j].state = "RUNNING" /\ running[j] = 0
  /\ LET a == row[j].pid IN
       \/ Alive(j, a) /\ Kill(j, a) /\ finish(j, "nonzero")
       \/ a # 0 /\ ~Alive(j, a) /\ finish(j, "nonzero") /\ UNCHANGED proc
       \/ (a = 0 \/ Alive(j, a)) /\ UNCHANGED <<row, proc>>
  /\ UNCHANGED <<dbVars, starts, phase, starting, running, adopted, cliVars, used>>

\* Mutant: a process without a handle is never killed.
Backstop_held_only(j) ==
  /\ Visit("backstop", j)
  /\ UNCHANGED proc \/ (Alive(j, running[j]) /\ Kill(j, running[j]))
  /\ UNCHANGED <<dbVars, row, starts, phase, starting, running, adopted, cliVars, used>>

\* Displacement: the runner stops by itself, or is killed past its deadline.
Backstop(j) ==
  /\ Visit("backstop", j)
  /\ LET a == IF running[j] # 0 THEN running[j] ELSE row[j].pid IN
       \/ UNCHANGED proc
       \/ Alive(j, a) /\ Kill(j, a)
  /\ UNCHANGED <<dbVars, row, starts, phase, starting, running, adopted, cliVars, used>>

----------------------------------------------------------------------------
(* _start_ready_jobs and _start_job.                                        *)

\* Mutant: jobs started by an earlier dispatcher take no slot.
InFlight_held_only == Cardinality({j \in Jobs : running[j] # 0})

InFlight == Cardinality({j \in Jobs : running[j] # 0}) + Cardinality({j \in Jobs : adopted[j] # 0})

\* Not admitted, or no slot; a waiter may then displace running jobs.
PassOver(j) ==
  /\ Visit("start", j)
  /\ \/ UNCHANGED <<row, used>>
     \/ \E victims \in SUBSET {v \in Preemptible : Ours(v)} : request_preempt(victims)
  /\ UNCHANGED <<dbVars, procVars, phase, starting, running, adopted, cliVars>>

\* claim_for_start, the compare-and-swap that lets one start through.
Claim(j) ==
  /\ Visit("start", j)
  /\ InFlight < Slots /\ starts[j] < MaxStarts
  /\ IF row[j].state = "QUEUED"
     THEN /\ row' = [row EXCEPT ![j].state = "RUNNING"]
          /\ phase' = "claimed" /\ starting' = {j}
     ELSE UNCHANGED <<row, phase, starting>>
  /\ UNCHANGED <<dbVars, procVars, running, adopted, cliVars, used>>

Spawn(j) ==
  /\ phase = "claimed" /\ j \in starting
  /\ \/ /\ starts' = [starts EXCEPT ![j] = @ + 1]
        /\ Becomes(j, starts[j] + 1, [NoProc EXCEPT !.ph = "boot"])
        /\ phase' = "spawned"
        /\ UNCHANGED <<row, starting, used>>
     \/ /\ finish(j, "nonzero")      \* Popen raised OSError
        /\ phase' = "start" /\ starting' = {}
        /\ Spend("faults")
        /\ UNCHANGED procVars
  /\ UNCHANGED <<dbVars, todo, running, adopted, cliVars>>

\* The pid is recorded and the job is ours; if the write fails the tick is
\* abandoned with a process nobody owns.
RecordPid(j) ==
  /\ phase = "spawned" /\ j \in starting
  /\ starting' = {}
  /\ \/ /\ row' = [row EXCEPT ![j].pid = starts[j]]
        /\ running' = [running EXCEPT ![j] = starts[j]]
        /\ phase' = "start"
        /\ UNCHANGED <<todo, used>>
     \/ /\ phase' = "sample" /\ todo' = {}
        /\ Spend("faults")
        /\ UNCHANGED <<row, running>>
  /\ UNCHANGED <<dbVars, procVars, adopted, cliVars>>

----------------------------------------------------------------------------
(* GPUQService.cancel and LocalDispatcherBackend.cancel, one read or one    *)
(* transaction at a time.                                                   *)

CancelTo(j, pc) == cancel' = [cancel EXCEPT ![j] = pc]

CancelBegin(j) ==
  /\ cancel[j] = "idle" /\ state[j] # "NONE"
  /\ CancelTo(j, IF state[j] \in TERMINAL_STATES THEN "done"
                 ELSE IF backendId[j] THEN "look" ELSE "early")
  /\ UNCHANGED <<dbVars, row, procVars, daemonVars, submit, rec, used>>

\* store.get, before and after a removal that came too late.
CancelLook(j) ==
  /\ cancel[j] \in {"look", "relook"}
  /\ CancelTo(j, CASE row[j].state = "QUEUED" /\ cancel[j] = "look" -> "remove"
                   [] row[j].state = "RUNNING"                      -> "request"
                   [] OTHER                                         -> "finished")
  /\ UNCHANGED <<dbVars, row, procVars, daemonVars, submit, rec, used>>

CancelRemove(j) ==
  /\ cancel[j] = "remove"
  /\ \/ remove_queued(j) /\ CancelTo(j, "mark")
     \/ row[j].state # "QUEUED" /\ CancelTo(j, "relook") /\ UNCHANGED row
  /\ UNCHANGED <<dbVars, procVars, daemonVars, submit, rec, used>>

\* request_cancel, whose result backend.cancel does not look at.
CancelRequest(j) ==
  /\ cancel[j] = "request"
  /\ IF row[j].state \in BackendActive
     THEN row' = [row EXCEPT ![j].cancel = TRUE] ELSE UNCHANGED row
  /\ CancelTo(j, "wait")
  /\ UNCHANGED <<dbVars, procVars, daemonVars, submit, rec, used>>

\* wait_until_finished: the row left the active states, or the wait timed out.
CancelWait(j) ==
  /\ cancel[j] = "wait"
  /\ \/ row[j].state \notin BackendActive /\ CancelTo(j, "mark")
     \/ CancelTo(j, "done")
  /\ UNCHANGED <<dbVars, row, procVars, daemonVars, submit, rec, used>>

CancelMark(j) ==
  /\ cancel[j] \in {"early", "mark"}
  /\ WriteState(j, "CANCELLED")
  /\ CancelTo(j, "done")
  /\ UNCHANGED <<backendId, row, procVars, daemonVars, submit, rec, used>>

\* "finished": the job is reconciled, which writes nothing when the target is
\* the state read at the beginning.
CancelFinished(j) ==
  /\ cancel[j] = "finished"
  /\ \/ WriteState(j, map_backend_state(row[j].state, row[j].code))
     \/ UNCHANGED state
  /\ CancelTo(j, "done")
  /\ UNCHANGED <<backendId, row, procVars, daemonVars, submit, rec, used>>

----------------------------------------------------------------------------
(* GPUQService.reconcile: the job is read first, its row later, and the     *)
(* write comes last.                                                        *)

RecTo(j, r) == rec' = [rec EXCEPT ![j] = r]

ReconcileList(j) ==
  /\ rec[j].pc = "idle" /\ state[j] \in ACTIVE_STATES
  /\ RecTo(j, [NoRec EXCEPT !.pc = "listed", !.seen = state[j], !.attached = backendId[j]])
  /\ UNCHANGED <<dbVars, row, procVars, daemonVars, submit, cancel, used>>

\* Mutant: a row that was never attached is left alone.
ReconcileStale_waits(j) ==
  /\ rec[j].pc = "listed" /\ ~rec[j].attached
  /\ RecTo(j, NoRec)
  /\ UNCHANGED <<dbVars, row, procVars, daemonVars, submit, cancel, used>>

\* A row that was never attached is stale after five minutes in PREPARING.
ReconcileStale(j) ==
  /\ rec[j].pc = "listed" /\ ~rec[j].attached
  /\ \/ rec[j].seen = "PREPARING" /\ WriteState(j, "LOST")
     \/ UNCHANGED state
  /\ RecTo(j, NoRec)
  /\ UNCHANGED <<backendId, row, procVars, daemonVars, submit, cancel, used>>

ReconcileRead(j) ==
  /\ rec[j].pc = "listed" /\ rec[j].attached
  /\ LET target == map_backend_state(row[j].state, row[j].code) IN
       RecTo(j, IF target = rec[j].seen THEN NoRec
                ELSE [NoRec EXCEPT !.pc = "got", !.target = target])
  /\ UNCHANGED <<dbVars, row, procVars, daemonVars, submit, cancel, used>>

ReconcileWrite(j) ==
  /\ rec[j].pc = "got"
  /\ WriteState(j, rec[j].target)
  /\ RecTo(j, NoRec)
  /\ UNCHANGED <<backendId, row, procVars, daemonVars, submit, cancel, used>>

\* _recover_lost_backend_ids: rows still PREPARING and unattached after that
\* are matched with the queue by label, and attached.
OrphanList(j) ==
  /\ rec[j].pc = "idle" /\ state[j] = "PREPARING" /\ ~backendId[j]
  /\ RecTo(j, [NoRec EXCEPT !.pc = "orphan"])
  /\ UNCHANGED <<dbVars, row, procVars, daemonVars, submit, cancel, used>>

OrphanAttach(j) ==
  /\ rec[j].pc = "orphan"
  /\ IF row[j].state = "MISSING" THEN UNCHANGED dbVars
     ELSE /\ backendId' = [backendId EXCEPT ![j] = TRUE]
          /\ WriteState(j, "QUEUED")
  /\ RecTo(j, NoRec)
  /\ UNCHANGED <<row, procVars, daemonVars, submit, cancel, used>>

----------------------------------------------------------------------------
Submitter(j)  == \/ SubmitInsert(j) \/ SubmitPrepareFails(j) \/ SubmitEnqueue(j)
                 \/ SubmitRecord(j) \/ SubmitEnd(j) \/ SubmitCrash(j)
Runner(j, a)  == \/ RunnerRefuse(j, a) \/ RunnerFails(j, a) \/ RunnerBegin(j, a)
                 \/ RunnerWatch(j, a) \/ CommandEnds(j, a) \/ RunnerFinish(j, a)
                 \/ RunnerDies(j, a)
DaemonOn(j)   == \/ Recover(j) \/ PollAlive(j) \/ Reap(j) \/ ReapAdopted(j) \/ ReapFault(j)
                 \/ CancelQueued(j) \/ CancelOwned(j) \/ CancelOrphan(j) \/ Backstop(j)
                 \/ PassOver(j) \/ Claim(j) \/ Spawn(j) \/ RecordPid(j)
Daemon        == \/ DaemonCrash \/ DaemonStop \/ DaemonStart \/ PassEnds \/ TickBegins
                 \/ \E j \in Jobs : DaemonOn(j)
Canceller(j)  == \/ CancelBegin(j) \/ CancelLook(j) \/ CancelRemove(j) \/ CancelRequest(j)
                 \/ CancelWait(j) \/ CancelMark(j) \/ CancelFinished(j)
Reconcile(j)  == \/ ReconcileList(j) \/ ReconcileStale(j) \/ ReconcileRead(j)
                 \/ ReconcileWrite(j) \/ OrphanList(j) \/ OrphanAttach(j)

Next == \/ \E j \in Jobs : Submitter(j)
        \/ \E j \in Jobs, a \in Attempts : Runner(j, a)
        \/ Daemon
        \/ \E j \in Cancelled : Canceller(j)
        \/ \E j \in Observed : Reconcile(j)

Spec == Init /\ [][Next]_vars

----------------------------------------------------------------------------
(* Safety.                                                                  *)

\* At most one process works on a job, and none while it waits in the queue:
\* whatever crashes, displacements and restarts happened in between, a job is
\* never run twice at once.
OneRunner ==
  \A j \in Jobs :
    /\ \A a, b \in Attempts : Alive(j, a) /\ Alive(j, b) => a = b
    /\ row[j].state = "QUEUED" => \A a \in Attempts : ~Alive(j, a)

\* A job removed from the queue is never running again ("it will not run").
RemovedNeverRuns ==
  \A j \in Jobs : row[j].state = "REMOVED" => \A a \in Attempts : ~Alive(j, a)

\* A job recorded as SUCCEEDED is not executing, so it is never executed again:
\* not when a displacement came after its command had ended, nor after a crash.
SuccessIsFinal ==
  \A j \in Jobs : state[j] = "SUCCEEDED" => ~Executing(j)

\* SUCCEEDED is only ever recorded, by the runner or by reconciliation, for a
\* job one of whose processes really exited with code 0.
SuccessIsTrue ==
  \A j \in Jobs : state[j] = "SUCCEEDED" =>
    \E a \in Attempts : proc[j][a].ph \in {"ended", "exited"} /\ proc[j][a].code = "zero"

\* A command executes only once its submission was recorded (or repaired):
\* architecture.md, "never runs before steps 1-7 succeed".
RunsOnlyAttached ==
  \A j \in Jobs : Executing(j) => backendId[j]

\* A live process whose pid was recorded occupies a slot of the dispatcher that
\* is up, whichever dispatcher started it.
LiveIsOwned ==
  phase \notin {"down", "recover"} =>
    \A j \in Jobs, a \in Attempts :
      Alive(j, a) /\ row[j].pid = a => running[j] = a \/ adopted[j] = a

\* The jobs the dispatcher holds, the one it is starting included, fit the slots.
SlotsRespected ==
  Cardinality({j \in Jobs : Ours(j) \/ j \in starting}) <= Slots

\* A finished or removed row never becomes active again, although finish and
\* requeue write it without looking at its state.
EndedRowStaysEnded ==
  [][\A j \in Jobs :
       /\ row[j].state = "FINISHED" => row'[j].state = "FINISHED"
       /\ row[j].state = "REMOVED"  => row'[j].state = "REMOVED"]_vars

\* A job whose runner stopped it for a displacement returns to the queue; only
\* a cancellation may end it instead (README.md: it "is not cancelled and has
\* not failed").  Not so across a restart of the dispatcher: the row of a
\* displaced job that is adopted, or found dead, is finished.
Displaced(j) == row[j].state = "RUNNING" /\ row[j].preempt
DisplacedReturns ==
  [][\A j \in Jobs :
       /\ Displaced(j) /\ row'[j].state # "RUNNING"
       /\ \E a \in Attempts : row[j].pid = a /\ proc[j][a].sawPreempt
       => row'[j].state = "QUEUED" \/ row[j].cancel]_vars

\* What does hold: a displaced job that stays with the dispatcher that started
\* it returns to the queue, whatever stopped it.
HeldDisplacedReturns ==
  [][\A j \in Jobs : Displaced(j) /\ running[j] # 0 /\ row'[j].state # "RUNNING"
                       => row'[j].state = "QUEUED"]_vars

----------------------------------------------------------------------------
(* Liveness.  Fair: the dispatcher makes progress and is restarted (every   *)
(* CLI that needs it calls ensure_daemon), a process that outlives its      *)
(* grace period is killed by the dispatcher that looks at it again and      *)
(* again, and somebody keeps reading the status, some of it after the five  *)
(* minutes that make a PREPARING row stale.  Not fair: the runners and      *)
(* their commands (wedged ones do nothing at all), submissions, faults.     *)

DaemonProgress == \/ DaemonStart \/ PassEnds \/ TickBegins
                  \/ \E j \in Jobs : DaemonOn(j)
GraceExpires(j) ==
  /\ CancelOwned(j) \/ CancelOrphan(j) \/ Backstop(j)
  /\ \E a \in Attempts : Alive(j, a) /\ proc'[j][a].ph = "exited"

Fairness ==
  /\ WF_vars(DaemonProgress)
  /\ \A j \in Jobs : SF_vars(GraceExpires(j))
  /\ \A j \in Observed : /\ SF_vars(ReconcileList(j))
                         /\ WF_vars(rec[j].pc # "idle" /\ Reconcile(j))
                         /\ SF_vars(ReconcileStale(j) /\ state'[j] = "LOST")

FairSpec == Spec /\ Fairness

\* A requested cancellation takes the job out of the queue, across a restart of
\* the dispatcher and a displacement, even if the runner never looks.
CancelHonoured ==
  \A j \in Jobs : row[j].cancel /\ row[j].state \in BackendActive
                    ~> row[j].state \notin BackendActive

\* A displacement ends, even if the runner is wedged and whichever dispatcher
\* started it: the job does not stay running with its flag set.
DisplacementEnds ==
  \A j \in Jobs : row[j].preempt /\ row[j].state = "RUNNING"
                    ~> ~(row[j].preempt /\ row[j].state = "RUNNING")

\* Once its row has ended, the job reaches a terminal state, even if its runner
\* was killed before it could record anything.
EndedJobSettles ==
  \A j \in Observed : row[j].state \in {"FINISHED", "REMOVED"} /\ backendId[j]
                        ~> state[j] \in TERMINAL_STATES

\* A submission does not stay PREPARING for ever, wherever its CLI died.
PreparingSettles ==
  \A j \in Observed : state[j] = "PREPARING" ~> state[j] # "PREPARING"
=============================================================================
