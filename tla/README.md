# worker-q, specified

worker-q is a job queue for one workstation (and, optionally, a few more machines reached over
SSH). This directory holds TLA+ specifications of it, the TLC configurations that check them, and
TLAPS proofs. Everything is translated from `src/src/workerq/`; `PROJECT.json` gives for every
definition the lines it stands for.

To check: `tlc -config MCOneJob.cfg MCLifecycle`, `tlapm LifecycleProofs.tla`, and so on.

## 1. Inventory

| Component | Source | State it keeps | Operations | Correct when |
|---|---|---|---|---|
| Core database | `db.py`, `models.py` | `jobs`: state, backend id, outcome | `insert_job`, `update_job` (validates the transition inside the transaction), `try_update_state` | states only move forward, terminal ones are final |
| Queue store | `backends/queue_store.py` | `bjobs`: state, position, rank, request, pid, cancel and displacement flags; `meta`: slots, pid, heartbeat, shutdown flag, reserve | `enqueue`, `claim_for_start`, `finish`, `requeue`, `remove_queued`, `request_cancel`, `request_preempt`, `set_requests`, `set_priority`, `promote`, `trim_finished` | a row is started by one dispatcher at a time and an ended row stays ended |
| Core service | `core.py` | none: works on both databases | `submit`, `cancel`, `reconcile`, `bump_job`, `promote`, `set_requests`, `set_reserve`, right-sizing, advice, forecast, settings | the two databases converge, wherever a call dies |
| Dispatcher backend | `backends/local_dispatcher.py`, `backends/base.py` | none | `get_job`, `cancel`, `wait_until_finished`, `initialize`, `ensure_daemon`, `shutdown`, `set_reserve` | callers see one life per job; one daemon; a cancellation reaches the process |
| Dispatcher | `backends/dispatcher.py` | memory: `running` (handles), `adopted` (pids), hold clocks, device and node accounting | tick: heartbeat, reserve, sample, reap, cancellations, displacement backstop, pass over the queue; recovery at start; threads: node poller, snapshot cleaner, watchdog | no job twice, slots and ledger respected, every job gets its turn |
| Admission | `resources.py` | none | `capacity`, `sum_reservations`, `admit` | what runs fits the machine |
| GPU allocation | `backends/dispatcher.py:395-571`, `gpu.py` | devices per handle, cached readings | allocate, occupancy, baseline | exclusive means exclusive, shared fits |
| Runner | `runner.py` | one process per start | refuse, take ownership, run the command, watch for a stop, measure, record the outcome | the recorded outcome is what happened |
| Process control | `winproc.py` | locks, job objects | identity by pid and creation time, tree kill, file lock | never kills or adopts a stranger |
| Remote placement | `backends/dispatcher.py`, `remote.py`, `nodes.py`, `cli.py` | node reports, nodes left alone, placement failures, remote rows | choose a node, start, poll, collect, cancel | a job runs on one machine, its result comes back, a node is not overcommitted |
| Staging | `staging.py` | paths and indexes of clones, readiness | resolve, inspect, ship, push data, collect, remove | the source on the node is the one that was submitted |
| Snapshots, cleanup | `snapshot.py`, `cleanup.py` | commits, refs, worktrees, junctions | create, retain, remove | nothing in use is removed, nothing outside is touched, nothing stays for ever |
| History | `eta.py`, right-sizing and advice in `core.py` | past runs | durations, peaks, forecast | numbers are those of comparable runs; trimming neither starves nor runs away |
| Views | `cli.py`, `dashboard.py`, `web/`, `mcp/` | none | call the core service | - |
| Statistics | `usage.py`, `telemetry.py`, `report.py` | samples | - | - |
| Probes, settings, advice | `host.py`, `gpu.py`, `config.py`, `doctor.py`, `preflight.py`, `travel.py`, `claude_policy.py` | - | read the machine and the configuration | - |

**How they interact.** There is no network protocol on the local path and no shared memory between
programs. The CLI, the dispatcher and the runners meet in two SQLite databases: the *core* one
(what the user sees) and the *queue* one (what the dispatcher works from). Each transaction is
atomic, a sequence of them is not. The dispatcher starts runners with `Popen` and learns of their
end by polling; the runner writes its outcome to the core database itself; the dispatcher writes
the exit code to the queue; `reconcile`, called by every status read, carries the second over to
the first when the runner could not. Other machines are reached by one SSH call at a time, and by
the poller thread beside them. Worktrees are made by the submitting command and removed by the
cleaner, with nothing but the core database between them.

**What is hard.** Any of these programs may die between two transactions. The dispatcher may
restart while runners go on. What one actor read (a row of the pass, a job to reconcile, a list of
snapshots, a report of a node, the deadline of a claim) may be stale when it acts. A displacement
takes seconds, and the dispatcher ticks four times a second meanwhile. Backfill must not starve the
head of the queue. A call to a node may do its work and lose its answer. History feeds back into
what is reserved. `PROJECT.json` lists each such hazard at its line under `hazards`, with the
properties that guard it.

## 2. Modules

| Module | Contents |
|---|---|
| `JobStates` | the states in both databases, `ALLOWED_TRANSITIONS`, `map_backend_state` |
| `JobBackend` | abstract: what a backend promises about a job (`backends/base.py`) |
| `Lifecycle` | one job's life across submitter, dispatcher, runner, canceller and reconciler; implements `JobBackend` |
| `LifecycleInvariants` | the inductive invariants behind its theorems |
| `LifecycleProofs` | its theorems and their proofs |
| `Scheduler` | the pass over the queue: admission, backfill, hold, displacement |
| `SchedulerProofs` | the theorems of `Scheduler` and of `NodeReports` |
| `Admission`, `AdmissionProofs` | what a job must get before it starts: RAM, VRAM, commit, devices; its theorems |
| `Daemon`, `DaemonProofs` | the dispatcher as a process: lock, heartbeat, pid, shutdown flag, watchdog; the claim on memory; its theorems |
| `RemotePlacement`, `RemoteInvariants`, `RemoteProofs` | a queued job shipped to another machine, followed, brought home, cancelled; its theorems |
| `NodeReports` | which machine a job is offered to: reports, charges, back-off, clones and their data |
| `Snapshots`, `SnapshotProofs` | the frozen source of a job: made, used, retained and removed; its theorems |
| `Estimates` | durations, peaks, right-sizing and advice, learned from past runs |
| `Forecast` | the forecast of a queue |
| `EstimatesProofs` | the theorems of `Estimates` and of `Forecast` |
| `SumProofs` | the laws of sums over finite sets, for every ledger |
| `MC...` | symmetry, and the values of the constants that are functions; `MCEstimates` composes `Estimates` and `Forecast` |

The modules describe the same system at different grains and meet in the rows of the queue: who
writes the two databases when and may die in between (`Lifecycle`); which row a pass picks
(`Scheduler`) and what it must find free (`Admission`); what happens to a row that leaves the
machine (`RemotePlacement`) and where it goes (`NodeReports`); what it runs in (`Snapshots`); who
runs the passes (`Daemon`). Where one is detailed the others leave the matter open (`Lifecycle` starts
any queued job, `RemotePlacement` places a job whenever the code could, `Snapshots` starts and
displaces at any moment), so what holds in one holds whatever the others decide.

### Lifecycle

One action per transaction or per read that is used later. How the state corresponds to the code:

| Variable | Code |
|---|---|
| `state`, `backendId` | `jobs.state`, `jobs.backend_job_id IS NOT NULL` |
| `row` | the `bjobs` row: state, exit code (zero, nonzero, NULL), pid, `cancel_requested`, `preempt_requested` |
| `proc[j][a]` | the runner started for the a-th time: booting, executing its command, command ended, gone; and what its stop watcher has seen |
| `phase`, `todo`, `starting` | the part of the tick the dispatcher is in, the rows that part still has to look at, the job between claim and pid record |
| `running`, `adopted` | the two dictionaries of `Dispatcher`, lost when it stops |
| `submit`, `cancel`, `rec` | where each CLI call is, and what the reconciler has read |
| `used` | how much of the bounds has been used |

A pid and its creation time are together never reused, so the attempt number stands for the pair:
`Alive(j, a)` is `pid_matches`. `TryUpdate` is `update_job`'s check, which makes a late writer
harmless only if the transition it attempts is illegal. Writes that the code makes in one
transaction are one action; `request_preempt` on several victims is one step, because no other
action reads two rows.

Left out: the order of the queue and the admission decision (any queued job may be claimed or passed
over, so the properties hold for every policy), time (a grace period, a timeout or the five minutes that
make a submission stale may end at any moment), snapshots (`Snapshots`), logs, remote rows
(`RemotePlacement`). Two places merge what the code does in several transactions: the recovery of a lost
id writes the id and then the state (`core.py:1790-1791`), so a job that is PREPARING with an id for an
instant is not a state of the model; and a cancellation that finds the row ended reads it and writes the
outcome in one step (`core.py:1703-1746`), where the row no longer changes in between (`EndedForGood`).
`Slots` is constant, although `META_SLOTS` may be lowered while jobs run; then the jobs in flight exceed
it until some end. `Preemptible` is the set of jobs the settings allow to be displaced at all. A runner
that is killed takes its command with it. That is so for the kills the dispatcher makes
(`terminate_tree`); a runner killed alone from outside would leave its command running, see `hazards`.

### Scheduler

A pass (`_start_ready_jobs`) reads the queue once into `pass.todo` and then looks at one row per
step, with every CLI and every process free to act in between. `Skip`, `Refuse` and `Start` are
the three ways an iteration of that loop goes; `Refuse` contains the choice of victims, the hold
and the look-ahead, in the order of the code.

| Variable | Code |
|---|---|
| `row`, `order` | the `bjobs` rows (state, rank, request, displacement flag) and the order of `position` |
| `alive` | running jobs whose process has not ended yet; `_reap` takes the others away |
| `age`, `waited`, `spent`, `clock` | `started_at`, `_blocked`, `_hold_spent` and `_hold_since`, in ticks |
| `foreign` | memory in use that no running job declared: by what is not in the queue, or by a job beyond its request |
| `pass` | the locals of the loop: `in_flight`, `head_blocked`, `held_for`, `skipped`, `refused`, `local_closed` |
| `admitted`, `yields` | history: the request a job was admitted with, the waiter it was displaced for |

A request has two axes, RAM (measured and declared) and CPU (declared only); VRAM, commit charge and
devices are in `Admission`. How much of its declaration a running job really uses is open at every look
(`InUse`), and what it uses beyond that is part of `foreign`. Positions become places in a sequence:
`promote` and `requeue` take the smallest position minus one. No other machine is registered, so
`_choose_node` returns nothing. A critical job's rank 0 is read as 100 where the code says `or 100`
(`RankOr100`). Of several victims the one that has run longest goes first, as the key of the sort has it;
the comment above it says "shortest running" (`dispatcher.py:677`).

### RemotePlacement

Nothing is shared with a node but SSH calls. A call is a process there and an answer here; the
answer may be lost, the caller may time out or die, and the process goes on. The dispatcher makes
one call at a time, so `call` is its program counter.

| Variable | Code |
|---|---|
| `row` | the `bjobs` row: state, `cancel_requested`, exit code, `node`, `remote_id` |
| `call` | `_start_remote` between `remote.submit` and `claim_for_remote_start`; `_reap_remote` in front of the collection, of `_drop_remote_worktree`, of `finish` |
| `spec` | processes of `workerq _submit-spec` on the nodes: looking for an earlier submission, inserting, answering |
| `copy` | the `jobs` table of each node; the index is the node's own job id |
| `tree`, `out`, `recent` | the worktrees on each node, the places that hold output, and whether it is younger than `started_at` |
| `asked` | `_remote_cancel_at = inf`: the node has taken the cancellation |
| `registered` | `config.nodes`, read again when the file changes |
| `here`, `home` | a runner on this machine; results that were unpacked here |
| `hist` | history for the properties: `cut` (an answer about the job was lost), `twice` (two submissions of it were at work at once, or one was made although an earlier one was there), `early` (its copy ended before the claim), `uncollected`, `abandoned` |

`hist` is read by no action. It names the exceptions the code has, so that the properties can say
exactly when they hold: `NoOrphan` without a lost answer; `OneCopyPerNode` and `TreeOutlivesCopy` without a lost
answer followed by two submissions at once (`_submit-spec` looks and inserts in two transactions) or by a
look that did not find the earlier one (it raised, `cli.py:2987`, or there are more than 500 jobs,
`cli.py:2973`: the code inserts all the same); `HomeBeforeFinish` unless the collection
failed or the job ended before it was claimed.

Left open or out: which machine admits a job (`NodeReports`; a placement may be tried at any time),
back-off delays, bundles and inputs (a placement may fail), the difference between clocks, a
displacement on the node. A job is accepted there in one step: the interval in which the node's
record is `PREPARING` is that of `Lifecycle`. So are the lives of a run on this machine
(`StartHere`, `EndsHere`, `ReapHere`).

### JobBackend

The abstract specification of `Lifecycle`: for each job what `get_state` answers, whether a process
works on it and how often one was started. A process starts only for a job that is running and has
none; a row waits, returns to the queue or is removed only without a process; what ended stays
ended. There is no database, pid, daemon or crash in it. `Lifecycle` maps `row[j].state`, the
existence of a live process and `starts` to it (`JB`); `ImplementsBackend` is checked by TLC and
proved (`LifecycleProofs!BackendImplemented`).

### NodeReports

| Variable | Code |
|---|---|
| `place`, `started`, `own`, `link` | where each job is, what its node has started, what the owner of the node runs, whether it answers |
| `cache`, `fresh` | `ReportCache`: the report of each node, and whether it is younger than `max_age` |
| `poll` | the poller thread between its answer and the store |
| `loop` | the dispatch loop in an offer: asked, judged, shipping, charging |
| `down`, `retry` | `_node_down`, `_placement_failures` |
| `path`, `lacks`, `ready` | what is remembered of the clone (`_EXPANDED`, `_REPO_INDEX`), the passthrough data it lacks, `_repo_ready_cache` |

A report is what a node says of its load and its queue, and of which jobs it knows, which is
history. The loop holds a report in hand while the poller stores another one. The charge of
`_account_remote_start` goes to the report that is in the cache by then. A link breaks, a transfer
fails or a listing of clones comes back empty up to `MaxFaults` times in all; an unreachable node
fails every call for nothing. Left out: the order of the nodes, the two age limits of a report (one
stands for both), versions and clocks (`Compatible` is given), amounts on several axes.

### Snapshots

| Variable | Code |
|---|---|
| `row`, `known`, `age` | `jobs.state`, `snapshot_path` recorded, time since `finished_at` |
| `submit` | where the submitting command is in `submit` and `create_git_snapshot` |
| `commit`, `ref`, `tree`, `links` | the commit object, `refs/gpuq/snapshots/<id>`, the worktree, a junction in it |
| `alive` | a process of the job in its worktree |
| `todo`, `remove` | the plan a cleaner works off; the step of `remove_snapshot` that a cleaner, or a submission that failed, is at |
| `hist` | live data that a removal took; processes that a user or their own submission forced out; the steps that failed without a word (`slips`) |

A removal that walks through a junction takes what it leads to; so the model lets git and `rmtree` do.
Links, removals and refs are best effort in the code, and here: a link that cannot be made is skipped
(`snapshot.py:382`), one that cannot be detached does not stop the removal (482, 494), a removal may
break off anywhere and leave a part (250-260, 419-424, 514), git may fail or leave everything to
`rmtree`, and the deletion of a ref has `check=False` (262, 436). Each such slip is recorded, no action
reads it but for the bound `MaxMishaps`, and the properties name the slips they except: `DataSafe` a
junction that stayed, `NothingHalfBuilt` a removal that broke off (or a process in the worktree) and a
ref that stayed, `SourceReady` a link that was not made. With a retention of 0 days, which
`config.py:415` accepts, a worktree may go in the instant in which its row is terminal and its process
not gone: `TreeOutlivesProcess` excepts exactly those outcomes. `git gc` may take a commit that neither a
ref nor a worktree holds at any moment while somebody wants it. The life of the job is that of
`Lifecycle` in fewer steps. `Unlucky` names the jobs that mishaps may befall; the other job of the run
has none, which keeps the product of two submissions small and loses no interleaving of a mishap with a
healthy job. Left out: `create_copy_snapshot`, logs, the list of orphaned refs.

### Admission

What `admit` and `_allocate_devices` read: `holder` (queued, held, adopted), `dev` and `owned` of
`_RunningJob`, the devices a process sees, what it has grown to, other programs, the reading of the GPUs
(old, or failed: `NoGpu`) and the reserve in force. Jobs grow and shrink at any time up to what they
declared, so measured memory may deceive at every start. RAM is measured at the moment of the start, the
cards are as old as their reading; a reading without a number for one card (`free_percent` None) is left
out. The hard stop is a share of the ceiling of the pagefile, which is fixed, in place of the current
commit limit, and a request does not change while it waits (`Scheduler` has that). Cards are alike;
slots, CPUs and the order of the queue are in `Scheduler`; free disk is one more floor.

### Daemon

| Variable | Code |
|---|---|
| `pc` | a dispatcher: spawned, locked, in its loop, in a tick, hung, closing |
| `holder` | who holds `dispatcher.lock`: a dispatcher, or a probe for an instant |
| `pidKey`, `flag`, `beat` | `META_DAEMON_PID`, `META_SHUTDOWN`, whether `META_HEARTBEAT` is young |
| `amount`, `deadline`, `past` | the keys of the reserve, and which deadlines have passed |
| `call` | a command line in `initialize`, `ensure_daemon`, `restart`, `shutdown`, `set_reserve` or `clear_reserve` |
| `asked`, `torn` | history: who was there when the flag was set; whether writers of the reserve overlapped |

Keys are written one after the other, as in the code. Time is not measured: a timeout may run out and a
heartbeat may grow stale at any moment, and the watchdog may end a loop that is merely slow. Processes
are places used again after they are free. `Begin` is the first keys that `run` writes in one step (pid,
flag, heartbeat: `dispatcher.py:2173-2192`); the pid is only displayed, a command that comes before the
heartbeat sees an old one, as it may at any time (`BeatAges`), and a request to stop that is made between
the pid and the flag is dropped, as one made before.

### Estimates and Forecast

`Estimates` follows one command through submissions, corrections, displacements, runs here and on a node,
and the runs within the window (`hist`) from which `_right_size`, `_learned_peak`, the advice and
`learned_duration` are computed. Numbers are integers at the grain of the code's rounding: memory in half
GiB, time in half ticks, quotients by cross-multiplication. `well` is a peak of three samples or more:
right-sizing counts no other, while advice is content with one, and one sample here keeps the peak of a
node away (`core.py:1666`). `Reads` and `Recent` are the limits of 30 and 20 rows. A correction writes
the queue (`Correct`) and then the row (`Record`, or `RecordLate` when the run is over by then);
`unrecorded` is what has been written to the one and not to the other, for ever when the command died.
`wrote`, the number the submitter last gave, `unrecorded`, `crossed` (one correction began before another
was done) and `used`, the true peak, are history. A run whose correction is `Torn` is measured against a
number given up, and `TrimFollowsHistory` excepts it. Runs are in the order of their ends where the code
has that of their ids; the two differ only when jobs of one command overtake one another.

`Forecast` is a function of a view of the queue, translated as one (`Plans`, a recursive function of
the number of rows laid out) and compared with `Served`, the queue as it is then served, for every
length that the jobs of unknown duration may have. A slot stands for a running job or is idle; when
several are free first, any of them is taken, where the code takes the one with the smallest index:
the times are the same. `MCEstimates` extends both modules and runs them side by side: the views are
enumerated while no history exists, then the history grows.

## 3. Runs

All bounds are constants named in the configuration.

| Run | Module, configuration | Instance | Shows |
|---|---|---|---|
| `one_job` | `MCLifecycle`, `MCOneJob.cfg` | one job, two attempts, one crash, one displacement, one fault, cancelled and observed | every actor on the same row: never twice, outcome true and final, no execution without a record, and `JobBackend` implemented |
| `two_jobs` | `MCLifecycle`, `MCTwoJobs.cfg` | two jobs, one slot, two attempts, one crash, one displacement | slots across a restart, adoption, return of displaced jobs |
| `live` | `MCLifecycle`, `MCLive.cfg` | one job, cancelled, observed, displaced once, one crash | a cancellation and a displacement come to an end; the core database catches up |
| `schedule` | `MCScheduler`, `MCSchedule.cfg` | three jobs (one needs all the RAM), two slots, one edit, foreign memory, displacement | the ledger of declared requests, the look-ahead |
| `hold_live` | `MCScheduler`, `MCHoldLive.cfg` | the same, jobs that come back for ever, hold after one tick | the head of the queue is not starved |
| `admission` | `MCAdmission`, `MCAdmission.cfg` | four jobs on two cards, one restart, other programs, a claim | the declared sizes of all that runs fit; devices are shared by agreement; a baseline stands for one job |
| `daemon` | `MCDaemon`, `MCDaemon.cfg` | two places for dispatchers, two command lines, two calls, one fault | the keys name who serves; a stop ends whom it was meant for; a temporary claim ends |
| `remote` | `MCRemotePlacement`, `MCRemote.cfg` | one job, one node with jobs of its own, two submissions, two jobs accepted, looks that fail, one restart, a registry that changes | the verdict is that of the job, one live copy but where section 2 says, no orphan without a lost answer, results first, a cancellation arrives |
| `nodes` | `MCNodes`, `MCNodes.cfg` | two jobs (one pinned), one node whose clone has another name and lacks data, one failure, its owner | nothing is sent where it does not fit; every job that fits gets there |
| `snapshots` | `MCSnapshots`, `MCSnapshots.cfg` | two jobs, one of which mishaps befall, one cleaner, one death or silent failure, count cap 1, two ages | source and worktree stay while they are needed; what failures leave and what a removal takes is named; retention reaches all |
| `estimates` | `MCEstimates`, `MCEstimates.cfg` | one command, two machines, three runs in the window of which two are read, one of them odd; queues of three jobs over one and two slots | trimming follows history, advice settles, durations are not mixed, the forecast is not early |
| `detach_doc` | `MCSnapshots`, `MCDetachDoc.cfg` | one job whose second passthrough entry is refused | violation: section 6 |

**Why these bounds are enough.** In `Lifecycle` an error needs one job: rows never refer to each other,
and jobs interact only through the slots and the dispatcher's single thread, for which `two_jobs` has one
more job than slots. Two attempts are the least with an old process to confuse with a new one, reached by
displacement. One crash lets the dispatcher restart, or the submitting CLI die, at any point; one fault
is a failed write or a killed runner. In `Scheduler`, three jobs are the large one, one that runs, and
one that is backfilled or displaced as second victim; a machine of two units is the smallest on which two
small jobs exclude a large one. In `Admission`, three sharing jobs of which two do not fit together, and
one that wants both cards, are the least that can meet on a card in the wrong order; the restart adopts
any of them. In `Daemon` two dispatchers and two command lines are the least for a race to the lock while
a third party probes it; two calls allow one command to undo or overlap the other. In `RemotePlacement`
rows do not refer to each other, and a node meets a second job only as a foreign record in its table,
which `OwnSubmits` provides; two processes of `_submit-spec` are the least that can overlap, two accepted
jobs the least with a wrong one to confuse, and one restart reaches every point of a call. In
`NodeReports` the second job is what a node must be charged for. In `Snapshots` the count cap of one
needs a second job, and ages up to two tell "before the grace period", "in between" and "expired" apart;
one mishap is a death or a silent failure, and each exception of the properties needs one (`SnapInv` was
also checked with two). In `Estimates` two runs reach every minimum (`MinRuns`, `MinSamples`), a median
of two is a mean, and the third is the one that `Reads` and `Recent` leave out; `MaxOdd` lets one run or
job at a time be elsewhere, briefly sampled, torn or failed, and `OneQuestion` grows a history for memory
or for durations, which no property relates. Where there is a theorem (section 5) it holds for all
values, which is the real answer.

**Deadlock.** `CHECK_DEADLOCK FALSE` stands where the system may come to rest: every job has ended and
nobody calls, or the bounds on attempts, calls and faults are used up. `Scheduler`, `RemotePlacement`
(whose registry can always change) and `Estimates` never stop and are checked for deadlock.

## 4. Fairness

`Lifecycle`: the dispatcher makes progress and is restarted when it is down (every submission and
many status reads call `ensure_daemon`), so `WF` on its steps. A process that outlives its grace
period is killed by a dispatcher that looks at it in tick after tick; the deadline that has passed
stays passed, but the look itself is interrupted by other phases, hence `SF` on `GraceExpires`.
Someone keeps reading the status of an observed job, also after the five minutes that make a
`PREPARING` row stale: `SF` on the beginning of `reconcile` and on its stale branch, `WF` on the
rest. Nothing is assumed of runners, commands, submissions or faults: a wedged runner is part of
the liveness run.

`Scheduler`: the dispatcher goes on (`WF`), and processes end (`WF` on `Ends`, and no job runs for more than
`MaxRun` ticks). The second is an assumption on the work, not on the code; it is where the promise of
the hold ends: `backfill_max_hold_seconds` is a budget, and a head that waits for a job longer than
its budget is overtaken again, which the configuration comments accept. `HeadMovesOn` asks
for foreign memory to go away in the end and for an untouched budget; the clock of a hold may run
while its job is not first (`hazards`), which is why the second is needed.

`Daemon`: the loop goes round and a wedged one is ended by the watchdog's thread, which has nothing else
to do (`WF` on the two together). Command lines go on (`WF`), and the wait of `ensure_daemon` has a
timeout: `SF` on its return, because each of its looks begins anew. A probe holds the lock for an instant
of every tenth of a second, so a dispatcher that tries again and again gets it: `SF` on `Acquire`.
Somebody keeps looking for a dispatcher (`SF` on the start of `ensure`), as in `Lifecycle`. Nothing is
assumed of claims, restarts and stops.

`RemotePlacement`: every call has a timeout, so `WF` on `Answer` and on the steps of bringing a job
home. A tick polls every remote row and repeats an unanswered cancellation; the link may fail any
number of times and the dispatcher may be in another call, so `SF` on `ReapLook` and on
`Abandon \/ AskAnswered`: what is tried in every tick succeeds at last. A stopped copy is ended by its
node (`WF` on `StoppedEnds`, which is the grace period of `Lifecycle`). Restarts are bounded, as everywhere.
Nothing is assumed of commands, submissions or the registry.

`NodeReports`: loop and poller go round and delays run out (`WF`). The loop offers every job to every
node again and again, in order, while reports, delays and its own other offers come and go: `SF` on
`Offer` and on `PollAsks`. Links come back (`WF`), and a node starts and ends what it can (`WF`, for the node as
a whole). `Placed` is about the jobs that a node has room for once its owner leaves it alone.

`Snapshots`: the cleaner thread comes round every ten minutes and a removal once begun goes on, time
passes, and a process that was told to stop is gone in the end (`WF`). What git cannot remove today,
because a file is open or the disk is slow, it can remove one day: every round tries again, hence `SF` on
`GitClears`. Nothing is assumed of submissions, jobs and users.

## 5. Proofs

For every number of jobs, slots, attempts, crashes, displacements and faults that satisfies
`LifecycleAssumption` (finite sets and natural numbers, nothing more):

| Theorem | Property |
|---|---|
| `LifecycleProofs!TypeCorrect` | `TypeOK` |
| `LifecycleProofs!QueueCorrect` | `QueueInv` |
| `LifecycleProofs!NeverTwice` | `OneRunner` |
| `LifecycleProofs!RemovedStaysIdle` | `RemovedNeverRuns` |
| `LifecycleProofs!NoLeakedSlot` | `LiveIsOwned` |
| `LifecycleProofs!EndedForGood` | `EndedRowStaysEnded` |
| `LifecycleProofs!DisplacedComesBack` | `HeldDisplacedReturns` |
| `LifecycleProofs!SlotsHold` | `SlotsRespected` |
| `LifecycleProofs!NeverUnrecorded` | `RunsOnlyAttached` |
| `LifecycleProofs!SuccessHappened`, `SuccessStays` | `SuccessIsTrue`, `SuccessIsFinal` |
| `LifecycleProofs!BackendImplemented` | `ImplementsBackend`: the refinement of `JobBackend` |

For every number of jobs, machines, submissions, accepted jobs and restarts that satisfies
`LocalAssumption`, `JobsAssumption` and `BoundAssumption`:

| Theorem | Property |
|---|---|
| `RemoteProofs!RemoteTypes` | `TypeOK` |
| `RemoteProofs!RemoteAgrees` | `RemoteInv` |
| `RemoteProofs!VerdictIsItsOwn` | `EndedOnItsNode` |
| `RemoteProofs!NobodyIsLeftBehind` | `NoOrphan` |
| `RemoteProofs!OneCopyEach` | `OneCopyPerNode` |
| `RemoteProofs!TreeIsLastToGo` | `TreeOutlivesCopy` |
| `RemoteProofs!ResultsComeFirst` | `HomeBeforeFinish` |

For every number of jobs and cleaners, all retention settings from 0 on, and any number of steps that fail
without a word, that satisfy `SnapshotsAssumption`:

| Theorem | Property |
|---|---|
| `SnapshotProofs!SnapshotInvariant` | `SnapInv` |
| `SnapshotProofs!SourceStaysReady` | `SourceReady` |
| `SnapshotProofs!TreesOutliveProcesses` | `TreeOutlivesProcess` |
| `SnapshotProofs!FailureLeavesNothing` | `NothingHalfBuilt` |
| `SnapshotProofs!DataIsSafe` | `DataSafe` |

For all jobs, requests, devices and sizes that satisfy `AdmissionAssumption`:

| Theorem | Property |
|---|---|
| `AdmissionProofs!DevicesAccounted` | `AdmissionInv` |
| `AdmissionProofs!OffLimitsUnlessShared` | `ExclusiveAlone` |
| `AdmissionProofs!BaselineIsForOneJob` | `OwnedAlone`: among the jobs that one dispatcher holds |
| `AdmissionProofs!LedgerIsNeverExceeded` | `LedgerHolds` |
| `AdmissionProofs!SharersFitTheirCard` | `SharedFits` |

For every finite set of jobs, every machine, any ranks and requests and every setting of backfill
that satisfy `SchedulerAssumption`:

| Theorem | Property |
|---|---|
| `SchedulerProofs!SchedulerInvariant` | `SchedulerInv` |
| `SchedulerProofs!SchedulerTypes` | `TypeOK` |
| `SchedulerProofs!LedgerIsNeverExceeded` | `LedgerHolds` |
| `SchedulerProofs!LookAheadSpent` | `LookAheadIsSpentOnDifferentJobs` |
| `SchedulerProofs!SlotsAreKept` | `SlotsKept` |
| `SchedulerProofs!HoldIsKept` | `HoldKept`: what a job that is let past a held one leaves for it |
| `SchedulerProofs!ImpliedRefusal`, `FutileHold` | two facts of one look: what `_asks_at_least` may skip; and that a hold is given up only when the job would be refused with nothing running, unless memory used beyond what was declared makes the room |

For all jobs, nodes, sizes, pins and owners that satisfy `NodeReportsAssumption` (a node is not called
"queued" or "done", which are places of the model):

| Theorem | Property |
|---|---|
| `SchedulerProofs!NodesInvariant` | `NodesInv` |
| `SchedulerProofs!NothingIsPiledUp` | `NoBacklog` |

For all declarations, peaks and durations and a history of any length, that satisfy
`EstimatesAssumption` (a minimum of samples is at least one: no peak is learned from no run); and for
queues of any length over any number of slots (`ForecastAssumption`):

| Theorem | Property |
|---|---|
| `EstimatesProofs!RunsKeepTheirScale` | `EstimatesInv`: torn corrections are excepted in it |
| `EstimatesProofs!TrimIsBounded` | `TrimFollowsHistory` |
| `EstimatesProofs!AdviceIsFinal` | `AdviceSettles` |
| `EstimatesProofs!DurationsKeptApart` | `DurationsNotMixed` |
| `EstimatesProofs!ForecastIsNeverEarly` | `Sound`, of any queue in which no more jobs run than there are slots |
| `EstimatesProofs!ForecastIsSound` | `ForecastSound` |

For all processes, command lines and claims, and any number of calls and faults, that satisfy
`DaemonAssumption`:

| Theorem | Property |
|---|---|
| `DaemonProofs!DaemonCorrect` | `DaemonInv` |
| `DaemonProofs!PidNamesServer` | `PidNamesHolder` |
| `DaemonProofs!StopsByRequest` | `StopsWhoWasAsked` |

**The argument for `Lifecycle`.** `OneRunner` is not inductive: that a queued job has no process depends
on `requeue` being called only after the process ended, hence on what `running` says about `proc`, hence
on the pid in the row being that of the last process started. `QueueInv` says so in eight parts: attempts
are used in order and only the last can be alive; a job that waits has no process; a pid in a row is
current; a submission before its enqueue has no row; the job being started is claimed and not held; what
is held by handle is running with that pid, what is adopted may have been finished by a cancellation; a
dispatcher that recovers holds nothing that it has still to look at; and a recorded live process is held
or about to be recovered. The last one is not a matter of course: it fails if recovery forgets one live
process.

Most actions do not touch any of this, or only end processes and set flags; `QuietStep` settles them
together (`CliQuiet`, `RunnerQuiet`, `DaemonQuiet` show which they are). The others are start-up, crash
and stop (`LifeStep`), the ends of a job (`EndStep`, `ReapStep`, `RecoverStep`, `CancelOrphanStep`) and
the start in its three steps (`ClaimStep`, `SpawnStep`, `RecordPidStep`). `AttachedInv` adds who knows
that a submission was recorded; `SuccessInv` adds that whoever is about to write SUCCEEDED has a real
exit code of zero, on a row for which no process will be started again.

**The refinement.** `Abides` says of a row and its processes what `JobBackend` allows in one step, and
`AbidingStep` that a step in which every job abides is one of `JobBackend`. Each class of steps above then
abides, with `QueueInv` for the two that need it: a row is requeued, removed or claimed only when no
process is alive, and a process is spawned only for a row that has none.

**The argument for `RemotePlacement`.** `TypeOK` is not inductive: the verdict is a code only because the
record it is read from exists. `RemoteInv` says that a placed row, an answer that has arrived and
one on its way each name a record of that very job; that a job which is brought home has ended,
while its row still runs; that a process of `_submit-spec` is waited for or its job was cut; and,
which is `NoOrphan` made precise, that a live copy is followed by its row, by the claim about to be
made, or by the answer that becomes one. All of it rests on one fact about the node,
`RecordStep`: whatever happens, no record of its table is lost or renamed, and one that has ended no
longer changes (`TableStep` shows that a step is one of three kinds). `RowStep`, `SpecStep`, `CallStep`
and `EndStep` say the same of the other records; each part of the invariant then has one lemma.

`AloneInv` is why an idempotent submission needs no lock: unless two processes were at work for a job on
a node at once, or one missed an earlier copy, one that is about to insert found no live copy and is
alone (`NoRivals`, `InsertStep`), and once an id is followed by a row, a call or an answer, it is the
only copy that lives and no process is left that could add one (`FollowedFrom`, `SettledStays`).
`HomeInv` follows the results: a copy that is followed and alive has its worktree; one that ended with a
code where its row followed it has left results younger than the claim (`ZeroStep`); and the call that
drops the worktree comes after the one that brings them home (`BroughtStep`).

**The argument for `Snapshots`.** A cleaner acts on a list that is old. `SnapInv` says why that does no
harm: whatever is listed or being removed has ended and was recorded, or is removed by its own submission
(`MayRemove`, `RemoveInv`); no action leads back from a terminal state, so it stays so; and nothing that
is queued or runs has ended. What a submission has built at each of its steps is `SubmitInv`, with the
silent failures that explain what is missing or left over, when there may be a junction `LinkInv`, what a
queued job and a process need `RunInv`. `ProposedMayGo` and `RemovalTarget` are the two facts about
lists; then there is one lemma per action.

**The argument for `Admission`.** Devices belong to jobs that this dispatcher holds, baselines to jobs
that are held or adopted and do not share, and two jobs meet on a device only if both share. A start gives a
job either empty devices or ones all of whose occupants agreed; a reap or a restart takes away
exactly what belongs to the jobs that go.

**The argument for `Daemon`.** The pid key is a plain overwrite, so that it is right depends on who writes
it: only one that holds the lock (`DaemonMoves`), which a command line never takes from a dispatcher
(`ClientsLeaveTheLock`). That a request was made in the time of whoever obeys it depends on the order in the
code: the start drops every older request before the dispatcher counts as up, and the stop resets
the flag while it still holds the lock.

`LedgerHolds` and `SharedFits` add sums to that. A ledger grows only by a start (`LiveStep`), and `admit`
looked at the sum of what is there before it; the occupants of a card likewise (`OccupantsStep`: a
device loses occupants or gains the one that joins, who looked at what the others had declared). That
measured memory deceives does not matter, because the declared sum is looked at beside it.

**Sums, extremes and sequences without induction.** `SumFunctionOnSet` is a recursive definition, and
what a recursion does for every input cannot be proved by induction here. `SumProofs` uses the
smallest counterexample instead: among the finite sets at which two folds differ, or at which a law
fails, one has no other inside (`Smallest`, from the well-foundedness of inclusion), and taking out the
element the fold picks leads to a contradiction. So a sum is the sum of any member and the rest, grows
with its set, and depends on its members only. The same argument gives the first member of a finite set
(`FirstExists`), that `Served` and `Plans` are what their definitions say (`ServedUpTo`, `PlansIs`) and
that what every row keeps holds after the last (`UpTo`).

**The argument for `Scheduler`.** A row is read at the beginning of a pass and started later, and a
command line may have changed its request in between. So the ledger of *all* running jobs is not
bounded, and `LedgerHolds` says so by its condition; but that condition is not inductive, because a job
that was edited may end while one that was not goes on. `SchedulerInv` bounds the ledger of the jobs
that run as they were admitted, whoever else runs (`MatchedFits`): an edit only takes a job out of that
set (`MatchedShrinks`), and a start adds one for which `admit` had looked at the whole (`StartFits`).
`SlotsKept` says that the pass counts right whatever ends meanwhile, and `SkipsCount` that every skip was
counted for a request not refused before, which is what `LookAheadSpent` needs. Positions are kept by
sequences without repetition (`Ordered`), and the rows of a pass are one arrangement of the queued jobs,
so nothing has to be known of a sort.

**The argument for `NodeReports`.** A report is old news from the moment it is taken. `NodesInv` says what
is true of it all the same, wherever it is (in the cache, in the hands of the poller, in those of the
loop): if the node had nothing queued it adds up every job it knows of, those charged to it later
included (`ReportAddsUp`, `ChargeAddsUp`). So a report that knows all the jobs sent to its node, and all
that its owner runs, overstates the load, and what it admits fits (`AdmittedFits`); and between that
judgement and the shipment nothing but the owner can add to the load, because the loop ships one job at
a time (`InHand`).

**The argument for `Estimates`.** `EstimatesInv` says that every run in the window that is not torn is
measured against what its submitter last wrote, and that what is unrecorded of one that is not crossed is
that number, although the row has that number in a column of its own only while it was trimmed;
corrections, displacements and runs elsewhere keep it. Then a submission is trimmed by the worst ratio of
the runs that are read (`WorstIs`; ratios are compared by cross-multiplication, `RatiosChain`), which
covers every other run at its own scale (`CoversAll`) and, rounded up and with its margin, exceeds the
worst by half at most (`TrimBounds`).

**The argument for `Forecast`.** Row by row, `SoundSoFar` relates what the forecast holds to what is
really held, with `Working` and `Said` the numbers of slots held after a given time. The forecast never
holds fewer than are really held from the last start on (`Covers`), so a slot that it calls free is free
(`TurnIsEarly`), and the job gets it no later than the forecast says. That alone is not inductive: a job
that is blocked now keeps its slot, unknown, in the forecast, but may really start now and end before a
job behind it is said to start. `GivesLess` closes the gap (as long as nothing waits, the forecast gives
back no more slots than really become free), and `NotPast` says that the forecast does not go back in
time. Where every duration is known the two are equal (`ExactSoFar`). The condition that no more jobs run
than there are slots is what makes slots of the forecast slots of the machine (`SlotsIs`); without it the
claim is false (`NeverOptimistic`, section 6).

**Only model-checked.** Liveness, which is out of reach of the prover: `CancelHonoured`, `DisplacementEnds`,
`EndedJobSettles`, `PreparingSettles`, `HeadMovesOn`, `CancelSettles`, `Reclaimed`, `Placed`, `StopEnds` and
`ClaimEnds`. Every safety invariant and every action property of the runs is proved. The type invariants and
the inductive invariants are proved and no longer run; `SchedulerInv`, `AdmissionInv`, `EstimatesInv`,
`NodesInv` and the others were model-checked on the configurations of section 3 before they were proved.

## 6. Where code and documentation differ

`detach_doc` is a run: a submission whose second passthrough entry is refused removes its worktree with
`git worktree remove --force` and `rmtree` while the junction of the first is still in it
(`snapshot.py:252`), although `snapshot.py:414` says that junctions "must be unlinked *before* anything
recursive runs". `DataSafe` therefore excepts `Refusable` jobs.

### Known divergences, stated as properties

These are definitions of the modules, violated in the configuration named; put one in place of its
properties to see the trace.

| Property | Configuration | What the code does, and what is said |
|---|---|---|
| `Lifecycle!DisplacedReturns` | `MCOneJob.cfg` | A job that is stopped for a displacement is *finished* when the dispatcher restarts in between (`dispatcher.py:2071`, `:2269`). README.md:700: it "is **not** cancelled and has **not** failed: it returns to the queue". |
| `Scheduler!NoSurplusDisplacement` | `MCHoldLive.cfg` with `Profile <- MCSmall`, `OptIn = {2, 3}`, `MaxRun = 2` | While a first victim is still stopping, a second one is displaced for the same waiter (`dispatcher.py:704`). README.md:715: "so no work is destroyed for nothing". |
| `RemotePlacement!NoDuplicateWork` | `MCRemote.cfg` | When the answer of `_submit-spec` is lost the job is started on this machine as well (`dispatcher.py:1277`). docs/multi-node.md:1212: "No duplicate work." |
| `RemotePlacement!UncollectedKept` | `MCRemote.cfg` | The worktree is removed although the collector could not run (`dispatcher.py:1902`). The message at `dispatcher.py:1957`: "They are not lost - fetch them by hand". |
| `RemotePlacement!RealStateComesBack` | `MCRemote.cfg` | A job the node recorded as CANCELLED whose command ended with 0 is a success here (`dispatcher.py:1897`). docs/multi-node.md:703: "The job's real state comes back from the worker". |
| `NodeReports!NeverABacklog` | `MCNodes.cfg` | The poller stores a report it asked for before a start, and the charge for the start is gone. `_remote_admits`: "Nodes never hold a backlog". |
| `Estimates!AdviceIsGenerous` | `MCEstimates.cfg` | A submission that declares what the advice says is trimmed by the same fraction again, to less than the peak (`core.py:864`); and since advice looks at the trimmed reservation (`core.py:923`, `:517`), it is then advised to be raised. |
| `Estimates!PeakIsOfTheRun` | `MCEstimates.cfg` | A job measured here, displaced and sent to a node keeps the peak measured here. `core.py:1660`: "That should be impossible". |
| `Forecast!NeverOptimistic` | `MCEstimates.cfg` | More jobs run than there are slots (on other machines, or after the concurrency was lowered): each counts as a slot, and the forecast is too early (`eta.py:341`). `forecast_queue`: "rather than silently optimistic". |

### Further observations made while modelling

The models follow the code in each of these; none has a property of its own.

- *Queue.* A row left by a submission that died before recording it is started, refused by its runner
  and finished, and does not wait for `reconcile` to attach it. Of several victims the first to stop may
  take its room back by backfill while the job it was displaced for still waits. The rank 0 of a
  critical job reads as 100 (`or 100`, `dispatcher.py:665`).
- *Admission.* The devices of an adopted job look free to the next one. A probe that fails starts an
  exclusive job without a device (`dispatcher.py:452`). A shared occupant without declared VRAM counts as
  0. `_reject_impossible` looks neither at the number of devices nor at the size of one card.
- *Daemon.* `workerq restart` ignores the answer of `shutdown` and reports success although the old
  dispatcher may still be up (`cli.py:1461`). A tick that fails skips its look at the shutdown flag. The
  watchdog's 180 s are shorter than the timeouts of a shipment, so a long transfer ends the dispatcher
  (`Watchdog` from `InTick`). `daemon_running` may see the probe of another command for a dispatcher
  (`local_dispatcher.py:82`). Two writers of the reserve, or a command that dies between the amount and
  the deadline, can leave a temporary claim for good (`torn`).
- *Snapshots.* A local removal goes on through a junction that could not be detached (`snapshot.py:482`,
  `:494`, `:419`), where the one on a node stops: "must not be walked through" (`staging.py:639`). A
  submission that was killed, or failed and could not remove what it had made, leaves a directory that no
  plan lists, because its row exists and names no snapshot. A cleaner that dies between tree and ref, or
  whose deletion of the ref fails, leaves the ref. `config.py:70` says that recent snapshots are "kept
  regardless of age", but the age limit comes first. `create_copy_snapshot` leaves a partial copy behind
  when it fails.
- *Nodes.* `staging.py:541` takes a worktree at the right commit for "exactly what we would have built",
  which it is not after a checkout that was cut short. `_repo_ready_cache` is keyed by node and
  repository (`dispatcher.py:1350`): the answer for one job serves another that needs more data. A pinned
  job skips that check altogether (`dispatcher.py:1228`). When the listing of the clones fails,
  `remote_repo_path` falls back to the directory name, which its docstring reserves for a repository
  without origin. The delay of a node that was down is never reset. A correction by `set_requests` does
  not reach `remote_spec_json`. When the look of `_submit-spec` for an earlier submission fails, a second
  copy is made in the same worktree, which the end of the first removes.
- *History.* A correction by a command that dies between the two databases, or two that cross, leave a
  run measured against a number its submitter had given up (`core.py:1422`, `:1437`). A suggestion is
  capped at what is usable and may be below the peak. "A job with an unknown duration makes everything
  behind it unknown too" holds for one slot only; with more, only what waits for that slot becomes
  unknown. README.md:166 says that below the hard stop commit "only blocks when physical RAM is short
  too"; `admit` blocks whenever the commit of the job does not fit below the ceiling of the pagefile
  (`resources.py:408`).

## 7. Not modelled

- `trim_finished`, `set_slots` while jobs run, per-project priorities: settings whose effect is one
  statement. Lowering the slots leaves the jobs in flight above them until some end.
- The thresholds and the debounce of memory pressure: its victim is chosen in `Scheduler` at any moment.
- Bundles, inputs and the copy of outputs: they decide whether a shipment or a collection fails, which
  the models leave open. `create_copy_snapshot`, for projects without git.
- Job objects, process priorities and the environment of a job: calls of the operating system.
- Configuration, probes, telemetry, usage and reports: inputs and displays. No decision reads them but
  through the values the models take as constants or inputs.
- Dashboard, web application, MCP server and the parsing and printing of the CLI: they change no job
  except through the core service.
- Doctor, preflight, travel and policy files: diagnostics; a preflight that fails is a step of a
  submission in `Lifecycle` and `Snapshots`.

Worth doing next: a pass of `Scheduler` that also offers rows to nodes; and the promise of the hold as a
safety property, a bound on what overtakes a held job within its budget.
