--------------------------- MODULE LifecycleProofs ---------------------------
(****************************************************************************)
(* The life of a job, for every set of jobs and every bound: types, what    *)
(* the queue promises, the slots, what the recorded state of a job says     *)
(* about its processes, and the refinement of JobBackend.                   *)
(****************************************************************************)
EXTENDS LifecycleInvariants, FiniteSetTheorems, TLAPS

----------------------------------------------------------------------------
(* TYPES.  First what the helpers preserve, then what each actor preserves. *)

----------------------------------------------------------------------------
(* Types of the helpers.                                                    *)

\* The initial records have the types of the variables they initialise.
LEMMA InitialRecords == NoProc \in Proc /\ NoRec \in Reconciler /\ NoRow \in Row /\ NewRow \in Row
<1>1. NoProc \in Proc
  BY DEF NoProc, Proc, ProcPhase, ExitCodes
<1>2. NoRec \in Reconciler
  BY DEF NoRec, Reconciler, JobState, ACTIVE_STATES, TERMINAL_STATES
<1>3. NoRow \in Row
  BY LifecycleAssumption DEF NoRow, Row, BackendState, ExitCodes, NoCode
<1>4. NewRow \in Row
  BY <1>3 DEF NewRow, Row, BackendState
<1> QED
  BY <1>1, <1>2, <1>3, <1>4

\* A write to jobs.state, accepted or not, leaves a state of the same type.
LEMMA WriteStateType ==
  ASSUME TypeOK, NEW j \in Jobs, NEW target \in JobState, WriteState(j, target)
  PROVE  state' \in [Jobs -> JobState \cup {"NONE"}]
  BY DEF TypeOK, WriteState, TryUpdate

\* A runner's step changes one attempt.
LEMMA BecomesType ==
  ASSUME TypeOK, NEW j \in Jobs, NEW a \in Attempts, NEW p \in Proc, Becomes(j, a, p)
  PROVE  proc' \in [Jobs -> [Attempts -> Proc]]
  BY DEF TypeOK, Becomes

\* The transactions on a row keep it a row.
LEMMA FinishType ==
  ASSUME TypeOK, NEW j \in Jobs, NEW code \in ExitCodes \cup {NoCode}, finish(j, code)
  PROVE  row' \in [Jobs -> Row]
<1> DEFINE r == [row[j] EXCEPT !.state = "FINISHED", !.code = code, !.pid = 0]
<1>1. row[j] \in Row /\ 0 \in 0..MaxStarts
  BY LifecycleAssumption DEF TypeOK
<1>2. r \in Row
  BY <1>1 DEF Row, BackendState
<1>3. row' = [row EXCEPT ![j] = r]
  BY DEF finish
<1> QED
  BY <1>2, <1>3 DEF TypeOK

LEMMA RequeueType ==
  ASSUME TypeOK, NEW j \in Jobs, requeue(j)
  PROVE  row' \in [Jobs -> Row]
<1> DEFINE r == [row[j] EXCEPT !.state = "QUEUED", !.pid = 0, !.preempt = FALSE]
<1>1. row[j] \in Row /\ 0 \in 0..MaxStarts
  BY LifecycleAssumption DEF TypeOK
<1>2. r \in Row
  BY <1>1 DEF Row, BackendState
<1>3. row' = [row EXCEPT ![j] = r]
  BY DEF requeue
<1> QED
  BY <1>2, <1>3 DEF TypeOK

LEMMA RemoveType ==
  ASSUME TypeOK, NEW j \in Jobs, remove_queued(j)
  PROVE  row' \in [Jobs -> Row]
<1> DEFINE r == [row[j] EXCEPT !.state = "REMOVED"]
<1>1. row[j] \in Row
  BY DEF TypeOK
<1>2. r \in Row
  BY <1>1 DEF Row, BackendState
<1>3. row' = [row EXCEPT ![j] = r]
  BY DEF remove_queued
<1> QED
  BY <1>2, <1>3 DEF TypeOK

LEMMA PreemptType ==
  ASSUME TypeOK, NEW victims \in SUBSET Jobs, request_preempt(victims)
  PROVE  row' \in [Jobs -> Row]
<1> DEFINE Flagged(q, k) == [q EXCEPT !.preempt = q.preempt \/ k \in victims]
<1>1. \A q \in Row, k \in Jobs : Flagged(q, k) \in Row
  BY DEF Row
<1>2. row' = [k \in Jobs |-> Flagged(row[k], k)]
  BY DEF request_preempt
<1>3. \A k \in Jobs : row[k] \in Row
  BY DEF TypeOK
<1> HIDE DEF Flagged
<1> QED
  BY <1>1, <1>2, <1>3

\* Spending a bound does not exceed it.
LEMMA SpendType ==
  ASSUME TypeOK, NEW b \in Bounds, Spend(b)
  PROVE  used' \in [Bounds -> Nat] /\ \A c \in Bounds : used'[c] <= Limit(c)
  BY LifecycleAssumption DEF TypeOK, Spend, Bounds, Limit

----------------------------------------------------------------------------
(* Type correctness.                                                        *)

LEMMA TypeSubmit ==
  ASSUME TypeOK, NEW j \in Jobs, Submitter(j)
  PROVE  TypeOK'
<1> USE DEF dbVars, procVars, daemonVars, cliVars, JobState, ACTIVE_STATES, TERMINAL_STATES
<1>1. CASE SubmitInsert(j)
  BY <1>1 DEF TypeOK, SubmitInsert, SubmitPc
<1>2. CASE SubmitPrepareFails(j)
  BY <1>2, WriteStateType DEF TypeOK, SubmitPrepareFails, SubmitPc
<1>3. CASE SubmitEnqueue(j)
  BY <1>3, InitialRecords DEF TypeOK, SubmitEnqueue, SubmitPc
<1>4. CASE SubmitRecord(j)
  BY <1>4 DEF TypeOK, SubmitRecord, SubmitPc
<1>5. CASE SubmitEnd(j)
  <2>1. state' \in [Jobs -> JobState \cup {"NONE"}]
    BY <1>5, WriteStateType DEF TypeOK, SubmitEnd
  <2>2. used' \in [Bounds -> Nat] /\ \A b \in Bounds : used'[b] <= Limit(b)
    <3>1. "faults" \in Bounds
      BY DEF Bounds
    <3>2. CASE Spend("faults")
      BY <3>1, <3>2, SpendType
    <3>3. CASE used' = used
      BY <3>3 DEF TypeOK
    <3> QED
      BY <1>5, <3>2, <3>3 DEF SubmitEnd
  <2> QED
    BY <1>5, <2>1, <2>2 DEF TypeOK, SubmitEnd, SubmitPc
<1>6. CASE SubmitCrash(j)
  BY <1>6, SpendType DEF TypeOK, SubmitCrash, SubmitPc, Bounds
<1> QED
  BY <1>1, <1>2, <1>3, <1>4, <1>5, <1>6 DEF Submitter

LEMMA TypeRunner ==
  ASSUME TypeOK, NEW j \in Jobs, NEW a \in Attempts, Runner(j, a)
  PROVE  TypeOK'
<1> USE DEF dbVars, procVars, daemonVars, cliVars, Proc, ProcPhase, ExitCodes
<1>0. /\ proc[j][a] \in Proc /\ NoProc \in Proc /\ state[j] \in JobState \cup {"NONE"}
      /\ "QUEUED" \in JobState /\ "CANCELLED" \in JobState /\ "SUCCEEDED" \in JobState
      /\ "FAILED" \in JobState /\ "RUNNING" \in JobState /\ TERMINAL_STATES \subseteq JobState
  BY DEF TypeOK, NoProc, JobState, ACTIVE_STATES, TERMINAL_STATES
<1>1. CASE RunnerRefuse(j, a)
  BY <1>0, <1>1, BecomesType DEF TypeOK, RunnerRefuse, NoProc
<1>2. CASE RunnerFails(j, a)
  BY <1>0, <1>2, BecomesType, WriteStateType DEF TypeOK, RunnerFails, NoProc
<1>3. CASE RunnerBegin(j, a)
  <2>1. proc' \in [Jobs -> [Attempts -> Proc]]
    BY <1>0, <1>3, BecomesType DEF RunnerBegin
  <2>2. state' \in [Jobs -> JobState \cup {"NONE"}]
    BY <1>0, <1>3 DEF TypeOK, RunnerBegin
  <2> QED
    BY <1>3, <2>1, <2>2 DEF TypeOK, RunnerBegin
<1>4. CASE RunnerWatch(j, a)
  BY <1>0, <1>4, BecomesType DEF TypeOK, RunnerWatch
<1>5. CASE CommandEnds(j, a)
  BY <1>0, <1>5, BecomesType DEF TypeOK, CommandEnds
<1>6. CASE RunnerFinish(j, a)
  <2>1. Outcome(j, proc[j][a]) \in JobState
    BY <1>0 DEF Outcome
  <2> QED
    BY <1>0, <1>6, <2>1, BecomesType, WriteStateType DEF TypeOK, RunnerFinish
<1>7. CASE RunnerDies(j, a)
  BY <1>0, <1>7, BecomesType, SpendType DEF TypeOK, RunnerDies, Kill, NoProc, Bounds
<1> QED
  BY <1>1, <1>2, <1>3, <1>4, <1>5, <1>6, <1>7 DEF Runner

\* A pass looks at jobs.
LEMMA AgendaType == \A ph : Agenda(ph) \subseteq Jobs
  BY DEF Agenda

LEMMA TypeDaemonLife ==
  ASSUME TypeOK, DaemonCrash \/ DaemonStop \/ DaemonStart \/ PassEnds \/ TickBegins
  PROVE  TypeOK'
<1> USE DEF dbVars, procVars, daemonVars, cliVars, Phases
<1>0. "crashes" \in Bounds /\ 0 \in 0..MaxStarts
  BY LifecycleAssumption DEF Bounds
<1>1. CASE DaemonCrash
  BY <1>0, <1>1, SpendType DEF TypeOK, DaemonCrash, Down
<1>2. CASE DaemonStop
  BY <1>0, <1>2, SpendType DEF TypeOK, DaemonStop, Down
<1>3. CASE DaemonStart
  BY <1>3 DEF TypeOK, DaemonStart
<1>4. CASE PassEnds
  <2>1. phase' \in Phases
    BY <1>4 DEF PassEnds, Then
  <2>2. todo' \subseteq Jobs
    BY <1>4, AgendaType DEF PassEnds
  <2> QED
    BY <1>4, <2>1, <2>2 DEF TypeOK, PassEnds
<1>5. CASE TickBegins
  <2>1. todo' \subseteq Jobs
    BY <1>5, AgendaType DEF TickBegins
  <2>2. CASE UNCHANGED <<row, used>>
    BY <1>5, <2>1, <2>2 DEF TypeOK, TickBegins
  <2>3. CASE \E v \in Preemptible : Ours(v) /\ request_preempt({v})
    <3>1. PICK v \in Preemptible : request_preempt({v})
      BY <2>3
    <3>2. row' \in [Jobs -> Row]
      BY <3>1, LifecycleAssumption, PreemptType
    <3>3. Spend("preempts") /\ "preempts" \in Bounds
      BY <3>1 DEF request_preempt, Bounds
    <3> QED
      BY <1>5, <2>1, <3>2, <3>3, SpendType DEF TypeOK, TickBegins
  <2> QED
    BY <1>5, <2>2, <2>3 DEF TickBegins
<1> QED
  BY <1>1, <1>2, <1>3, <1>4, <1>5

LEMMA TypeReap ==
  ASSUME TypeOK, NEW j \in Jobs,
         Recover(j) \/ PollAlive(j) \/ Reap(j) \/ ReapAdopted(j) \/ ReapFault(j)
  PROVE  TypeOK'
<1> USE DEF dbVars, procVars, daemonVars, cliVars, Phases, Visit
<1>0. /\ 0 \in 0..MaxStarts /\ NoCode \in ExitCodes \cup {NoCode}
      /\ row[j] \in Row /\ row[j].pid \in 0..MaxStarts /\ running[j] \in 0..MaxStarts
  BY LifecycleAssumption DEF TypeOK, Row
<1>1. CASE Recover(j)
  BY <1>0, <1>1, FinishType DEF TypeOK, Recover
<1>2. CASE PollAlive(j)
  BY <1>2 DEF TypeOK, PollAlive
<1>3. CASE Reap(j)
  <2>1. running[j] # 0 => proc[j][running[j]].code \in ExitCodes
    <3>1. running[j] # 0 => running[j] \in Attempts
      BY <1>0, LifecycleAssumption DEF Attempts
    <3> QED
      BY <3>1 DEF TypeOK, Proc
  <2>2. row' \in [Jobs -> Row]
    BY <1>3, <2>1, FinishType, RequeueType DEF Reap
  <2> QED
    BY <1>0, <1>3, <2>2 DEF TypeOK, Reap
<1>4. CASE ReapAdopted(j)
  BY <1>0, <1>4, FinishType DEF TypeOK, ReapAdopted
<1>5. CASE ReapFault(j)
  <2>1. "faults" \in Bounds
    BY DEF Bounds
  <2> QED
    BY <1>0, <1>5, <2>1, SpendType DEF TypeOK, ReapFault
<1> QED
  BY <1>1, <1>2, <1>3, <1>4, <1>5

LEMMA TypeStop ==
  ASSUME TypeOK, NEW j \in Jobs,
         CancelQueued(j) \/ CancelOwned(j) \/ CancelOrphan(j) \/ Backstop(j)
  PROVE  TypeOK'
<1> USE DEF dbVars, procVars, daemonVars, cliVars, Visit
<1>0. /\ "nonzero" \in ExitCodes \cup {NoCode}
      /\ [NoProc EXCEPT !.ph = "exited"] \in Proc
      /\ \A a \in Attempts : [proc[j][a] EXCEPT !.sawCancel = TRUE] \in Proc
      /\ \A a : a \in 0..MaxStarts /\ a # 0 => a \in Attempts
      /\ row[j].pid \in 0..MaxStarts /\ running[j] \in 0..MaxStarts
  <2>1. "nonzero" \in ExitCodes \cup {NoCode}
    BY DEF ExitCodes
  <2>2. [NoProc EXCEPT !.ph = "exited"] \in Proc
    BY DEF NoProc, Proc, ProcPhase, ExitCodes
  <2>3. \A a \in Attempts : [proc[j][a] EXCEPT !.sawCancel = TRUE] \in Proc
    <3>1. \A p \in Proc : [p EXCEPT !.sawCancel = TRUE] \in Proc
      BY DEF Proc
    <3> QED
      BY <3>1 DEF TypeOK
  <2>4. \A a : a \in 0..MaxStarts /\ a # 0 => a \in Attempts
    BY LifecycleAssumption DEF Attempts
  <2>5. row[j].pid \in 0..MaxStarts /\ running[j] \in 0..MaxStarts
    BY DEF TypeOK, Row
  <2> QED
    BY <2>1, <2>2, <2>3, <2>4, <2>5
<1>1. CASE CancelQueued(j)
  BY <1>1, RemoveType DEF TypeOK, CancelQueued
<1>2. CASE CancelOwned(j)
  <2>1. running[j] \in Attempts
    BY <1>0, <1>2 DEF CancelOwned
  <2>2. proc' \in [Jobs -> [Attempts -> Proc]]
    <3>1. CASE UNCHANGED proc
      BY <3>1 DEF TypeOK
    <3>2. CASE Becomes(j, running[j], [proc[j][running[j]] EXCEPT !.sawCancel = TRUE])
      BY <1>0, <2>1, <3>2, BecomesType
    <3>3. CASE Kill(j, running[j])
      BY <1>0, <2>1, <3>3, BecomesType DEF Kill
    <3> QED
      BY <1>2, <3>1, <3>2, <3>3 DEF CancelOwned
  <2> QED
    BY <1>2, <2>2 DEF TypeOK, CancelOwned
<1>3. CASE CancelOrphan(j)
  <2>1. proc' \in [Jobs -> [Attempts -> Proc]]
    <3>1. CASE UNCHANGED proc
      BY <3>1 DEF TypeOK
    <3>2. CASE Alive(j, row[j].pid) /\ Kill(j, row[j].pid)
      BY <1>0, <3>2, BecomesType DEF Kill, Alive
    <3> QED
      BY <1>3, <3>1, <3>2 DEF CancelOrphan
  <2>2. row' \in [Jobs -> Row]
    BY <1>0, <1>3, FinishType DEF TypeOK, CancelOrphan
  <2> QED
    BY <1>3, <2>1, <2>2 DEF TypeOK, CancelOrphan
<1>4. CASE Backstop(j)
  <2> DEFINE a == IF running[j] # 0 THEN running[j] ELSE row[j].pid
  <2>1. CASE UNCHANGED proc
    BY <1>4, <2>1 DEF TypeOK, Backstop
  <2>2. CASE Alive(j, a) /\ Kill(j, a)
    <3>1. proc' \in [Jobs -> [Attempts -> Proc]]
      BY <1>0, <2>2, BecomesType DEF Kill, Alive
    <3> QED
      BY <1>4, <3>1 DEF TypeOK, Backstop
  <2> QED
    BY <1>4, <2>1, <2>2 DEF Backstop
<1> QED
  BY <1>1, <1>2, <1>3, <1>4

\* A job is claimed only while the bound on its starts leaves room for one.
RoomToStart == phase = "claimed" => \A j \in starting : starts[j] < MaxStarts

LEMMA TypeStart ==
  ASSUME TypeOK, RoomToStart, NEW j \in Jobs, PassOver(j) \/ Claim(j) \/ Spawn(j) \/ RecordPid(j)
  PROVE  TypeOK'
<1> USE DEF dbVars, procVars, daemonVars, cliVars, Visit, Phases
<1>0. /\ "preempts" \in Bounds /\ "faults" \in Bounds /\ "nonzero" \in ExitCodes \cup {NoCode}
      /\ starts[j] \in 0..MaxStarts
  BY DEF TypeOK, Bounds, ExitCodes
<1>1. CASE PassOver(j)
  <2>1. CASE UNCHANGED <<row, used>>
    BY <1>1, <2>1 DEF TypeOK, PassOver
  <2>2. CASE \E victims \in SUBSET {v \in Preemptible : Ours(v)} : request_preempt(victims)
    <3>1. PICK victims \in SUBSET Jobs : request_preempt(victims)
      BY <2>2, LifecycleAssumption
    <3>2. row' \in [Jobs -> Row]
      BY <3>1, PreemptType
    <3>3. Spend("preempts")
      BY <3>1 DEF request_preempt
    <3> QED
      BY <1>0, <1>1, <3>2, <3>3, SpendType DEF TypeOK, PassOver
  <2> QED
    BY <1>1, <2>1, <2>2 DEF PassOver
<1>2. CASE Claim(j)
  <2>1. [row EXCEPT ![j].state = "RUNNING"] \in [Jobs -> Row]
    BY DEF TypeOK, Row, BackendState
  <2> QED
    BY <1>2, <2>1 DEF TypeOK, Claim
<1>3. CASE Spawn(j)
  <2>1. CASE finish(j, "nonzero") /\ phase' = "start" /\ starting' = {}
                /\ Spend("faults") /\ UNCHANGED procVars
    BY <1>0, <1>3, <2>1, FinishType, SpendType DEF TypeOK, Spawn
  <2>2. CASE /\ starts' = [starts EXCEPT ![j] = @ + 1]
             /\ Becomes(j, starts[j] + 1, [NoProc EXCEPT !.ph = "boot"])
             /\ phase' = "spawned"
             /\ UNCHANGED <<row, starting, used>>
    <3>1. starts[j] + 1 \in Attempts
      BY <1>0, <1>3, LifecycleAssumption DEF Spawn, Attempts, RoomToStart
    <3>2. proc' \in [Jobs -> [Attempts -> Proc]]
      <4>1. [NoProc EXCEPT !.ph = "boot"] \in Proc
        BY DEF NoProc, Proc, ProcPhase, ExitCodes
      <4> QED
        BY <2>2, <3>1, <4>1, BecomesType
    <3>3. starts[j] + 1 \in 0..MaxStarts
      BY <3>1, LifecycleAssumption DEF Attempts
    <3>4. starts' \in [Jobs -> 0..MaxStarts]
      BY <2>2, <3>3 DEF TypeOK
    <3> QED
      BY <1>3, <2>2, <3>2, <3>4 DEF TypeOK, Spawn
  <2> QED
    BY <1>3, <2>1, <2>2 DEF Spawn
<1>4. CASE RecordPid(j)
  <2>1. CASE /\ row' = [row EXCEPT ![j].pid = starts[j]]
             /\ running' = [running EXCEPT ![j] = starts[j]]
             /\ phase' = "start"
             /\ UNCHANGED <<todo, used>>
    <3>1. row[j] \in Row /\ starts[j] \in 0..MaxStarts
      BY DEF TypeOK
    <3>2. [row[j] EXCEPT !.pid = starts[j]] \in Row
      BY <3>1 DEF Row
    <3>3. row' = [row EXCEPT ![j] = [row[j] EXCEPT !.pid = starts[j]]]
      BY <2>1
    <3>4. row' \in [Jobs -> Row]
      BY <3>2, <3>3 DEF TypeOK
    <3> QED
      BY <1>0, <1>4, <2>1, <3>4 DEF TypeOK, RecordPid
  <2>2. CASE phase' = "sample" /\ todo' = {} /\ Spend("faults") /\ UNCHANGED <<row, running>>
    BY <1>0, <1>4, <2>2, SpendType DEF TypeOK, RecordPid
  <2> QED
    BY <1>4, <2>1, <2>2 DEF RecordPid
<1> QED
  BY <1>1, <1>2, <1>3, <1>4

LEMMA TypeCancel ==
  ASSUME TypeOK, NEW j \in Jobs, Canceller(j)
  PROVE  TypeOK'
<1> USE DEF dbVars, procVars, daemonVars, cliVars, CancelTo, CancelPc
<1>0. "CANCELLED" \in JobState
  BY DEF JobState, TERMINAL_STATES
<1>1. CASE CancelBegin(j)
  BY <1>1 DEF TypeOK, CancelBegin
<1>2. CASE CancelLook(j)
  BY <1>2 DEF TypeOK, CancelLook
<1>3. CASE CancelRemove(j)
  BY <1>3, RemoveType DEF TypeOK, CancelRemove
<1>4. CASE CancelRequest(j)
  <2>1. [row EXCEPT ![j].cancel = TRUE] \in [Jobs -> Row]
    <3> DEFINE r == [row[j] EXCEPT !.cancel = TRUE]
    <3>1. row[j] \in Row
      BY DEF TypeOK
    <3>2. r \in Row
      BY <3>1 DEF Row
    <3>3. [row EXCEPT ![j].cancel = TRUE] = [row EXCEPT ![j] = r]
      OBVIOUS
    <3> QED
      BY <3>2, <3>3 DEF TypeOK
  <2> QED
    BY <1>4, <2>1 DEF TypeOK, CancelRequest
<1>5. CASE CancelWait(j)
  BY <1>5 DEF TypeOK, CancelWait
<1>6. CASE CancelMark(j)
  BY <1>0, <1>6, WriteStateType DEF TypeOK, CancelMark
<1>7. CASE CancelFinished(j)
  <2>1. map_backend_state(row[j].state, row[j].code) \in JobState
    BY DEF TypeOK, Row, BackendState, map_backend_state, JobState, ACTIVE_STATES,
       TERMINAL_STATES
  <2>2. state' \in [Jobs -> JobState \cup {"NONE"}]
    BY <1>7, <2>1, WriteStateType DEF TypeOK, CancelFinished
  <2> QED
    BY <1>7, <2>2 DEF TypeOK, CancelFinished
<1> QED
  BY <1>1, <1>2, <1>3, <1>4, <1>5, <1>6, <1>7 DEF Canceller

\* The reconciling CLI remembers a state it read or one it is about to write.
LEMMA RecType ==
  ASSUME TypeOK, NEW j \in Jobs, NEW r \in Reconciler, RecTo(j, r)
  PROVE  rec' \in [Jobs -> Reconciler]
  BY DEF TypeOK, RecTo

LEMMA TypeReconcile ==
  ASSUME TypeOK, NEW j \in Jobs, Reconcile(j)
  PROVE  TypeOK'
<1> USE DEF dbVars, procVars, daemonVars, cliVars
<1>0. /\ "LOST" \in JobState /\ "QUEUED" \in JobState /\ NoRec \in Reconciler
      /\ map_backend_state(row[j].state, row[j].code) \in JobState
      /\ rec[j] \in Reconciler /\ rec[j].target \in JobState /\ backendId[j] \in BOOLEAN
  <2>1. map_backend_state(row[j].state, row[j].code) \in JobState
    BY DEF TypeOK, Row, BackendState, map_backend_state, JobState, ACTIVE_STATES,
       TERMINAL_STATES
  <2>2. rec[j] \in Reconciler /\ rec[j].target \in JobState /\ backendId[j] \in BOOLEAN
    BY DEF TypeOK, Reconciler
  <2> QED
    BY <2>1, <2>2, InitialRecords DEF JobState, ACTIVE_STATES, TERMINAL_STATES
<1>1. CASE ReconcileList(j)
  <2>1. state[j] \in JobState
    BY <1>1 DEF ReconcileList, JobState
  <2>2. [NoRec EXCEPT !.pc = "listed", !.seen = state[j], !.attached = backendId[j]] \in Reconciler
    BY <1>0, <2>1 DEF Reconciler, NoRec
  <2> QED
    BY <1>1, <2>2, RecType DEF TypeOK, ReconcileList
<1>2. CASE ReconcileStale(j)
  <2>1. state' \in [Jobs -> JobState \cup {"NONE"}]
    BY <1>0, <1>2, WriteStateType DEF TypeOK, ReconcileStale
  <2> QED
    BY <1>0, <1>2, <2>1, RecType DEF TypeOK, ReconcileStale
<1>3. CASE ReconcileRead(j)
  <2> DEFINE target == map_backend_state(row[j].state, row[j].code)
  <2>1. [NoRec EXCEPT !.pc = "got", !.target = target] \in Reconciler
    <3>1. \A t \in JobState : [NoRec EXCEPT !.pc = "got", !.target = t] \in Reconciler
      BY <1>0 DEF Reconciler, NoRec
    <3> QED
      BY <1>0, <3>1
  <2>2. \/ RecTo(j, NoRec)
        \/ RecTo(j, [NoRec EXCEPT !.pc = "got", !.target = target])
    BY <1>3 DEF ReconcileRead
  <2>3. rec' \in [Jobs -> Reconciler]
    BY <1>0, <2>1, <2>2, RecType
  <2> QED
    BY <1>3, <2>3 DEF TypeOK, ReconcileRead
<1>4. CASE ReconcileWrite(j)
  BY <1>0, <1>4, WriteStateType, RecType DEF TypeOK, ReconcileWrite
<1>5. CASE OrphanList(j)
  <2>1. [NoRec EXCEPT !.pc = "orphan"] \in Reconciler
    BY <1>0 DEF Reconciler, NoRec
  <2> QED
    BY <1>5, <2>1, RecType DEF TypeOK, OrphanList
<1>6. CASE OrphanAttach(j)
  <2>1. state' \in [Jobs -> JobState \cup {"NONE"}]
    BY <1>0, <1>6, WriteStateType DEF TypeOK, OrphanAttach
  <2>2. backendId' \in [Jobs -> BOOLEAN]
    BY <1>6 DEF TypeOK, OrphanAttach
  <2> QED
    BY <1>0, <1>6, <2>1, <2>2, RecType DEF TypeOK, OrphanAttach
<1> QED
  BY <1>1, <1>2, <1>3, <1>4, <1>5, <1>6 DEF Reconcile

----------------------------------------------------------------------------
(* What the actors leave alone.                                             *)

\* The command-line programs touch neither the processes nor the dispatcher.
LEMMA CliFrame ==
  ASSUME NEW j \in Jobs, Submitter(j) \/ Canceller(j) \/ Reconcile(j)
  PROVE  UNCHANGED <<proc, starts, phase, todo, starting, running, adopted>>
<1> USE DEF dbVars, procVars, daemonVars, cliVars
<1>1. CASE Submitter(j)
  BY <1>1 DEF Submitter, SubmitInsert, SubmitPrepareFails, SubmitEnqueue, SubmitRecord,
              SubmitEnd, SubmitCrash
<1>2. CASE Canceller(j)
  BY <1>2 DEF Canceller, CancelBegin, CancelLook, CancelRemove, CancelRequest, CancelWait,
              CancelMark, CancelFinished
<1>3. CASE Reconcile(j)
  BY <1>3 DEF Reconcile, ReconcileList, ReconcileStale, ReconcileRead, ReconcileWrite,
              OrphanList, OrphanAttach
<1> QED
  BY <1>1, <1>2, <1>3

\* A runner changes its own process and the state of its job.
LEMMA RunnerFrame ==
  ASSUME NEW j \in Jobs, NEW a \in Attempts, Runner(j, a)
  PROVE  UNCHANGED <<backendId, row, starts, phase, todo, starting, running, adopted,
                     submit, cancel, rec>>
<1> USE DEF dbVars, procVars, daemonVars, cliVars
<1>1. CASE RunnerRefuse(j, a) \/ RunnerFails(j, a)
  BY <1>1 DEF RunnerRefuse, RunnerFails
<1>2. CASE RunnerBegin(j, a)
  BY <1>2 DEF RunnerBegin
<1>3. CASE RunnerWatch(j, a)
  BY <1>3 DEF RunnerWatch
<1>4. CASE CommandEnds(j, a)
  BY <1>4 DEF CommandEnds
<1>5. CASE RunnerFinish(j, a) \/ RunnerDies(j, a)
  BY <1>5 DEF RunnerFinish, RunnerDies
<1> QED
  BY <1>1, <1>2, <1>3, <1>4, <1>5 DEF Runner

\* Only the dispatcher claims and starts jobs.
LEMMA RoomStep == TypeOK /\ RoomToStart /\ [Next]_vars => RoomToStart'
<1> SUFFICES ASSUME TypeOK, RoomToStart, [Next]_vars PROVE RoomToStart'
  OBVIOUS
<1> USE DEF RoomToStart, dbVars, procVars, daemonVars, cliVars
<1>1. CASE UNCHANGED <<phase, starting, starts>>
  BY <1>1
<1>2. CASE phase' # "claimed"
  BY <1>2
<1>3. ASSUME NEW j \in Jobs, Claim(j) PROVE RoomToStart'
  BY <1>3 DEF Claim, Visit
<1>4. \/ UNCHANGED <<phase, starting, starts>> \/ phase' # "claimed"
      \/ \E j \in Jobs : Claim(j)
  <2>1. CASE \E j \in Jobs : Submitter(j) \/ Canceller(j) \/ Reconcile(j)
    BY <2>1, CliFrame
  <2>2. CASE \E j \in Jobs, a \in Attempts : Runner(j, a)
    BY <2>2, RunnerFrame
  <2>3. CASE Daemon
    <3>1. CASE DaemonCrash \/ DaemonStop \/ DaemonStart \/ TickBegins
      BY <3>1 DEF DaemonCrash, DaemonStop, Down, DaemonStart, TickBegins
    <3>2. CASE PassEnds
      BY <3>2 DEF PassEnds, Then
    <3>3. ASSUME NEW j \in Jobs,
                 Recover(j) \/ PollAlive(j) \/ Reap(j) \/ ReapAdopted(j) \/ ReapFault(j)
          PROVE  UNCHANGED <<phase, starting, starts>> \/ phase' # "claimed"
      BY <3>3 DEF Recover, PollAlive, Reap, ReapAdopted, ReapFault
    <3>4. ASSUME NEW j \in Jobs,
                 CancelQueued(j) \/ CancelOwned(j) \/ CancelOrphan(j) \/ Backstop(j)
          PROVE  UNCHANGED <<phase, starting, starts>>
      BY <3>4 DEF CancelQueued, CancelOwned, CancelOrphan, Backstop
    <3>5. ASSUME NEW j \in Jobs, PassOver(j) \/ Spawn(j) \/ RecordPid(j)
          PROVE  UNCHANGED <<phase, starting, starts>> \/ phase' # "claimed"
      BY <3>5 DEF PassOver, Spawn, RecordPid
    <3> QED
      BY <2>3, <3>1, <3>2, <3>3, <3>4, <3>5 DEF Daemon, DaemonOn
  <2> QED
    BY <2>1, <2>2, <2>3, LifecycleAssumption DEF Next, vars
<1> QED
  BY <1>1, <1>2, <1>3, <1>4

\* Every variable keeps its type in every behaviour, whatever the bounds.
THEOREM TypeCorrect == Spec => []TypeOK
<1>1. Init => TypeOK /\ RoomToStart
  BY InitialRecords, LifecycleAssumption
     DEF Init, TypeOK, RoomToStart, Phases, SubmitPc, CancelPc, Bounds, Limit
<1>2. TypeOK /\ RoomToStart /\ [Next]_vars => TypeOK'
  <2> SUFFICES ASSUME TypeOK, RoomToStart, [Next]_vars PROVE TypeOK'
    OBVIOUS
  <2>1. CASE UNCHANGED vars
    BY <2>1 DEF TypeOK, vars
  <2>2. CASE \E j \in Jobs : Submitter(j) \/ Canceller(j) \/ Reconcile(j)
    BY <2>2, TypeSubmit, TypeCancel, TypeReconcile
  <2>3. CASE \E j \in Jobs, a \in Attempts : Runner(j, a)
    BY <2>3, TypeRunner
  <2>4. CASE Daemon
    BY <2>4, TypeDaemonLife, TypeReap, TypeStop, TypeStart DEF Daemon, DaemonOn
  <2> QED
    BY <2>1, <2>2, <2>3, <2>4, LifecycleAssumption DEF Next
<1> QED
  BY <1>1, <1>2, RoomStep, PTL DEF Spec

----------------------------------------------------------------------------
(* THE QUEUE AND THE SLOTS.  Most steps are quiet: they change neither      *)
(* which processes exist nor what the dispatcher holds.  The proof that     *)
(* QueueInv is inductive treats all of those at once, the others one by one.*)

----------------------------------------------------------------------------
(* Quiet steps.                                                             *)

SameRow(k) == row'[k].state = row[k].state /\ row'[k].pid = row[k].pid

RowMoves(k) ==
  \/ SameRow(k)
  \/ row[k].state = "QUEUED" /\ row'[k].state = "REMOVED" /\ row'[k].pid = row[k].pid
  \/ submit[k] = "inserted" /\ row'[k].state = "QUEUED" /\ row'[k].pid = 0

ProcsShrink ==
  \A k \in Jobs, b \in Attempts :
    /\ Alive(k, b)' => Alive(k, b)
    /\ proc'[k][b].ph = "absent" <=> proc[k][b].ph = "absent"

SubmitMoves ==
  \A k \in Jobs : submit'[k] \in {"idle", "inserted"} =>
                   /\ submit[k] \in {"idle", "inserted"}
                   /\ row'[k].state = "QUEUED" => row[k].state = "QUEUED"

Quiet ==
  /\ \A k \in Jobs : RowMoves(k)
  /\ ProcsShrink
  /\ SubmitMoves
  /\ UNCHANGED <<starts, phase, starting, running, adopted>>
  /\ phase = "recover" => todo' = todo

\* No part of the invariant is disturbed by a quiet step.
LEMMA QuietStep ==
  ASSUME TypeOK, QueueInv, Quiet
  PROVE  QueueInv'
<1> USE DEF QueueInv, Quiet
<1>1. AttemptsInOrder'
  BY DEF AttemptsInOrder, ProcsShrink
<1>2. WaitingIsIdle'
  BY DEF WaitingIsIdle, ProcsShrink, RowMoves, SameRow, NotYetEnqueued
<1>3. PidIsCurrent'
  BY DEF PidIsCurrent, RowMoves, SameRow
<1>4. NotYetEnqueued'
  BY DEF NotYetEnqueued, SubmitMoves, RowMoves, SameRow
<1>5. StartingIsClaimed'
  <2> SUFFICES ASSUME NEW j \in starting
               PROVE  /\ row'[j].state = "RUNNING" /\ row'[j].pid = 0
                      /\ phase = "claimed" => \A a \in Attempts : ~Alive(j, a)'
    BY DEF StartingIsClaimed
  <2>1. j \in Jobs /\ row[j].state = "RUNNING" /\ row[j].pid = 0
    BY DEF StartingIsClaimed, TypeOK
  <2>2. row'[j].state = "RUNNING" /\ row'[j].pid = 0
    BY <2>1 DEF RowMoves, SameRow, NotYetEnqueued
  <2>3. ASSUME phase = "claimed", NEW a \in Attempts PROVE ~Alive(j, a)'
    BY <2>1, <2>3 DEF StartingIsClaimed, ProcsShrink
  <2> QED
    BY <2>2, <2>3
<1>6. HeldIsRunning'
  BY DEF HeldIsRunning, RowMoves, SameRow, NotYetEnqueued
<1>7. RecoveryIsClean'
  BY DEF RecoveryIsClean, RowMoves, SameRow, NotYetEnqueued, TypeOK
<1>8. LiveIsHeldOrTodo'
  BY DEF LiveIsHeldOrTodo, RowMoves, SameRow, ProcsShrink, Alive
<1> QED
  BY <1>1, <1>2, <1>3, <1>4, <1>5, <1>6, <1>7, <1>8

\* A step that leaves the processes as they are, or ends one of them.
LEMMA SameProcs == proc' = proc => ProcsShrink
  BY DEF ProcsShrink, Alive

LEMMA OneProcMoves ==
  ASSUME TypeOK, NEW j \in Jobs, NEW a \in Attempts, NEW p \in Proc, Becomes(j, a, p),
         p.ph # "absent", proc[j][a].ph # "absent",
         p.ph # "exited" => Alive(j, a)
  PROVE  ProcsShrink
  BY DEF ProcsShrink, Alive, Becomes, TypeOK

\* Removing a job that waits, or setting its cancel flag, moves no other row.
LEMMA RemoveMoves ==
  ASSUME TypeOK, NEW j \in Jobs, remove_queued(j)
  PROVE  \A k \in Jobs : RowMoves(k) /\ (row'[k].state = "QUEUED" => row[k].state = "QUEUED")
<1> DEFINE r == [row[j] EXCEPT !.state = "REMOVED"]
<1>1. row' = [row EXCEPT ![j] = r] /\ row[j] \in Row /\ row \in [Jobs -> Row]
  BY DEF remove_queued, TypeOK
<1>2. r.state = "REMOVED" /\ r.pid = row[j].pid
  BY <1>1 DEF Row
<1>3. row'[j] = r /\ \A k \in Jobs : k # j => row'[k] = row[k]
  BY <1>1
<1> QED
  BY <1>2, <1>3 DEF RowMoves, SameRow, remove_queued

LEMMA FlagMoves ==
  ASSUME TypeOK, NEW j \in Jobs, row' = [row EXCEPT ![j].cancel = TRUE]
  PROVE  \A k \in Jobs : SameRow(k)
<1> DEFINE r == [row[j] EXCEPT !.cancel = TRUE]
<1>1. row' = [row EXCEPT ![j] = r] /\ row[j] \in Row /\ row \in [Jobs -> Row]
  BY DEF TypeOK
<1>2. r.state = row[j].state /\ r.pid = row[j].pid
  BY <1>1 DEF Row
<1>3. row'[j] = r /\ \A k \in Jobs : k # j => row'[k] = row[k]
  BY <1>1
<1> QED
  BY <1>2, <1>3 DEF SameRow

\* The command-line programs enqueue, remove and set flags.
LEMMA CliQuiet ==
  ASSUME TypeOK, NEW j \in Jobs, Submitter(j) \/ Canceller(j) \/ Reconcile(j)
  PROVE  Quiet
<1> USE DEF dbVars, procVars, daemonVars, cliVars, RowMoves, SameRow, SubmitMoves, CancelTo, SubmitPc
<1>1. ProcsShrink /\ UNCHANGED <<starts, phase, starting, running, adopted, todo>>
  BY CliFrame, SameProcs
<1>2. CASE Submitter(j)
  <2>1. CASE SubmitInsert(j)
    BY <1>1, <2>1 DEF SubmitInsert, Quiet, TypeOK
  <2>2. CASE SubmitPrepareFails(j)
    BY <1>1, <2>2 DEF SubmitPrepareFails, Quiet, TypeOK
  <2>3. CASE SubmitEnqueue(j)
    BY <1>1, <2>3 DEF SubmitEnqueue, NewRow, NoRow, Quiet, TypeOK
  <2>4. CASE SubmitRecord(j)
    BY <1>1, <2>4 DEF SubmitRecord, Quiet, TypeOK
  <2>5. CASE SubmitEnd(j)
    BY <1>1, <2>5 DEF SubmitEnd, Quiet, TypeOK
  <2>6. CASE SubmitCrash(j)
    BY <1>1, <2>6 DEF SubmitCrash, Quiet, TypeOK
  <2> QED
    BY <1>2, <2>1, <2>2, <2>3, <2>4, <2>5, <2>6 DEF Submitter
<1>3. CASE Canceller(j)
  <2>1. CASE CancelRemove(j)
    <3>1. /\ \A k \in Jobs : RowMoves(k) /\ (row'[k].state = "QUEUED" => row[k].state = "QUEUED")
          /\ submit' = submit
      BY <2>1, RemoveMoves DEF CancelRemove
    <3>2. SubmitMoves
      BY <3>1
    <3> QED
      BY <1>1, <3>1, <3>2 DEF Quiet
  <2>2. CASE CancelRequest(j)
    <3>1. (\A k \in Jobs : SameRow(k)) /\ submit' = submit
      BY <2>2, FlagMoves DEF CancelRequest
    <3>2. SubmitMoves
      BY <3>1
    <3> QED
      BY <1>1, <3>1, <3>2 DEF Quiet
  <2>3. CASE CancelBegin(j) \/ CancelLook(j) \/ CancelWait(j) \/ CancelMark(j) \/ CancelFinished(j)
    <3>1. UNCHANGED <<row, submit>>
      BY <2>3 DEF CancelBegin, CancelLook, CancelWait, CancelMark, CancelFinished
    <3> QED
      BY <1>1, <3>1 DEF Quiet
  <2> QED
    BY <1>3, <2>1, <2>2, <2>3 DEF Canceller
<1>4. CASE Reconcile(j)
  <2>1. UNCHANGED <<row, submit>>
    BY <1>4 DEF Reconcile, ReconcileList, ReconcileStale, ReconcileRead, ReconcileWrite,
                OrphanList, OrphanAttach
  <2> QED
    BY <1>1, <2>1 DEF Quiet
<1> QED
  BY <1>2, <1>3, <1>4

\* A runner only moves its own process towards its end.
LEMMA RunnerQuiet ==
  ASSUME TypeOK, NEW j \in Jobs, NEW a \in Attempts, Runner(j, a)
  PROVE  Quiet
<1>1. ProcsShrink
  <2>0. /\ proc[j][a] \in Proc
        /\ \A code \in ExitCodes : [NoProc EXCEPT !.ph = "exited", !.code = code] \in Proc
        /\ [NoProc EXCEPT !.ph = "exited"] \in Proc
    <3>1. proc[j][a] \in Proc
      BY DEF TypeOK
    <3>2. \A code \in ExitCodes : [NoProc EXCEPT !.ph = "exited", !.code = code] \in Proc
      BY DEF NoProc, Proc, ProcPhase
    <3>3. [NoProc EXCEPT !.ph = "exited"] \in Proc
      BY DEF NoProc, Proc, ProcPhase, ExitCodes
    <3> QED
      BY <3>1, <3>2, <3>3
  <2> USE DEF Proc, ProcPhase, ExitCodes, Alive
  <2>1. CASE RunnerRefuse(j, a)
    BY <2>0, <2>1, OneProcMoves DEF RunnerRefuse, NoProc
  <2>2. CASE RunnerFails(j, a)
    BY <2>0, <2>2, OneProcMoves DEF RunnerFails, NoProc
  <2>3. CASE RunnerBegin(j, a)
    BY <2>0, <2>3, OneProcMoves DEF RunnerBegin, NoProc
  <2>4. CASE RunnerWatch(j, a)
    BY <2>0, <2>4, OneProcMoves DEF RunnerWatch
  <2>5. CASE CommandEnds(j, a)
    BY <2>0, <2>5, OneProcMoves DEF CommandEnds
  <2>6. CASE RunnerFinish(j, a)
    BY <2>0, <2>6, OneProcMoves DEF RunnerFinish
  <2>7. CASE RunnerDies(j, a)
    BY <2>0, <2>7, OneProcMoves DEF RunnerDies, Kill, NoProc
  <2> QED
    BY <2>1, <2>2, <2>3, <2>4, <2>5, <2>6, <2>7 DEF Runner
<1> QED
  BY <1>1, RunnerFrame DEF Quiet, RowMoves, SameRow, SubmitMoves

\* So are the dispatcher's steps that only look, remove, or kill.
LEMMA DaemonQuiet ==
  ASSUME TypeOK, NEW j \in Jobs,
         PollAlive(j) \/ CancelQueued(j) \/ CancelOwned(j) \/ Backstop(j) \/ PassOver(j)
  PROVE  Quiet
<1> USE DEF dbVars, procVars, daemonVars, cliVars, RowMoves, SameRow, SubmitMoves
<1>0. [NoProc EXCEPT !.ph = "exited"] \in Proc
  BY DEF NoProc, Proc, ProcPhase, ExitCodes
<1>1. CASE PollAlive(j)
  BY <1>1, SameProcs DEF PollAlive, Quiet, Visit
<1>2. CASE CancelQueued(j)
  <2>1. \A k \in Jobs : RowMoves(k) /\ (row'[k].state = "QUEUED" => row[k].state = "QUEUED")
    <3>1. CASE remove_queued(j)
      BY <3>1, RemoveMoves
    <3>2. CASE UNCHANGED row
      BY <3>2
    <3> QED
      BY <1>2, <3>1, <3>2 DEF CancelQueued
  <2>2. ProcsShrink /\ SubmitMoves
    BY <1>2, <2>1, SameProcs DEF CancelQueued
  <2> QED
    BY <1>2, <2>1, <2>2 DEF CancelQueued, Quiet, Visit
<1>3. CASE CancelOwned(j)
  <2> DEFINE a == running[j]
  <2>1. a \in Attempts
    BY <1>3, LifecycleAssumption DEF CancelOwned, TypeOK, Attempts
  <2>2. CASE UNCHANGED proc
    BY <1>3, <2>2, SameProcs DEF CancelOwned, Quiet, Visit
  <2>3. CASE proc[j][a].ph \in {"exec", "ended"} /\ Becomes(j, a, [proc[j][a] EXCEPT !.sawCancel = TRUE])
    <3>1. [proc[j][a] EXCEPT !.sawCancel = TRUE] \in Proc
      <4>1. \A p \in Proc : [p EXCEPT !.sawCancel = TRUE] \in Proc
        BY DEF Proc
      <4> QED
        BY <2>1, <4>1 DEF TypeOK
    <3>2. ProcsShrink
      BY <2>1, <2>3, <3>1, OneProcMoves DEF Alive, Proc, TypeOK
    <3> QED
      BY <1>3, <3>2 DEF CancelOwned, Quiet, Visit
  <2>4. CASE Alive(j, a) /\ Kill(j, a)
    <3>1. ProcsShrink
      BY <1>0, <2>1, <2>4, OneProcMoves DEF Alive, Kill, NoProc
    <3> QED
      BY <1>3, <3>1 DEF CancelOwned, Quiet, Visit
  <2> QED
    BY <1>3, <2>2, <2>3, <2>4 DEF CancelOwned
<1>4. CASE Backstop(j)
  <2> DEFINE a == IF running[j] # 0 THEN running[j] ELSE row[j].pid
  <2>1. CASE UNCHANGED proc
    BY <1>4, <2>1, SameProcs DEF Backstop, Quiet, Visit
  <2>2. CASE Alive(j, a) /\ Kill(j, a)
    <3>1. ProcsShrink
      BY <1>0, <2>2, OneProcMoves DEF Alive, Kill, NoProc
    <3> QED
      BY <1>4, <3>1 DEF Backstop, Quiet, Visit
  <2> QED
    BY <1>4, <2>1, <2>2 DEF Backstop
<1>5. CASE PassOver(j)
  <2>1. \A k \in Jobs : SameRow(k)
    BY <1>5 DEF PassOver, request_preempt, TypeOK, Row
  <2> QED
    BY <1>5, <2>1, SameProcs DEF PassOver, Quiet, Visit
<1> QED
  BY <1>1, <1>2, <1>3, <1>4, <1>5

----------------------------------------------------------------------------
(* The dispatcher's life and the passes of its tick.                        *)

\* Between two passes nothing is being started, and what is left of recovery
\* is nothing.
LEMMA PassStep ==
  ASSUME TypeOK, QueueInv, \A k \in Jobs : SameRow(k),
         UNCHANGED <<proc, starts, starting, running, adopted, submit>>,
         phase \notin {"down", "claimed", "spawned"}, phase = "recover" => todo = {},
         phase' \notin {"down", "recover"}
  PROVE  QueueInv'
<1> USE DEF QueueInv, SameRow, Alive
<1>1. AttemptsInOrder' /\ WaitingIsIdle' /\ PidIsCurrent' /\ NotYetEnqueued'
  BY DEF AttemptsInOrder, WaitingIsIdle, PidIsCurrent, NotYetEnqueued
<1>2. StartingIsClaimed' /\ HeldIsRunning' /\ RecoveryIsClean'
  BY DEF StartingIsClaimed, HeldIsRunning, RecoveryIsClean
<1>3. LiveIsHeldOrTodo'
  BY DEF LiveIsHeldOrTodo
<1> QED
  BY <1>1, <1>2, <1>3

LEMMA LifeStep ==
  ASSUME TypeOK, QueueInv, DaemonCrash \/ DaemonStop \/ DaemonStart \/ PassEnds \/ TickBegins
  PROVE  QueueInv'
<1> USE DEF dbVars, procVars, daemonVars, cliVars
<1>1. CASE DaemonCrash \/ DaemonStop
  <2>1. /\ UNCHANGED <<row, proc, starts, submit>>
        /\ phase' = "down" /\ todo' = {} /\ starting' = {}
        /\ \A k \in Jobs : running'[k] = 0 /\ adopted'[k] = 0
    BY <1>1 DEF DaemonCrash, DaemonStop, Down
  <2>2. AttemptsInOrder' /\ WaitingIsIdle' /\ PidIsCurrent' /\ NotYetEnqueued'
    BY <2>1 DEF QueueInv, Alive, AttemptsInOrder, WaitingIsIdle, PidIsCurrent, NotYetEnqueued
  <2>3. StartingIsClaimed' /\ HeldIsRunning' /\ RecoveryIsClean' /\ LiveIsHeldOrTodo'
    BY <2>1 DEF StartingIsClaimed, HeldIsRunning, RecoveryIsClean, LiveIsHeldOrTodo
  <2> QED
    BY <2>2, <2>3 DEF QueueInv
<1>2. CASE DaemonStart
  <2>1. /\ UNCHANGED <<row, proc, starts, submit, starting, running, adopted>>
        /\ phase = "down" /\ phase' = "recover" /\ todo' = {j \in Jobs : row[j].state = "RUNNING"}
    BY <1>2 DEF DaemonStart
  <2>2. AttemptsInOrder' /\ WaitingIsIdle' /\ PidIsCurrent' /\ NotYetEnqueued'
    BY <2>1 DEF QueueInv, Alive, AttemptsInOrder, WaitingIsIdle, PidIsCurrent, NotYetEnqueued
  <2>3. StartingIsClaimed' /\ HeldIsRunning' /\ RecoveryIsClean'
    BY <2>1 DEF QueueInv, StartingIsClaimed, HeldIsRunning, RecoveryIsClean
  <2>4. LiveIsHeldOrTodo'
    BY <2>1 DEF QueueInv, PidIsCurrent, LiveIsHeldOrTodo
  <2> QED
    BY <2>2, <2>3, <2>4 DEF QueueInv
<1>3. CASE PassEnds
  <2>1. phase' \notin {"down", "recover"} /\ phase \notin {"down", "claimed", "spawned"}
    BY <1>3 DEF PassEnds, Then
  <2> QED
    BY <1>3, <2>1, PassStep DEF PassEnds, SameRow
<1>4. CASE TickBegins
  <2>1. \A k \in Jobs : SameRow(k)
    BY <1>4 DEF TickBegins, request_preempt, SameRow, TypeOK, Row
  <2> QED
    BY <1>4, <2>1, PassStep DEF TickBegins
<1> QED
  BY <1>1, <1>2, <1>3, <1>4

----------------------------------------------------------------------------
(* Rows that end.                                                           *)

\* What finish and requeue do to the parts of a row the invariant reads.
RowBecomes(j, s) ==
  /\ row'[j].state = s /\ row'[j].pid = 0
  /\ \A k \in Jobs : k # j => row'[k] = row[k]

LEMMA FinishRow ==
  ASSUME TypeOK, NEW j \in Jobs, NEW code, finish(j, code)
  PROVE  RowBecomes(j, "FINISHED")
  BY DEF finish, TypeOK, Row, RowBecomes

LEMMA RequeueRow ==
  ASSUME TypeOK, NEW j \in Jobs, requeue(j)
  PROVE  RowBecomes(j, "QUEUED")
  BY DEF requeue, TypeOK, Row, RowBecomes

\* Ending a running row that is not being started, of a job that has no process
\* left, and letting go of that job.
LEMMA EndStep ==
  ASSUME TypeOK, QueueInv, NEW j \in Jobs,
         RowBecomes(j, "FINISHED") \/ RowBecomes(j, "QUEUED"),
         row[j].state = "RUNNING" \/ (row[j].state = "FINISHED" /\ row'[j].state = "FINISHED"),
         j \notin starting,
         row'[j].state = "QUEUED" => \A a \in Attempts : ~Alive(j, a),
         ProcsShrink, UNCHANGED <<starts, starting, submit, phase>>,
         \A k \in Jobs : k # j => running'[k] = running[k] /\ adopted'[k] = adopted[k],
         running'[j] = 0,
         adopted'[j] # 0 => adopted'[j] = adopted[j] /\ row'[j].state = "FINISHED",
         todo' \subseteq todo, \A k \in Jobs : k \in todo /\ k \notin todo' => k = j,
         phase = "recover" => j \notin todo'
  PROVE  QueueInv'
<1> USE DEF QueueInv, RowBecomes
<1>1. AttemptsInOrder'
  BY DEF AttemptsInOrder, ProcsShrink
<1>2. WaitingIsIdle'
  BY DEF WaitingIsIdle, ProcsShrink
<1>3. PidIsCurrent'
  BY DEF PidIsCurrent
<1>4. NotYetEnqueued'
  BY DEF NotYetEnqueued
<1>5. StartingIsClaimed'
  <2> SUFFICES ASSUME NEW k \in starting
               PROVE  /\ row'[k].state = "RUNNING" /\ row'[k].pid = 0
                      /\ running'[k] = 0 /\ adopted'[k] = 0
                      /\ phase = "claimed" => \A a \in Attempts : ~Alive(k, a)'
    BY DEF StartingIsClaimed
  <2>1. k \in Jobs /\ k # j
    BY DEF TypeOK
  <2>2. row'[k] = row[k] /\ running'[k] = running[k] /\ adopted'[k] = adopted[k]
    BY <2>1
  <2>3. ASSUME phase = "claimed", NEW a \in Attempts PROVE ~Alive(k, a)'
    BY <2>1, <2>3 DEF StartingIsClaimed, ProcsShrink
  <2> QED
    BY <2>1, <2>2, <2>3 DEF StartingIsClaimed
<1>6. HeldIsRunning'
  BY DEF HeldIsRunning
<1>7. RecoveryIsClean'
  BY DEF RecoveryIsClean, TypeOK
<1>8. LiveIsHeldOrTodo'
  <2> SUFFICES ASSUME phase # "down", NEW k \in Jobs, row'[k].pid # 0, Alive(k, row[k].pid)',
                      k # j
               PROVE  \/ running'[k] = row'[k].pid \/ adopted'[k] = row'[k].pid
                      \/ phase = "recover" /\ k \in todo'
    BY DEF LiveIsHeldOrTodo
  <2>1. row'[k].pid = row[k].pid /\ row[k].pid \in Attempts
    BY DEF Alive
  <2>2. Alive(k, row[k].pid)
    BY <2>1 DEF ProcsShrink, Alive
  <2> QED
    BY <2>1, <2>2 DEF LiveIsHeldOrTodo
<1> QED
  BY <1>1, <1>2, <1>3, <1>4, <1>5, <1>6, <1>7, <1>8

\* The dispatcher's steps that end a row, or let a job go.
LEMMA ReapStep ==
  ASSUME TypeOK, QueueInv, NEW j \in Jobs, Reap(j) \/ ReapAdopted(j) \/ ReapFault(j)
  PROVE  QueueInv'
<1> USE DEF dbVars, procVars, daemonVars, cliVars, Visit
<1>1. CASE Reap(j)
  <2>1. /\ row[j].state = "RUNNING" /\ row[j].pid = running[j] /\ adopted[j] = 0
        /\ j \notin starting /\ phase = "reap"
    BY <1>1 DEF Reap, QueueInv, HeldIsRunning, StartingIsClaimed
  <2>2. \A a \in Attempts : ~Alive(j, a)
    BY <1>1, <2>1 DEF Reap, QueueInv, AttemptsInOrder, PidIsCurrent
  <2>3. RowBecomes(j, "FINISHED") \/ RowBecomes(j, "QUEUED")
    BY <1>1, FinishRow, RequeueRow DEF Reap
  <2>4. /\ running'[j] = 0 /\ adopted' = adopted /\ proc' = proc /\ todo' = todo \ {j}
        /\ \A k \in Jobs : k # j => running'[k] = running[k]
        /\ UNCHANGED <<starts, starting, submit, phase>>
    BY <1>1 DEF Reap, TypeOK
  <2> QED
    BY <2>1, <2>2, <2>3, <2>4, EndStep, SameProcs
<1>2. CASE ReapAdopted(j)
  <2>1. /\ row[j].state \in {"RUNNING", "FINISHED"} /\ running[j] = 0
        /\ j \notin starting /\ phase = "reap"
    BY <1>2 DEF ReapAdopted, QueueInv, HeldIsRunning, StartingIsClaimed
  <2>2. RowBecomes(j, "FINISHED")
    BY <1>2, FinishRow DEF ReapAdopted
  <2>3. row'[j].state = "FINISHED"
    BY <2>2 DEF RowBecomes
  <2>4. /\ adopted'[j] = 0 /\ running' = running /\ proc' = proc /\ todo' = todo \ {j}
        /\ \A k \in Jobs : k # j => adopted'[k] = adopted[k]
        /\ UNCHANGED <<starts, starting, submit, phase>>
    BY <1>2 DEF ReapAdopted, TypeOK
  <2> QED
    BY <2>1, <2>2, <2>3, <2>4, EndStep, SameProcs
<1>3. CASE ReapFault(j)
  <2>1. /\ UNCHANGED <<row, proc, starts, starting, submit>>
        /\ phase = "reap" /\ phase' = "sample"
        /\ running'[j] = 0 /\ adopted'[j] = 0
        /\ ~Alive(j, running[j]) /\ ~Alive(j, adopted[j])
        /\ \A k \in Jobs : k # j => running'[k] = running[k] /\ adopted'[k] = adopted[k]
    BY <1>3 DEF ReapFault, TypeOK
  <2>2. AttemptsInOrder' /\ WaitingIsIdle' /\ PidIsCurrent' /\ NotYetEnqueued'
    BY <2>1 DEF QueueInv, Alive, AttemptsInOrder, WaitingIsIdle, PidIsCurrent, NotYetEnqueued
  <2>3. StartingIsClaimed' /\ HeldIsRunning' /\ RecoveryIsClean'
    BY <2>1 DEF QueueInv, StartingIsClaimed, HeldIsRunning, RecoveryIsClean
  <2>4. LiveIsHeldOrTodo'
    BY <2>1 DEF QueueInv, LiveIsHeldOrTodo, Alive
  <2> QED
    BY <2>2, <2>3, <2>4 DEF QueueInv
<1> QED
  BY <1>1, <1>2, <1>3

LEMMA RecoverStep ==
  ASSUME TypeOK, QueueInv, NEW j \in Jobs, Recover(j)
  PROVE  QueueInv'
<1> USE DEF dbVars, procVars, daemonVars, cliVars, Visit
<1>1. /\ row[j].state = "RUNNING" /\ running[j] = 0 /\ adopted[j] = 0 /\ starting = {}
      /\ phase = "recover" /\ todo' = todo \ {j}
      /\ UNCHANGED <<proc, starts, submit, phase, starting, running>>
  BY DEF Recover, QueueInv, RecoveryIsClean, StartingIsClaimed
<1>2. CASE ~Alive(j, row[j].pid)
  <2>1. RowBecomes(j, "FINISHED") /\ adopted' = adopted
    BY <1>2, FinishRow DEF Recover
  <2>2. row'[j].state = "FINISHED"
    BY <2>1 DEF RowBecomes
  <2> QED
    BY <1>1, <2>1, <2>2, EndStep, SameProcs
<1>3. CASE Alive(j, row[j].pid)
  <2>1. /\ row' = row /\ adopted'[j] = row[j].pid
        /\ \A k \in Jobs : k # j => adopted'[k] = adopted[k]
    BY <1>3 DEF Recover, TypeOK
  <2>2. AttemptsInOrder' /\ WaitingIsIdle' /\ PidIsCurrent' /\ NotYetEnqueued'
    BY <1>1, <2>1 DEF QueueInv, Alive, AttemptsInOrder, WaitingIsIdle, PidIsCurrent,
       NotYetEnqueued
  <2>3. StartingIsClaimed' /\ HeldIsRunning' /\ RecoveryIsClean'
    BY <1>1, <2>1 DEF QueueInv, StartingIsClaimed, HeldIsRunning, RecoveryIsClean, TypeOK
  <2>4. LiveIsHeldOrTodo'
    BY <1>1, <2>1 DEF QueueInv, LiveIsHeldOrTodo, Alive
  <2> QED
    BY <2>2, <2>3, <2>4 DEF QueueInv
<1> QED
  BY <1>2, <1>3

LEMMA CancelOrphanStep ==
  ASSUME TypeOK, QueueInv, NEW j \in Jobs, CancelOrphan(j)
  PROVE  QueueInv'
<1> USE DEF dbVars, procVars, daemonVars, cliVars, Visit
<1>1. /\ row[j].state = "RUNNING" /\ running[j] = 0 /\ phase = "cancel" /\ todo' = todo \ {j}
      /\ UNCHANGED <<starts, submit, phase, starting, running, adopted>>
  BY DEF CancelOrphan
<1>2. ASSUME row[j].pid # 0, ProcsShrink, finish(j, "nonzero") PROVE QueueInv'
  <2>1. j \notin starting
    BY <1>2 DEF QueueInv, StartingIsClaimed
  <2>2. RowBecomes(j, "FINISHED")
    BY <1>2, FinishRow
  <2>3. row'[j].state = "FINISHED"
    BY <2>2 DEF RowBecomes
  <2> QED
    BY <1>1, <1>2, <2>1, <2>2, <2>3, EndStep
<1>3. CASE Alive(j, row[j].pid) /\ Kill(j, row[j].pid) /\ finish(j, "nonzero")
  <2>1. [NoProc EXCEPT !.ph = "exited"] \in Proc /\ row[j].pid \in Attempts
    BY <1>3 DEF NoProc, Proc, ProcPhase, ExitCodes, Alive
  <2>2. ProcsShrink
    BY <1>3, <2>1, OneProcMoves DEF Kill, Alive, NoProc
  <2>3. row[j].pid # 0
    BY <2>1, LifecycleAssumption DEF Attempts
  <2> QED
    BY <1>2, <1>3, <2>2, <2>3
<1>4. CASE row[j].pid # 0 /\ finish(j, "nonzero") /\ UNCHANGED proc
  BY <1>2, <1>4, SameProcs
<1>5. CASE UNCHANGED <<row, proc>>
  BY <1>1, <1>5, SameProcs, QuietStep DEF CancelOrphan, Quiet, RowMoves, SameRow, SubmitMoves
<1> QED
  BY <1>3, <1>4, <1>5 DEF CancelOrphan

----------------------------------------------------------------------------
(* Starting a job.                                                          *)

LEMMA ClaimStep ==
  ASSUME TypeOK, QueueInv, NEW j \in Jobs, Claim(j)
  PROVE  QueueInv'
<1> USE DEF dbVars, procVars, daemonVars, cliVars, Visit
<1>1. CASE row[j].state = "QUEUED"
  <2>1. /\ row'[j].state = "RUNNING" /\ row'[j].pid = row[j].pid
        /\ \A k \in Jobs : k # j => row'[k] = row[k]
    <3> DEFINE r == [row[j] EXCEPT !.state = "RUNNING"]
    <3>1. row' = [row EXCEPT ![j] = r] /\ row[j] \in Row /\ row \in [Jobs -> Row]
      BY <1>1 DEF Claim, TypeOK
    <3>2. r.state = "RUNNING" /\ r.pid = row[j].pid
      BY <3>1 DEF Row
    <3> QED
      BY <3>1, <3>2
  <2>2. /\ phase = "start" /\ phase' = "claimed" /\ starting' = {j}
        /\ UNCHANGED <<proc, starts, submit, running, adopted>>
    BY <1>1 DEF Claim
  <2>3. /\ row[j].pid = 0 /\ running[j] = 0 /\ adopted[j] = 0
        /\ \A a \in Attempts : ~Alive(j, a)
    BY <1>1 DEF QueueInv, PidIsCurrent, HeldIsRunning, WaitingIsIdle
  <2>4. AttemptsInOrder' /\ WaitingIsIdle' /\ PidIsCurrent'
    BY <2>1, <2>2, <2>3 DEF QueueInv, Alive, AttemptsInOrder, WaitingIsIdle, PidIsCurrent
  <2>5. NotYetEnqueued'
    BY <1>1, <2>1, <2>2 DEF QueueInv, NotYetEnqueued
  <2>6. StartingIsClaimed'
    BY <2>1, <2>2, <2>3 DEF StartingIsClaimed, Alive
  <2>7. HeldIsRunning' /\ RecoveryIsClean'
    BY <2>1, <2>2, <2>3 DEF QueueInv, HeldIsRunning, RecoveryIsClean
  <2>8. LiveIsHeldOrTodo'
    BY <2>1, <2>2, <2>3 DEF QueueInv, LiveIsHeldOrTodo, Alive
  <2> QED
    BY <2>4, <2>5, <2>6, <2>7, <2>8 DEF QueueInv
<1>2. CASE row[j].state # "QUEUED"
  BY <1>2, SameProcs, QuietStep DEF Claim, Quiet, RowMoves, SameRow, SubmitMoves
<1> QED
  BY <1>1, <1>2

LEMMA SpawnStep ==
  ASSUME TypeOK, QueueInv, NEW j \in Jobs, Spawn(j)
  PROVE  QueueInv'
<1> USE DEF dbVars, procVars, daemonVars, cliVars
<1>1. /\ phase = "claimed" /\ j \in starting /\ UNCHANGED <<submit, running, adopted>>
      /\ row[j].state = "RUNNING" /\ row[j].pid = 0 /\ running[j] = 0 /\ adopted[j] = 0
      /\ \A a \in Attempts : ~Alive(j, a)
  BY DEF Spawn, QueueInv, StartingIsClaimed
<1>2. CASE /\ starts' = [starts EXCEPT ![j] = @ + 1]
           /\ Becomes(j, starts[j] + 1, [NoProc EXCEPT !.ph = "boot"])
           /\ phase' = "spawned"
           /\ UNCHANGED <<row, starting, used>>
  <2>1. /\ starts[j] \in Nat /\ starts'[j] = starts[j] + 1
        /\ \A k \in Jobs : k # j => starts'[k] = starts[k] /\ proc'[k] = proc[k]
        /\ \A a \in Attempts : a # starts[j] + 1 => proc'[j][a] = proc[j][a]
        /\ starts[j] + 1 \in Attempts => proc'[j][starts[j] + 1].ph = "boot"
    BY <1>2, LifecycleAssumption DEF TypeOK, Becomes, NoProc
  <2>2. AttemptsInOrder'
    BY <1>1, <2>1, LifecycleAssumption DEF QueueInv, AttemptsInOrder, Alive, Attempts
  <2>3. WaitingIsIdle' /\ PidIsCurrent' /\ NotYetEnqueued'
    BY <1>1, <1>2, <2>1 DEF QueueInv, WaitingIsIdle, PidIsCurrent, NotYetEnqueued, Alive
  <2>4. StartingIsClaimed' /\ HeldIsRunning' /\ RecoveryIsClean'
    BY <1>1, <1>2 DEF QueueInv, StartingIsClaimed, HeldIsRunning, RecoveryIsClean
  <2>5. LiveIsHeldOrTodo'
    BY <1>1, <1>2, <2>1 DEF QueueInv, LiveIsHeldOrTodo, Alive
  <2> QED
    BY <2>2, <2>3, <2>4, <2>5 DEF QueueInv
<1>3. CASE finish(j, "nonzero") /\ phase' = "start" /\ starting' = {} /\ UNCHANGED procVars
  <2>1. RowBecomes(j, "FINISHED")
    BY <1>3, FinishRow
  <2>2. AttemptsInOrder' /\ WaitingIsIdle' /\ PidIsCurrent' /\ NotYetEnqueued'
    BY <1>1, <1>3, <2>1 DEF QueueInv, Alive, AttemptsInOrder, WaitingIsIdle, PidIsCurrent,
                            NotYetEnqueued, RowBecomes
  <2>3. StartingIsClaimed' /\ HeldIsRunning' /\ RecoveryIsClean'
    BY <1>1, <1>3, <2>1 DEF QueueInv, StartingIsClaimed, HeldIsRunning, RecoveryIsClean,
       RowBecomes
  <2>4. LiveIsHeldOrTodo'
    BY <1>1, <1>3, <2>1 DEF QueueInv, LiveIsHeldOrTodo, Alive, RowBecomes
  <2> QED
    BY <2>2, <2>3, <2>4 DEF QueueInv
<1> QED
  BY <1>2, <1>3 DEF Spawn

LEMMA RecordPidStep ==
  ASSUME TypeOK, QueueInv, NEW j \in Jobs, RecordPid(j)
  PROVE  QueueInv'
<1> USE DEF dbVars, procVars, daemonVars, cliVars
<1>1. /\ phase = "spawned" /\ starting' = {} /\ UNCHANGED <<submit, proc, starts, adopted>>
      /\ row[j].state = "RUNNING" /\ row[j].pid = 0 /\ running[j] = 0 /\ adopted[j] = 0
  BY DEF RecordPid, QueueInv, StartingIsClaimed
<1>2. CASE /\ row' = [row EXCEPT ![j].pid = starts[j]]
           /\ running' = [running EXCEPT ![j] = starts[j]]
           /\ phase' = "start"
  <2>1. /\ row'[j].state = "RUNNING" /\ row'[j].pid = starts[j] /\ running'[j] = starts[j]
        /\ \A k \in Jobs : k # j => row'[k] = row[k] /\ running'[k] = running[k]
    <3> DEFINE r == [row[j] EXCEPT !.pid = starts[j]]
    <3>1. row' = [row EXCEPT ![j] = r] /\ row[j] \in Row /\ row \in [Jobs -> Row]
      BY <1>2 DEF TypeOK
    <3>2. r.state = row[j].state /\ r.pid = starts[j]
      BY <3>1 DEF Row
    <3> QED
      BY <1>1, <1>2, <3>1, <3>2 DEF TypeOK
  <2>2. AttemptsInOrder' /\ WaitingIsIdle' /\ PidIsCurrent'
    BY <1>1, <2>1 DEF QueueInv, Alive, AttemptsInOrder, WaitingIsIdle, PidIsCurrent
  <2>3. NotYetEnqueued'
    BY <1>1, <2>1 DEF QueueInv, NotYetEnqueued
  <2>4. StartingIsClaimed' /\ HeldIsRunning' /\ RecoveryIsClean'
    BY <1>1, <1>2, <2>1 DEF QueueInv, StartingIsClaimed, HeldIsRunning, RecoveryIsClean
  <2>5. LiveIsHeldOrTodo'
    BY <1>1, <1>2, <2>1 DEF QueueInv, LiveIsHeldOrTodo, Alive
  <2> QED
    BY <2>2, <2>3, <2>4, <2>5 DEF QueueInv
<1>3. CASE phase' = "sample" /\ todo' = {} /\ UNCHANGED <<row, running>>
  <2>1. AttemptsInOrder' /\ WaitingIsIdle' /\ PidIsCurrent' /\ NotYetEnqueued'
    BY <1>1, <1>3 DEF QueueInv, Alive, AttemptsInOrder, WaitingIsIdle, PidIsCurrent,
       NotYetEnqueued
  <2>2. StartingIsClaimed' /\ HeldIsRunning' /\ RecoveryIsClean' /\ LiveIsHeldOrTodo'
    BY <1>1, <1>3 DEF QueueInv, StartingIsClaimed, HeldIsRunning, RecoveryIsClean,
                      LiveIsHeldOrTodo, Alive
  <2> QED
    BY <2>1, <2>2 DEF QueueInv
<1> QED
  BY <1>2, <1>3 DEF RecordPid

----------------------------------------------------------------------------
(* The invariant.                                                           *)

LEMMA QueueInit == Init => QueueInv
<1> SUFFICES ASSUME Init PROVE QueueInv
  OBVIOUS
<1> USE LifecycleAssumption DEF Init, NoRow, NoProc
<1>1. AttemptsInOrder /\ WaitingIsIdle
  BY DEF AttemptsInOrder, WaitingIsIdle, Alive, Attempts
<1>2. PidIsCurrent /\ NotYetEnqueued /\ StartingIsClaimed
  BY DEF PidIsCurrent, NotYetEnqueued, StartingIsClaimed
<1>3. HeldIsRunning /\ RecoveryIsClean /\ LiveIsHeldOrTodo
  BY DEF HeldIsRunning, RecoveryIsClean, LiveIsHeldOrTodo
<1> QED
  BY <1>1, <1>2, <1>3 DEF QueueInv

LEMMA StutterStep == TypeOK /\ QueueInv /\ UNCHANGED vars => QueueInv'
<1> SUFFICES ASSUME TypeOK, QueueInv, UNCHANGED vars PROVE QueueInv'
  OBVIOUS
<1> QED
  BY QuietStep, SameProcs DEF vars, Quiet, RowMoves, SameRow, SubmitMoves

LEMMA QueueStep == TypeOK /\ QueueInv /\ [Next]_vars => QueueInv'
<1> SUFFICES ASSUME TypeOK, QueueInv, [Next]_vars PROVE QueueInv'
  OBVIOUS
<1>1. CASE UNCHANGED vars
  BY <1>1, StutterStep
<1>2. CASE \E j \in Jobs : Submitter(j) \/ Canceller(j) \/ Reconcile(j)
  BY <1>2, CliQuiet, QuietStep
<1>3. CASE \E j \in Jobs, a \in Attempts : Runner(j, a)
  BY <1>3, RunnerQuiet, QuietStep
<1>4. CASE Daemon
  BY <1>4, LifeStep, DaemonQuiet, QuietStep, RecoverStep, ReapStep, CancelOrphanStep,
     ClaimStep, SpawnStep, RecordPidStep DEF Daemon, DaemonOn
<1> QED
  BY <1>1, <1>2, <1>3, <1>4, LifecycleAssumption DEF Next

\* The databases, the dispatcher's memory and the processes agree in every
\* behaviour: crashes, displacements, cancellations and faults included.
THEOREM QueueCorrect == Spec => []QueueInv
  BY QueueInit, QueueStep, TypeCorrect, PTL DEF Spec

\* A job never has two processes, and none while it waits in the queue.
THEOREM NeverTwice == Spec => []OneRunner
<1>1. TypeOK /\ QueueInv => OneRunner
  BY DEF QueueInv, AttemptsInOrder, WaitingIsIdle, OneRunner
<1> QED
  BY <1>1, TypeCorrect, QueueCorrect, PTL

\* A job removed from the queue has no process: cancelling a waiting job means
\* that it will not run.
THEOREM RemovedStaysIdle == Spec => []RemovedNeverRuns
<1>1. QueueInv => RemovedNeverRuns
  BY DEF QueueInv, WaitingIsIdle, RemovedNeverRuns
<1> QED
  BY <1>1, QueueCorrect, PTL

\* The dispatcher that is up owns every process whose pid was recorded.
THEOREM NoLeakedSlot == Spec => []LiveIsOwned
<1>1. QueueInv => LiveIsOwned
  <2> SUFFICES ASSUME QueueInv, phase \notin {"down", "recover"}, NEW j \in Jobs,
                      NEW a \in Attempts, Alive(j, a), row[j].pid = a
               PROVE  running[j] = a \/ adopted[j] = a
    BY DEF LiveIsOwned
  <2>1. a # 0
    BY LifecycleAssumption DEF Attempts
  <2> QED
    BY <2>1 DEF QueueInv, LiveIsHeldOrTodo
<1> QED
  BY <1>1, QueueCorrect, PTL

----------------------------------------------------------------------------
(* What a step may never do to a row.                                       *)

\* A row that ended stays ended; a displaced job that is held goes back to the
\* queue.
Orderly(k) ==
  /\ row[k].state = "FINISHED" => row'[k].state = "FINISHED"
  /\ row[k].state = "REMOVED"  => row'[k].state = "REMOVED"
  /\ Displaced(k) /\ running[k] # 0 /\ row'[k].state # "RUNNING" => row'[k].state = "QUEUED"

LEMMA QuietOrderly == ASSUME QueueInv, Quiet PROVE \A k \in Jobs : Orderly(k)
  BY DEF QueueInv, NotYetEnqueued, Quiet, RowMoves, SameRow, Orderly, Displaced

LEMMA LifeOrderly ==
  ASSUME TypeOK, DaemonCrash \/ DaemonStop \/ DaemonStart \/ PassEnds \/ TickBegins
  PROVE  \A k \in Jobs : Orderly(k)
<1>1. CASE TickBegins
  <2>1. \A k \in Jobs : SameRow(k)
    BY <1>1 DEF TickBegins, request_preempt, SameRow, TypeOK, Row
  <2> QED
    BY <2>1 DEF SameRow, Orderly, Displaced
<1>2. CASE DaemonCrash \/ DaemonStop \/ DaemonStart \/ PassEnds
  <2>1. row' = row
    BY <1>2 DEF DaemonCrash, DaemonStop, DaemonStart, PassEnds
  <2> QED
    BY <2>1 DEF Orderly, Displaced
<1> QED
  BY <1>1, <1>2

LEMMA EndOrderly ==
  ASSUME TypeOK, QueueInv, NEW j \in Jobs,
         Recover(j) \/ Reap(j) \/ ReapAdopted(j) \/ ReapFault(j) \/ CancelOrphan(j)
  PROVE  \A k \in Jobs : Orderly(k)
<1> USE DEF RowBecomes, Orderly, Displaced
<1>1. CASE Recover(j)
  <2>1. row[j].state = "RUNNING" /\ running[j] = 0
    BY <1>1 DEF Recover, Visit, QueueInv, RecoveryIsClean
  <2>2. RowBecomes(j, "FINISHED") \/ row' = row
    BY <1>1, FinishRow DEF Recover
  <2> QED
    BY <2>1, <2>2
<1>2. CASE Reap(j)
  <2>1. row[j].state = "RUNNING"
    BY <1>2 DEF Reap, QueueInv, HeldIsRunning
  <2>2. IF row[j].preempt THEN RowBecomes(j, "QUEUED") ELSE RowBecomes(j, "FINISHED")
    BY <1>2, FinishRow, RequeueRow DEF Reap
  <2> QED
    BY <2>1, <2>2
<1>3. CASE ReapAdopted(j)
  <2>1. row[j].state \in {"RUNNING", "FINISHED"} /\ running[j] = 0
    BY <1>3 DEF ReapAdopted, QueueInv, HeldIsRunning
  <2>2. RowBecomes(j, "FINISHED")
    BY <1>3, FinishRow DEF ReapAdopted
  <2> QED
    BY <2>1, <2>2
<1>4. CASE ReapFault(j)
  BY <1>4 DEF ReapFault
<1>5. CASE CancelOrphan(j)
  <2>1. row[j].state = "RUNNING" /\ running[j] = 0
    BY <1>5 DEF CancelOrphan
  <2>2. RowBecomes(j, "FINISHED") \/ row' = row
    BY <1>5, FinishRow DEF CancelOrphan
  <2> QED
    BY <2>1, <2>2
<1> QED
  BY <1>1, <1>2, <1>3, <1>4, <1>5

LEMMA StartOrderly ==
  ASSUME TypeOK, QueueInv, NEW j \in Jobs, Claim(j) \/ Spawn(j) \/ RecordPid(j)
  PROVE  \A k \in Jobs : Orderly(k)
<1> USE DEF Orderly, Displaced
<1>1. CASE Claim(j)
  <2>1. CASE row' = [row EXCEPT ![j].state = "RUNNING"] /\ row[j].state = "QUEUED"
    <3>1. \A k \in Jobs : k # j => row'[k] = row[k]
      BY <2>1 DEF TypeOK
    <3>2. row'[j].state = "RUNNING"
      BY <2>1 DEF TypeOK, Row
    <3> QED
      BY <2>1, <3>1, <3>2
  <2>2. CASE row' = row
    BY <2>2
  <2> QED
    BY <1>1, <2>1, <2>2 DEF Claim
<1>2. CASE Spawn(j)
  <2>1. row[j].state = "RUNNING" /\ running[j] = 0
    BY <1>2 DEF Spawn, QueueInv, StartingIsClaimed
  <2>2. RowBecomes(j, "FINISHED") \/ row' = row
    BY <1>2, FinishRow DEF Spawn
  <2> QED
    BY <2>1, <2>2 DEF RowBecomes
<1>3. CASE RecordPid(j)
  <2>1. CASE row' = [row EXCEPT ![j].pid = starts[j]]
    <3>1. \A k \in Jobs : row'[k].state = row[k].state
      <4>1. row[j] \in Row /\ row \in [Jobs -> Row]
        BY DEF TypeOK
      <4>2. \A n : \A q \in Row : [q EXCEPT !.pid = n].state = q.state
        BY DEF Row
      <4> QED
        BY <2>1, <4>1, <4>2
    <3> QED
      BY <3>1
  <2>2. CASE row' = row
    BY <2>2
  <2> QED
    BY <1>3, <2>1, <2>2 DEF RecordPid
<1> QED
  BY <1>1, <1>2, <1>3

LEMMA OrderlyStep == TypeOK /\ QueueInv /\ [Next]_vars => \A k \in Jobs : Orderly(k)
<1> SUFFICES ASSUME TypeOK, QueueInv, [Next]_vars PROVE \A k \in Jobs : Orderly(k)
  OBVIOUS
<1>1. CASE UNCHANGED vars
  BY <1>1 DEF vars, Orderly, Displaced
<1>2. CASE \E j \in Jobs : Submitter(j) \/ Canceller(j) \/ Reconcile(j)
  BY <1>2, CliQuiet, QuietOrderly
<1>3. CASE \E j \in Jobs, a \in Attempts : Runner(j, a)
  BY <1>3, RunnerQuiet, QuietOrderly
<1>4. CASE Daemon
  BY <1>4, LifeOrderly, DaemonQuiet, QuietOrderly, EndOrderly, StartOrderly DEF Daemon, DaemonOn
<1> QED
  BY <1>1, <1>2, <1>3, <1>4, LifecycleAssumption DEF Next

\* A finished or removed row never becomes active again: finish and requeue do
\* not look at the state they overwrite, and need not.
THEOREM EndedForGood == Spec => EndedRowStaysEnded
<1>1. TypeOK /\ QueueInv /\ [Next]_vars =>
        [\A j \in Jobs :
          /\ row[j].state = "FINISHED" => row'[j].state = "FINISHED"
          /\ row[j].state = "REMOVED"  => row'[j].state = "REMOVED"]_vars
  BY OrderlyStep DEF Orderly
<1> QED
  BY <1>1, TypeCorrect, QueueCorrect, PTL DEF Spec, EndedRowStaysEnded

\* A displaced job that stays with the dispatcher that started it returns to
\* the queue.
THEOREM DisplacedComesBack == Spec => HeldDisplacedReturns
<1>1. TypeOK /\ QueueInv /\ [Next]_vars =>
        [\A j \in Jobs : Displaced(j) /\ running[j] # 0 /\ row'[j].state # "RUNNING"
                           => row'[j].state = "QUEUED"]_vars
  BY OrderlyStep DEF Orderly
<1> QED
  BY <1>1, TypeCorrect, QueueCorrect, PTL DEF Spec, HeldDisplacedReturns
----------------------------------------------------------------------------
(* The slots, across the restarts of the dispatcher.  The jobs it holds are *)
(* not an inductive measure: a dispatcher that just started holds none, and *)
(* adopts the running ones later, whatever the slots.                       *)

\* The jobs that take a slot now, or will once a starting dispatcher has
\* adopted them.  Unlike those it holds, they only grow by a claim.
Occupied == {j \in Jobs : \/ Ours(j) \/ j \in starting
                          \/ row[j].pid # 0 /\ Alive(j, row[j].pid)}
SlotInv == Cardinality(Occupied) <= Slots

LEMMA FewerOccupied ==
  ASSUME SlotInv, Occupied' \subseteq Occupied
  PROVE  SlotInv'
<1>1. IsFiniteSet(Occupied)
  BY LifecycleAssumption, FS_Subset DEF Occupied
<1>2. /\ IsFiniteSet(Occupied')
      /\ Cardinality(Occupied') \in Nat /\ Cardinality(Occupied) \in Nat
      /\ Cardinality(Occupied') <= Cardinality(Occupied)
  BY <1>1, FS_Subset, FS_CardinalityType
<1> QED
  BY <1>2, LifecycleAssumption DEF SlotInv

LEMMA QuietSlots ==
  ASSUME TypeOK, QueueInv, SlotInv, Quiet
  PROVE  SlotInv'
<1>1. ASSUME NEW k \in Jobs, row'[k].pid # 0, Alive(k, row[k].pid)'
      PROVE  row[k].pid # 0 /\ Alive(k, row[k].pid)
  <2>1. row'[k].pid = row[k].pid
    BY <1>1 DEF Quiet, RowMoves, SameRow
  <2>2. row[k].pid \in Attempts
    BY <1>1, <2>1 DEF Alive
  <2> QED
    BY <1>1, <2>1, <2>2 DEF Quiet, ProcsShrink, Alive
<1>2. Occupied' \subseteq Occupied
  BY <1>1 DEF Quiet, Occupied, Ours, Alive
<1> QED
  BY <1>2, FewerOccupied

LEMMA LifeSlots ==
  ASSUME TypeOK, QueueInv, SlotInv,
         DaemonCrash \/ DaemonStop \/ DaemonStart \/ PassEnds \/ TickBegins
  PROVE  SlotInv'
<1> USE DEF dbVars, procVars, daemonVars, cliVars, Occupied, Ours, Alive
<1>1. CASE DaemonCrash \/ DaemonStop
  BY <1>1, FewerOccupied DEF DaemonCrash, DaemonStop, Down
<1>2. CASE DaemonStart
  BY <1>2, FewerOccupied DEF DaemonStart
<1>3. CASE PassEnds
  BY <1>3, FewerOccupied DEF PassEnds
<1>4. CASE TickBegins
  <2>1. \A k \in Jobs : SameRow(k)
    BY <1>4 DEF TickBegins, request_preempt, SameRow, TypeOK, Row
  <2> QED
    BY <1>4, <2>1, FewerOccupied DEF TickBegins, SameRow
<1> QED
  BY <1>1, <1>2, <1>3, <1>4

LEMMA EndSlots ==
  ASSUME TypeOK, QueueInv, SlotInv, NEW j \in Jobs,
         Recover(j) \/ Reap(j) \/ ReapAdopted(j) \/ ReapFault(j) \/ CancelOrphan(j)
  PROVE  SlotInv'
<1> USE DEF dbVars, procVars, daemonVars, cliVars, Visit, Occupied, Ours, RowBecomes
<1>1. CASE Recover(j)
  <2>1. CASE Alive(j, row[j].pid)
    <3>1. row' = row /\ adopted' = [adopted EXCEPT ![j] = row[j].pid]
      BY <1>1, <2>1 DEF Recover
    <3>2. UNCHANGED <<proc, running, starting>> /\ row[j].pid # 0
      BY <1>1, <2>1, LifecycleAssumption DEF Recover, Alive, Attempts
    <3> QED
      BY <2>1, <3>1, <3>2, FewerOccupied DEF Alive, TypeOK
  <2>2. CASE ~Alive(j, row[j].pid)
    <3>1. RowBecomes(j, "FINISHED") /\ UNCHANGED <<proc, running, adopted, starting>>
      BY <1>1, <2>2, FinishRow DEF Recover
    <3> QED
      BY <3>1, FewerOccupied DEF Alive
  <2> QED
    BY <2>1, <2>2
<1>2. CASE Reap(j)
  <2>1. RowBecomes(j, "FINISHED") \/ RowBecomes(j, "QUEUED")
    BY <1>2, FinishRow, RequeueRow DEF Reap
  <2>2. UNCHANGED <<proc, adopted, starting>> /\ running' = [running EXCEPT ![j] = 0]
    BY <1>2 DEF Reap
  <2> QED
    BY <2>1, <2>2, FewerOccupied DEF Alive, TypeOK
<1>3. CASE ReapAdopted(j)
  <2>1. RowBecomes(j, "FINISHED")
    BY <1>3, FinishRow DEF ReapAdopted
  <2>2. UNCHANGED <<proc, running, starting>> /\ adopted' = [adopted EXCEPT ![j] = 0]
    BY <1>3 DEF ReapAdopted
  <2> QED
    BY <2>1, <2>2, FewerOccupied DEF Alive, TypeOK
<1>4. CASE ReapFault(j)
  <2>1. /\ UNCHANGED <<row, proc, starting>>
        /\ running' = [running EXCEPT ![j] = 0] /\ adopted' = [adopted EXCEPT ![j] = 0]
    BY <1>4 DEF ReapFault
  <2> QED
    BY <2>1, FewerOccupied DEF Alive, TypeOK
<1>5. CASE CancelOrphan(j)
  <2>1. UNCHANGED <<running, adopted, starting>>
    BY <1>5 DEF CancelOrphan
  <2>2. CASE RowBecomes(j, "FINISHED")
    <3>1. \A k \in Jobs : k # j => proc'[k] = proc[k]
      BY <1>5 DEF CancelOrphan, Kill, Becomes, TypeOK
    <3> QED
      BY <2>1, <2>2, <3>1, FewerOccupied DEF Alive
  <2>3. CASE UNCHANGED <<row, proc>>
    BY <2>1, <2>3, FewerOccupied DEF Alive
  <2> QED
    BY <1>5, <2>2, <2>3, FinishRow DEF CancelOrphan
<1> QED
  BY <1>1, <1>2, <1>3, <1>4, <1>5

\* A claim is made only while a slot is free.
LEMMA ClaimSlots ==
  ASSUME TypeOK, QueueInv, SlotInv, NEW j \in Jobs, Claim(j)
  PROVE  SlotInv'
<1> USE DEF dbVars, procVars, daemonVars, cliVars, Visit, Ours
<1> DEFINE R == {k \in Jobs : running[k] # 0}
           A == {k \in Jobs : adopted[k] # 0}
<1>1. phase = "start" /\ UNCHANGED <<proc, running, adopted>>
  BY DEF Claim
<1>2. Occupied = R \cup A
  BY <1>1 DEF Occupied, QueueInv, StartingIsClaimed, LiveIsHeldOrTodo
<1>3. IsFiniteSet(R) /\ IsFiniteSet(A)
  BY LifecycleAssumption, FS_Subset
<1>4. Cardinality(R) + Cardinality(A) < Slots
  BY DEF Claim, InFlight
<1>5. \A k \in Jobs : row'[k].pid = row[k].pid
  <2>1. row[j] \in Row /\ row \in [Jobs -> Row]
    BY DEF TypeOK
  <2>2. \A s : \A q \in Row : [q EXCEPT !.state = s].pid = q.pid
    BY DEF Row
  <2>3. CASE row' = [row EXCEPT ![j].state = "RUNNING"]
    BY <2>1, <2>2, <2>3
  <2>4. CASE row' = row
    BY <2>4
  <2> QED
    BY <2>3, <2>4 DEF Claim
<1>6. Occupied' \subseteq Occupied \cup {j}
  BY <1>1, <1>5 DEF Occupied, Claim, Alive
<1>7. IsFiniteSet(Occupied) /\ Cardinality(Occupied) <= Cardinality(R) + Cardinality(A)
  <2>1. /\ IsFiniteSet(R \cup A)
        /\ Cardinality(R \cup A) = Cardinality(R) + Cardinality(A) - Cardinality(R \cap A)
    BY <1>3, FS_Union
  <2>2. Cardinality(R) \in Nat /\ Cardinality(A) \in Nat /\ Cardinality(R \cap A) \in Nat
    BY <1>3, FS_Subset, FS_CardinalityType
  <2> QED
    BY <1>2, <2>1, <2>2
<1>8. /\ IsFiniteSet(Occupied \cup {j})
      /\ Cardinality(Occupied \cup {j}) <= Cardinality(Occupied) + 1
  <2>1. Cardinality(Occupied) \in Nat
    BY <1>7, FS_CardinalityType
  <2>2. /\ IsFiniteSet(Occupied \cup {j})
        /\ \/ Cardinality(Occupied \cup {j}) = Cardinality(Occupied)
           \/ Cardinality(Occupied \cup {j}) = Cardinality(Occupied) + 1
    BY <1>7, FS_AddElement
  <2> QED
    BY <2>1, <2>2
<1>9. Cardinality(Occupied') <= Cardinality(Occupied \cup {j})
  BY <1>6, <1>8, FS_Subset
<1>10. /\ Cardinality(R) \in Nat /\ Cardinality(A) \in Nat /\ Cardinality(Occupied) \in Nat
       /\ Cardinality(Occupied') \in Nat /\ Cardinality(Occupied \cup {j}) \in Nat
  BY <1>3, <1>6, <1>7, <1>8, FS_Subset, FS_CardinalityType
<1> QED
  BY <1>4, <1>7, <1>8, <1>9, <1>10, LifecycleAssumption DEF SlotInv

LEMMA StartSlots ==
  ASSUME TypeOK, QueueInv, SlotInv, NEW j \in Jobs, Spawn(j) \/ RecordPid(j)
  PROVE  SlotInv'
<1> USE DEF dbVars, procVars, daemonVars, cliVars, Occupied, Ours
<1>1. CASE Spawn(j)
  <2>1. j \in starting /\ row[j].pid = 0 /\ UNCHANGED <<running, adopted>>
    BY <1>1 DEF Spawn, QueueInv, StartingIsClaimed
  <2>2. CASE Becomes(j, starts[j] + 1, [NoProc EXCEPT !.ph = "boot"]) /\ UNCHANGED <<row, starting>>
    <3>1. \A k \in Jobs : k # j => proc'[k] = proc[k]
      BY <2>2 DEF Becomes, TypeOK
    <3> QED
      BY <2>1, <2>2, <3>1, FewerOccupied DEF Alive
  <2>3. CASE finish(j, "nonzero") /\ starting' = {} /\ UNCHANGED procVars
    <3>1. RowBecomes(j, "FINISHED")
      BY <2>3, FinishRow
    <3> QED
      BY <2>1, <2>3, <3>1, FewerOccupied DEF Alive, RowBecomes
  <2> QED
    BY <1>1, <2>2, <2>3 DEF Spawn
<1>2. CASE RecordPid(j)
  <2>1. j \in starting /\ starting' = {} /\ UNCHANGED <<proc, adopted>>
    BY <1>2 DEF RecordPid
  <2>2. \A k \in Jobs : k # j => row'[k] = row[k] /\ running'[k] = running[k]
    BY <1>2 DEF RecordPid, TypeOK
  <2> QED
    BY <2>1, <2>2, FewerOccupied DEF Alive
<1> QED
  BY <1>1, <1>2

LEMMA SlotStep == TypeOK /\ QueueInv /\ SlotInv /\ [Next]_vars => SlotInv'
<1> SUFFICES ASSUME TypeOK, QueueInv, SlotInv, [Next]_vars PROVE SlotInv'
  OBVIOUS
<1>1. CASE UNCHANGED vars
  BY <1>1 DEF vars, SlotInv, Occupied, Ours, Alive
<1>2. CASE \E j \in Jobs : Submitter(j) \/ Canceller(j) \/ Reconcile(j)
  BY <1>2, CliQuiet, QuietSlots
<1>3. CASE \E j \in Jobs, a \in Attempts : Runner(j, a)
  BY <1>3, RunnerQuiet, QuietSlots
<1>4. CASE Daemon
  BY <1>4, LifeSlots, DaemonQuiet, QuietSlots, EndSlots, ClaimSlots, StartSlots DEF Daemon,
     DaemonOn
<1> QED
  BY <1>1, <1>2, <1>3, <1>4, LifecycleAssumption DEF Next

\* The dispatcher never holds more local jobs than it has slots, those an
\* earlier dispatcher started included.
THEOREM SlotsHold == Spec => []SlotsRespected
<1>1. Init => SlotInv
  <2> SUFFICES ASSUME Init PROVE SlotInv
    OBVIOUS
  <2>1. Occupied = {}
    BY DEF Init, Occupied, Ours, NoRow
  <2> QED
    BY <2>1, FS_EmptySet, LifecycleAssumption DEF SlotInv
<1>2. SlotInv => SlotsRespected
  <2> SUFFICES ASSUME SlotInv PROVE SlotsRespected
    OBVIOUS
  <2> DEFINE Held == {j \in Jobs : Ours(j) \/ j \in starting}
  <2>1. IsFiniteSet(Occupied) /\ Held \subseteq Occupied
    BY LifecycleAssumption, FS_Subset DEF Occupied
  <2>2. /\ Cardinality(Held) <= Cardinality(Occupied)
        /\ Cardinality(Held) \in Nat /\ Cardinality(Occupied) \in Nat
    BY <2>1, FS_Subset, FS_CardinalityType
  <2> QED
    BY <2>2, LifecycleAssumption DEF SlotInv, SlotsRespected
<1> QED
  BY <1>1, <1>2, SlotStep, TypeCorrect, QueueCorrect, PTL DEF Spec

----------------------------------------------------------------------------
(* OUTCOMES.  What the recorded state of a job says about its processes: a  *)
(* job that executes was recorded, and SUCCEEDED is true and final.         *)

----------------------------------------------------------------------------
(* What the actors leave alone.                                             *)

\* A write to jobs.state, accepted or not.
LEMMA Written ==
  ASSUME TypeOK, NEW j \in Jobs, NEW target, WriteState(j, target)
  PROVE  /\ state'[j] \in {state[j], target}
         /\ \A k \in Jobs : k # j => state'[k] = state[k]
  BY DEF WriteState, TryUpdate, TypeOK

\* A command-line program touches the records of one job.
LEMMA CliElsewhere ==
  ASSUME TypeOK, NEW j \in Jobs, Submitter(j) \/ Canceller(j) \/ Reconcile(j)
  PROVE  \A k \in Jobs : k # j =>
           /\ state'[k] = state[k] /\ backendId'[k] = backendId[k] /\ row'[k] = row[k]
           /\ submit'[k] = submit[k] /\ cancel'[k] = cancel[k] /\ rec'[k] = rec[k]
<1> USE DEF dbVars, procVars, daemonVars, cliVars, TypeOK, WriteState
<1>1. CASE Submitter(j)
  <2>1. CASE SubmitInsert(j) \/ SubmitPrepareFails(j)
    BY <2>1 DEF SubmitInsert, SubmitPrepareFails
  <2>2. CASE SubmitEnqueue(j) \/ SubmitCrash(j)
    BY <2>2 DEF SubmitEnqueue, SubmitCrash
  <2>3. CASE SubmitRecord(j)
    BY <2>3 DEF SubmitRecord
  <2>4. CASE SubmitEnd(j)
    BY <2>4 DEF SubmitEnd
  <2> QED
    BY <1>1, <2>1, <2>2, <2>3, <2>4 DEF Submitter
<1>2. CASE Canceller(j)
  <2> USE DEF CancelTo
  <2>1. CASE CancelBegin(j) \/ CancelLook(j)
    BY <2>1 DEF CancelBegin, CancelLook
  <2>2. CASE CancelRemove(j)
    BY <2>2 DEF CancelRemove, remove_queued
  <2>3. CASE CancelRequest(j)
    BY <2>3 DEF CancelRequest
  <2>4. CASE CancelWait(j) \/ CancelMark(j)
    BY <2>4 DEF CancelWait, CancelMark
  <2>5. CASE CancelFinished(j)
    BY <2>5 DEF CancelFinished
  <2> QED
    BY <1>2, <2>1, <2>2, <2>3, <2>4, <2>5 DEF Canceller
<1>3. CASE Reconcile(j)
  <2> USE DEF RecTo
  <2>1. CASE ReconcileList(j) \/ ReconcileRead(j) \/ OrphanList(j)
    BY <2>1 DEF ReconcileList, ReconcileRead, OrphanList
  <2>2. CASE ReconcileStale(j)
    BY <2>2 DEF ReconcileStale
  <2>3. CASE ReconcileWrite(j)
    BY <2>3 DEF ReconcileWrite
  <2>4. CASE OrphanAttach(j)
    BY <2>4 DEF OrphanAttach
  <2> QED
    BY <1>3, <2>1, <2>2, <2>3, <2>4 DEF Reconcile
<1> QED
  BY <1>1, <1>2, <1>3

\* The dispatcher writes nothing in the core database; it starts processes that
\* have not taken ownership of their job yet, and otherwise only ends some.
WorkShrinks ==
  \A k \in Jobs, b \in Attempts :
    /\ proc'[k][b].ph \in {"exec", "ended"} => proc[k][b].ph = proc'[k][b].ph
    /\ proc[k][b].ph = "exited" => proc'[k][b] = proc[k][b]

LEMMA OneWorkMoves ==
  ASSUME TypeOK, NEW j \in Jobs, NEW a \in Attempts, NEW p, Becomes(j, a, p),
         p.ph \in {"exec", "ended"} => proc[j][a].ph = p.ph,
         proc[j][a].ph # "exited"
  PROVE  WorkShrinks
  BY DEF WorkShrinks, Becomes, TypeOK

LEMMA DaemonFrame ==
  ASSUME TypeOK, QueueInv, Daemon
  PROVE  UNCHANGED <<state, backendId, submit, cancel, rec>> /\ WorkShrinks
<1> USE DEF dbVars, procVars, daemonVars, cliVars
<1>0. UNCHANGED proc => WorkShrinks
  BY DEF WorkShrinks
<1>1. CASE DaemonCrash \/ DaemonStop \/ DaemonStart \/ PassEnds \/ TickBegins
  BY <1>0, <1>1 DEF DaemonCrash, DaemonStop, DaemonStart, PassEnds, TickBegins
<1>2. ASSUME NEW j \in Jobs,
             Recover(j) \/ PollAlive(j) \/ Reap(j) \/ ReapAdopted(j) \/ ReapFault(j)
      PROVE  UNCHANGED <<state, backendId, submit, cancel, rec>> /\ WorkShrinks
  BY <1>0, <1>2 DEF Recover, PollAlive, Reap, ReapAdopted, ReapFault
<1>3. ASSUME NEW j \in Jobs, CancelQueued(j) \/ PassOver(j) \/ Claim(j) \/ RecordPid(j)
      PROVE  UNCHANGED <<state, backendId, submit, cancel, rec>> /\ WorkShrinks
  BY <1>0, <1>3 DEF CancelQueued, PassOver, Claim, RecordPid
<1>4. ASSUME NEW j \in Jobs, NEW a, Alive(j, a), Kill(j, a) PROVE WorkShrinks
  BY <1>4, OneWorkMoves DEF Alive, Kill, NoProc
<1>5. ASSUME NEW j \in Jobs, CancelOwned(j)
      PROVE  UNCHANGED <<state, backendId, submit, cancel, rec>> /\ WorkShrinks
  <2> DEFINE a == running[j]
  <2>1. a \in Attempts
    BY <1>5, LifecycleAssumption DEF CancelOwned, TypeOK, Attempts
  <2>2. ASSUME proc[j][a].ph \in {"exec", "ended"},
               Becomes(j, a, [proc[j][a] EXCEPT !.sawCancel = TRUE])
        PROVE  WorkShrinks
    <3>1. proc[j][a] \in Proc
      BY <2>1 DEF TypeOK
    <3>2. [proc[j][a] EXCEPT !.sawCancel = TRUE].ph = proc[j][a].ph
      BY <3>1 DEF Proc
    <3> QED
      BY <2>1, <2>2, <3>2, OneWorkMoves
  <2> QED
    BY <1>0, <1>4, <1>5, <2>2 DEF CancelOwned
<1>6. ASSUME NEW j \in Jobs, CancelOrphan(j)
      PROVE  UNCHANGED <<state, backendId, submit, cancel, rec>> /\ WorkShrinks
  BY <1>0, <1>4, <1>6 DEF CancelOrphan
<1>7. ASSUME NEW j \in Jobs, Backstop(j)
      PROVE  UNCHANGED <<state, backendId, submit, cancel, rec>> /\ WorkShrinks
  BY <1>0, <1>4, <1>7 DEF Backstop
<1>8. ASSUME NEW j \in Jobs, Spawn(j)
      PROVE  UNCHANGED <<state, backendId, submit, cancel, rec>> /\ WorkShrinks
  <2>1. ASSUME Becomes(j, starts[j] + 1, [NoProc EXCEPT !.ph = "boot"]) PROVE WorkShrinks
    <3>1. starts[j] + 1 \in Attempts => proc[j][starts[j] + 1].ph = "absent"
      BY LifecycleAssumption DEF QueueInv, AttemptsInOrder, Attempts, TypeOK
    <3>2. CASE starts[j] + 1 \in Attempts
      BY <2>1, <3>1, <3>2, OneWorkMoves DEF NoProc
    <3>3. CASE starts[j] + 1 \notin Attempts
      <4>1. proc' = proc
        BY <2>1, <3>3 DEF Becomes, TypeOK
      <4> QED
        BY <1>0, <4>1
    <3> QED
      BY <3>2, <3>3
  <2> QED
    BY <1>0, <1>8, <2>1 DEF Spawn
<1> QED
  BY <1>1, <1>2, <1>3, <1>5, <1>6, <1>7, <1>8 DEF Daemon, DaemonOn

----------------------------------------------------------------------------
(* No job runs whose submission was not recorded.                           *)

\* A job with a live process was submitted: its row exists.
LEMMA LiveIsKnown ==
  ASSUME QueueInv, AttachedInv, NEW j \in Jobs, NEW a \in Attempts, Alive(j, a),
         submit[j] \in SubmitPc
  PROVE  state[j] # "NONE"
  BY DEF QueueInv, WaitingIsIdle, NotYetEnqueued, AttachedInv, Attached, SubmitPc

LEMMA AttachedCli ==
  ASSUME TypeOK, AttachedInv, NEW j \in Jobs, Submitter(j) \/ Canceller(j) \/ Reconcile(j)
  PROVE  AttachedInv'
<1> USE DEF dbVars, procVars, daemonVars, cliVars
<1>1. proc' = proc
  BY CliFrame
<1>2. \A k \in Jobs : k # j => Attached(k)'
  BY <1>1, CliElsewhere DEF AttachedInv, Attached
<1>3. SUFFICES Attached(j)'
  BY <1>2 DEF AttachedInv
<1>4. Attached(j)
  BY DEF AttachedInv
<1>5. CASE Submitter(j)
  <2>0. UNCHANGED <<cancel, rec>> /\ state[j] \in JobState \cup {"NONE"}
    BY <1>5 DEF Submitter, SubmitInsert, SubmitPrepareFails, SubmitEnqueue, SubmitRecord,
                SubmitEnd, SubmitCrash, TypeOK
  <2> USE <1>1, <1>4, <2>0 DEF Attached, TypeOK
  <2>1. CASE SubmitInsert(j)
    BY <2>1 DEF SubmitInsert
  <2>2. CASE SubmitPrepareFails(j)
    <3>1. state'[j] \in {state[j], "FAILED"}
      BY <2>2, Written DEF SubmitPrepareFails
    <3> QED
      BY <2>2, <3>1 DEF SubmitPrepareFails
  <2>3. CASE SubmitEnqueue(j) \/ SubmitCrash(j)
    BY <2>3 DEF SubmitEnqueue, SubmitCrash
  <2>4. CASE SubmitRecord(j)
    BY <2>4 DEF SubmitRecord
  <2>5. CASE SubmitEnd(j)
    <3>1. state'[j] \in {state[j], "FAILED"}
      BY <2>5, Written DEF SubmitEnd
    <3> QED
      BY <2>5, <3>1 DEF SubmitEnd
  <2> QED
    BY <1>5, <2>1, <2>2, <2>3, <2>4, <2>5 DEF Submitter
<1>6. CASE Canceller(j)
  <2>0. UNCHANGED <<backendId, submit, rec>>
    BY <1>6 DEF Canceller, CancelBegin, CancelLook, CancelRemove, CancelRequest, CancelWait,
                CancelMark, CancelFinished
  <2> USE <1>1, <1>4, <2>0 DEF Attached, TypeOK, CancelTo, Looking
  <2>1. CASE CancelBegin(j) \/ CancelLook(j)
    BY <2>1 DEF CancelBegin, CancelLook
  <2>2. CASE CancelRemove(j)
    BY <2>2 DEF CancelRemove
  <2>3. CASE CancelRequest(j) \/ CancelWait(j)
    BY <2>3 DEF CancelRequest, CancelWait
  <2>4. CASE CancelMark(j)
    <3>1. state'[j] \in {state[j], "CANCELLED"}
      BY <2>4, Written DEF CancelMark
    <3> QED
      BY <2>4, <3>1 DEF CancelMark
  <2>5. CASE CancelFinished(j)
    <3>1. map_backend_state(row[j].state, row[j].code) # "NONE" /\ backendId[j]
      BY <2>5 DEF CancelFinished, map_backend_state, Row, BackendState
    <3>2. state'[j] \in {state[j], map_backend_state(row[j].state, row[j].code)}
      BY <2>5, Written DEF CancelFinished
    <3> QED
      BY <2>5, <3>1, <3>2 DEF CancelFinished
  <2> QED
    BY <1>6, <2>1, <2>2, <2>3, <2>4, <2>5 DEF Canceller
<1>7. CASE Reconcile(j)
  <2>0. UNCHANGED <<submit, cancel>> /\ rec[j].target \in JobState /\ NoRec \in Reconciler
        /\ NoRec.pc = "idle" /\ NoRec.attached = FALSE
    BY <1>7, InitialRecords DEF Reconcile, ReconcileList, ReconcileStale, ReconcileRead,
       ReconcileWrite, OrphanList, OrphanAttach, TypeOK, Reconciler, NoRec
  <2> USE <1>1, <1>4, <2>0 DEF Attached, TypeOK, RecTo
  <2>1. CASE ReconcileList(j)
    BY <2>1 DEF ReconcileList, NoRec
  <2>2. CASE ReconcileStale(j)
    <3>1. state'[j] \in {state[j], "LOST"}
      BY <2>2, Written DEF ReconcileStale
    <3> QED
      BY <2>2, <3>1 DEF ReconcileStale
  <2>3. CASE ReconcileRead(j)
    <3>1. UNCHANGED <<state, backendId>> /\ backendId[j]
      BY <2>3 DEF ReconcileRead
    <3> QED
      BY <3>1
  <2>4. CASE ReconcileWrite(j)
    <3>1. state'[j] \in {state[j], rec[j].target} /\ rec[j].target # "NONE"
      BY <2>4, Written DEF ReconcileWrite, JobState, ACTIVE_STATES, TERMINAL_STATES
    <3> QED
      BY <2>4, <3>1 DEF ReconcileWrite
  <2>5. CASE OrphanList(j)
    BY <2>5 DEF OrphanList, NoRec
  <2>6. CASE OrphanAttach(j)
    <3>1. CASE UNCHANGED <<state, backendId>>
      BY <2>6, <3>1 DEF OrphanAttach
    <3>2. CASE backendId' = [backendId EXCEPT ![j] = TRUE] /\ WriteState(j, "QUEUED")
      <4>1. state'[j] \in {state[j], "QUEUED"} /\ backendId'[j]
        BY <3>2, Written
      <4> QED
        BY <2>6, <4>1 DEF OrphanAttach
    <3> QED
      BY <2>6, <3>1, <3>2 DEF OrphanAttach
  <2> QED
    BY <1>7, <2>1, <2>2, <2>3, <2>4, <2>5, <2>6 DEF Reconcile
<1> QED
  BY <1>5, <1>6, <1>7

\* A runner's step in terms of its own process and the state of its job.
LEMMA RunnerEffect ==
  ASSUME TypeOK, NEW j \in Jobs, NEW a \in Attempts, Runner(j, a)
  PROVE  /\ \A k \in Jobs : k # j => state'[k] = state[k]
         /\ \A k \in Jobs, b \in Attempts : k # j \/ b # a => proc'[k][b] = proc[k][b]
         /\ Alive(j, a)
<1> USE DEF dbVars, TypeOK, Becomes, Alive, WriteState
<1>1. CASE RunnerRefuse(j, a) \/ RunnerFails(j, a)
  BY <1>1 DEF RunnerRefuse, RunnerFails
<1>2. CASE RunnerBegin(j, a)
  BY <1>2 DEF RunnerBegin
<1>3. CASE RunnerWatch(j, a)
  BY <1>3 DEF RunnerWatch
<1>4. CASE CommandEnds(j, a)
  BY <1>4 DEF CommandEnds
<1>5. CASE RunnerFinish(j, a) \/ RunnerDies(j, a)
  BY <1>5 DEF RunnerFinish, RunnerDies, Kill
<1> QED
  BY <1>1, <1>2, <1>3, <1>4, <1>5 DEF Runner

LEMMA AttachedRunner ==
  ASSUME TypeOK, QueueInv, AttachedInv, NEW j \in Jobs, NEW a \in Attempts, Runner(j, a)
  PROVE  AttachedInv'
<1>1. UNCHANGED <<backendId, submit, cancel, rec>>
  BY RunnerFrame
<1>2. \A k \in Jobs : k # j => Attached(k)'
  BY <1>1, RunnerEffect DEF AttachedInv, Attached
<1>3. Attached(j) /\ state[j] # "NONE" /\ \A b \in Attempts : b # a => proc'[j][b] = proc[j][b]
  BY RunnerEffect, LiveIsKnown DEF AttachedInv, TypeOK
<1>4. SUFFICES /\ state'[j] # "NONE"
               /\ state'[j] \in {"QUEUED", "RUNNING"} => backendId[j]
               /\ proc'[j][a].ph \in {"exec", "ended"} => backendId[j]
  BY <1>1, <1>2, <1>3 DEF AttachedInv, Attached
<1> USE <1>3 DEF Attached, dbVars, Becomes, TypeOK
<1>5. CASE RunnerRefuse(j, a)
  BY <1>5 DEF RunnerRefuse, NoProc
<1>6. CASE RunnerFails(j, a)
  <2>1. state'[j] \in {state[j], "FAILED"}
    BY <1>6, Written DEF RunnerFails
  <2> QED
    BY <1>6, <2>1 DEF RunnerFails, NoProc
<1>7. CASE RunnerBegin(j, a)
  <2>1. CASE CanWrite(j, "RUNNING") /\ state' = [state EXCEPT ![j] = "RUNNING"]
    <3>1. state[j] \in {"QUEUED", "RUNNING"}
      BY <2>1 DEF CanWrite, can_transition, ALLOWED_TRANSITIONS, JobState, ACTIVE_STATES,
         TERMINAL_STATES
    <3> QED
      BY <2>1, <3>1
  <2>2. CASE UNCHANGED state /\ Becomes(j, a, [NoProc EXCEPT !.ph = "exited"])
    BY <2>2 DEF NoProc
  <2> QED
    BY <1>7, <2>1, <2>2 DEF RunnerBegin
<1>8. CASE RunnerWatch(j, a)
  BY <1>8 DEF RunnerWatch
<1>9. CASE CommandEnds(j, a)
  BY <1>9 DEF CommandEnds
<1>10. CASE RunnerFinish(j, a)
  <2>1. state'[j] \in {state[j], Outcome(j, proc[j][a])} /\ backendId[j]
    BY <1>10, Written DEF RunnerFinish
  <2>2. Outcome(j, proc[j][a]) # "NONE"
    BY DEF Outcome, TERMINAL_STATES
  <2> QED
    BY <2>1, <2>2
<1>11. CASE RunnerDies(j, a)
  BY <1>11 DEF RunnerDies, Kill, NoProc
<1> QED
  BY <1>5, <1>6, <1>7, <1>8, <1>9, <1>10, <1>11 DEF Runner

LEMMA AttachedStep == TypeOK /\ QueueInv /\ AttachedInv /\ [Next]_vars => AttachedInv'
<1> SUFFICES ASSUME TypeOK, QueueInv, AttachedInv, [Next]_vars PROVE AttachedInv'
  OBVIOUS
<1>1. CASE UNCHANGED vars
  BY <1>1 DEF vars, AttachedInv, Attached
<1>2. CASE \E j \in Jobs : Submitter(j) \/ Canceller(j) \/ Reconcile(j)
  BY <1>2, AttachedCli
<1>3. CASE \E j \in Jobs, a \in Attempts : Runner(j, a)
  BY <1>3, AttachedRunner
<1>4. CASE Daemon
  BY <1>4, DaemonFrame DEF AttachedInv, Attached, WorkShrinks
<1> QED
  BY <1>1, <1>2, <1>3, <1>4, LifecycleAssumption DEF Next

\* A command never executes before its submission was recorded, or repaired by
\* reconciliation.
THEOREM NeverUnrecorded == Spec => []RunsOnlyAttached
<1>1. Init => AttachedInv
  BY DEF Init, AttachedInv, Attached, NoRec, NoProc, Looking
<1>2. AttachedInv => RunsOnlyAttached
  BY DEF AttachedInv, Attached, RunsOnlyAttached, Executing
<1> QED
  BY <1>1, <1>2, AttachedStep, TypeCorrect, QueueCorrect, PTL DEF Spec

----------------------------------------------------------------------------
(* SUCCEEDED is true and final.                                             *)

\* The exit of a process is never forgotten, and no process is started for a
\* row that ended.
LEMMA ExitsStay ==
  ASSUME TypeOK, QueueInv, [Next]_vars, NEW k \in Jobs
  PROVE  /\ Exited0(k) => Exited0(k)'
         /\ row[k].state = "FINISHED" /\ Idle(k) => Idle(k)'
<1> USE DEF Exited0, Idle
<1>1. CASE UNCHANGED vars
  BY <1>1 DEF vars, Alive
<1>2. CASE \E j \in Jobs : Submitter(j) \/ Canceller(j) \/ Reconcile(j)
  BY <1>2, CliFrame DEF Alive
<1>3. ASSUME NEW j \in Jobs, NEW a \in Attempts, Runner(j, a)
      PROVE  /\ Exited0(k) => Exited0(k)'
             /\ Idle(k) => Idle(k)'
  <2>1. \A b \in Attempts : k # j \/ b # a => proc'[k][b] = proc[k][b]
    BY <1>3, RunnerEffect
  <2>2. Alive(j, a)
    BY <1>3, RunnerEffect
  <2> QED
    BY <2>1, <2>2 DEF Alive
<1>4. CASE Daemon
  <2>1. Exited0(k) => Exited0(k)'
    BY <1>4, DaemonFrame DEF WorkShrinks
  <2>2. ASSUME row[k].state = "FINISHED" PROVE Idle(k) => Idle(k)'
    <3>1. ProcsShrink => (Idle(k) => Idle(k)')
      BY DEF ProcsShrink
    <3>2. CASE DaemonCrash \/ DaemonStop \/ DaemonStart \/ PassEnds \/ TickBegins
      BY <3>1, <3>2, SameProcs DEF DaemonCrash, DaemonStop, DaemonStart, PassEnds, TickBegins,
         procVars
    <3>3. CASE \E j \in Jobs : PollAlive(j) \/ CancelQueued(j) \/ CancelOwned(j) \/ Backstop(j) \/ PassOver(j)
      BY <3>1, <3>3, DaemonQuiet DEF Quiet
    <3>4. CASE \E j \in Jobs : Recover(j) \/ Reap(j) \/ ReapAdopted(j) \/ ReapFault(j) \/ Claim(j)
                                 \/ RecordPid(j)
      BY <3>1, <3>4, SameProcs DEF Recover, Reap, ReapAdopted, ReapFault, Claim, RecordPid,
         procVars
    <3>5. ASSUME NEW j \in Jobs, CancelOrphan(j) \/ Spawn(j) PROVE Idle(k) => Idle(k)'
      <4>1. k # j
        BY <2>2, <3>5 DEF CancelOrphan, Spawn, QueueInv, StartingIsClaimed
      <4>2. proc'[k] = proc[k]
        BY <3>5, <4>1 DEF CancelOrphan, Spawn, Kill, Becomes, procVars, TypeOK
      <4> QED
        BY <4>2 DEF Alive
    <3> QED
      BY <1>4, <3>2, <3>3, <3>4, <3>5 DEF Daemon, DaemonOn
  <2> QED
    BY <2>1, <2>2
<1> QED
  BY <1>1, <1>2, <1>3, <1>4, LifecycleAssumption DEF Next

\* A row records exit code 0 only for a process that exited with it.
FinishedZero(k) == row[k].state = "FINISHED" /\ row[k].code = "zero"

LEMMA FinishCode ==
  ASSUME TypeOK, NEW j \in Jobs, NEW code, finish(j, code), NEW k \in Jobs, FinishedZero(k)'
  PROVE  FinishedZero(k) \/ (k = j /\ code = "zero")
  BY DEF finish, TypeOK, Row, FinishedZero

LEMMA CodeIsTrue ==
  ASSUME TypeOK, QueueInv, [Next]_vars, NEW k \in Jobs, FinishedZero(k)'
  PROVE  FinishedZero(k) \/ (Exited0(k)' /\ Idle(k)')
<1> USE DEF FinishedZero
<1>0. row' = row => FinishedZero(k)
  OBVIOUS
<1>1. CASE UNCHANGED vars
  BY <1>0, <1>1 DEF vars
<1>2. ASSUME NEW j \in Jobs, Submitter(j) \/ Canceller(j) \/ Reconcile(j) PROVE FinishedZero(k)
  <2>1. CASE k # j
    BY <1>2, <2>1, CliElsewhere
  <2>2. CASE row'[k] = row[k]
    BY <2>2
  <2>3. CASE SubmitEnqueue(j)
    BY <2>1, <2>3 DEF SubmitEnqueue, NewRow, NoRow, TypeOK
  <2>4. CASE CancelRemove(j) \/ CancelRequest(j)
    BY <2>1, <2>2, <2>4 DEF CancelRemove, remove_queued, CancelRequest, TypeOK, Row
  <2>5. CASE ~(SubmitEnqueue(j) \/ CancelRemove(j) \/ CancelRequest(j))
    <3>1. row' = row
      BY <1>2, <2>5 DEF Submitter, SubmitInsert, SubmitPrepareFails, SubmitRecord, SubmitEnd,
         SubmitCrash, Canceller, CancelBegin, CancelLook, CancelWait, CancelMark,
         CancelFinished, Reconcile, ReconcileList, ReconcileStale, ReconcileRead,
         ReconcileWrite, OrphanList, OrphanAttach
    <3> QED
      BY <1>0, <3>1
  <2> QED
    BY <2>3, <2>4, <2>5
<1>3. CASE \E j \in Jobs, a \in Attempts : Runner(j, a)
  BY <1>0, <1>3, RunnerFrame
<1>4. CASE DaemonCrash \/ DaemonStop \/ DaemonStart \/ PassEnds
  BY <1>0, <1>4 DEF DaemonCrash, DaemonStop, DaemonStart, PassEnds
<1>5. ASSUME NEW victims, request_preempt(victims) PROVE FinishedZero(k)
  BY <1>5 DEF request_preempt, TypeOK, Row
<1>6. ASSUME NEW j \in Jobs, Reap(j) PROVE FinishedZero(k) \/ (Exited0(k)' /\ Idle(k)')
  <2>1. CASE requeue(j)
    BY <2>1 DEF requeue, TypeOK, Row
  <2>2. CASE finish(j, proc[j][running[j]].code)
    <3>1. SUFFICES ASSUME k = j, proc[j][running[j]].code = "zero"
                   PROVE  Exited0(j)' /\ Idle(j)'
      BY <2>2, FinishCode
    <3>2. /\ proc' = proc /\ running[j] \in Attempts /\ running[j] = starts[j]
          /\ ~Alive(j, running[j])
      <4>1. /\ proc' = proc /\ running[j] # 0 /\ ~Alive(j, running[j])
            /\ row[j].pid = running[j]
        BY <1>6 DEF Reap, procVars, QueueInv, HeldIsRunning
      <4>2. running[j] = starts[j]
        BY <4>1 DEF QueueInv, PidIsCurrent
      <4>3. running[j] \in Attempts
        BY <4>1, LifecycleAssumption DEF TypeOK, Attempts
      <4> QED
        BY <4>1, <4>2, <4>3
    <3>3. proc[j][running[j]].ph # "absent"
      BY <3>2 DEF QueueInv, AttemptsInOrder, Attempts, TypeOK
    <3>4. proc[j][running[j]].ph = "exited"
      BY <3>2, <3>3 DEF Alive, TypeOK, Proc, ProcPhase
    <3>5. Idle(j)
      BY <3>2 DEF Idle, QueueInv, AttemptsInOrder
    <3> QED
      BY <3>1, <3>2, <3>4, <3>5 DEF Exited0, Idle, Alive
  <2> QED
    BY <1>6, <2>1, <2>2 DEF Reap
<1>7. ASSUME NEW j \in Jobs, NEW code, finish(j, code), code # "zero" PROVE FinishedZero(k)
  BY <1>7, FinishCode
<1>8. ASSUME NEW j \in Jobs, Recover(j) \/ ReapAdopted(j) \/ CancelOrphan(j) \/ Spawn(j)
      PROVE  FinishedZero(k)
  BY <1>0, <1>7, <1>8 DEF Recover, ReapAdopted, CancelOrphan, Spawn, NoCode
<1>9. ASSUME NEW j \in Jobs, CancelQueued(j) \/ Claim(j) PROVE FinishedZero(k)
  <2>1. ASSUME NEW s \in {"REMOVED", "RUNNING"}, row' = [row EXCEPT ![j].state = s]
        PROVE  FinishedZero(k)
    BY <2>1 DEF TypeOK, Row
  <2> QED
    BY <1>0, <1>9, <2>1 DEF CancelQueued, remove_queued, Claim
<1>10. ASSUME NEW j \in Jobs, RecordPid(j) PROVE FinishedZero(k)
  <2>1. ASSUME NEW n, row' = [row EXCEPT ![j].pid = n] PROVE FinishedZero(k)
    <3>1. \A q \in Row : [q EXCEPT !.pid = n].state = q.state /\ [q EXCEPT !.pid = n].code = q.code
      BY DEF Row
    <3>2. row[j] \in Row /\ row \in [Jobs -> Row]
      BY DEF TypeOK
    <3> QED
      BY <2>1, <3>1, <3>2
  <2> QED
    BY <1>0, <1>10, <2>1 DEF RecordPid
<1>11. ASSUME NEW j \in Jobs, PollAlive(j) \/ ReapFault(j) \/ CancelOwned(j) \/ Backstop(j)
       PROVE  FinishedZero(k)
  BY <1>0, <1>11 DEF PollAlive, ReapFault, CancelOwned, Backstop
<1>12. ASSUME NEW j \in Jobs, PassOver(j) PROVE FinishedZero(k)
  BY <1>0, <1>5, <1>12 DEF PassOver
<1>13. CASE TickBegins
  BY <1>0, <1>5, <1>13 DEF TickBegins
<1> QED
  BY <1>1, <1>2, <1>3, <1>4, <1>6, <1>8, <1>9, <1>10, <1>11, <1>12, <1>13, LifecycleAssumption
     DEF Next, Daemon, DaemonOn

\* A step that records SUCCEEDED has the evidence.
LEMMA RecordedTruly ==
  ASSUME TypeOK, QueueInv, SuccessInv, [Next]_vars, NEW k \in Jobs,
         state'[k] = "SUCCEEDED", state[k] # "SUCCEEDED"
  PROVE  Exited0(k)' /\ Idle(k)'
<1> USE DEF dbVars
<1>1. CASE UNCHANGED vars
  BY <1>1 DEF vars
<1>2. ASSUME NEW j \in Jobs, Submitter(j) \/ Canceller(j) \/ Reconcile(j)
      PROVE  row[k].state = "FINISHED" /\ Exited0(k) /\ Idle(k)
  <2>1. k = j
    BY <1>2, CliElsewhere
  <2>2. CASE Submitter(j)
    <3>1. state'[j] \in {state[j], "PREPARING", "QUEUED", "FAILED"}
      BY <2>2, Written DEF Submitter, SubmitInsert, SubmitPrepareFails, SubmitEnqueue,
         SubmitRecord, SubmitEnd, SubmitCrash, TypeOK
    <3> QED
      BY <2>1, <3>1
  <2>3. CASE Canceller(j)
    <3>1. CASE CancelFinished(j)
      <4>1. state'[j] \in {state[j], map_backend_state(row[j].state, row[j].code)}
        BY <3>1, Written DEF CancelFinished
      <4>2. row[j].state = "FINISHED" /\ row[j].code = "zero"
        BY <2>1, <4>1 DEF map_backend_state, TypeOK, Row, BackendState
      <4> QED
        BY <2>1, <4>2 DEF SuccessInv, Succeeds
    <3>2. CASE ~CancelFinished(j)
      <4>1. state'[j] \in {state[j], "CANCELLED"}
        BY <2>3, <3>2, Written DEF Canceller, CancelBegin, CancelLook, CancelRemove,
           CancelRequest, CancelWait, CancelMark
      <4> QED
        BY <2>1, <4>1
    <3> QED
      BY <3>1, <3>2
  <2>4. CASE Reconcile(j)
    <3>1. CASE ReconcileWrite(j)
      <4>1. state'[j] \in {state[j], rec[j].target}
        BY <3>1, Written DEF ReconcileWrite
      <4> QED
        BY <2>1, <3>1, <4>1 DEF ReconcileWrite, SuccessInv, Succeeds
    <3>2. CASE ~ReconcileWrite(j)
      <4>1. state'[j] \in {state[j], "LOST", "QUEUED"}
        BY <2>4, <3>2, Written DEF Reconcile, ReconcileList, ReconcileStale, ReconcileRead,
           OrphanList, OrphanAttach
      <4> QED
        BY <2>1, <4>1
    <3> QED
      BY <3>1, <3>2
  <2> QED
    BY <1>2, <2>2, <2>3, <2>4
<1>3. ASSUME NEW j \in Jobs, NEW a \in Attempts, Runner(j, a)
      PROVE  Exited0(k)' /\ Idle(k)'
  <2>1. k = j /\ Alive(j, a)
    BY <1>3, RunnerEffect
  <2>2. CASE RunnerFinish(j, a)
    <3>1. state'[j] \in {state[j], Outcome(j, proc[j][a])}
      BY <2>2, Written DEF RunnerFinish
    <3>2. proc[j][a].code = "zero"
      BY <2>1, <3>1 DEF Outcome
    <3>3. proc'[j][a].ph = "exited" /\ proc'[j][a].code = "zero"
      <4>1. proc'[j][a] = [proc[j][a] EXCEPT !.ph = "exited", !.sawCancel = FALSE]
        BY <2>2 DEF RunnerFinish, Becomes, TypeOK
      <4>2. proc[j][a] \in Proc
        BY DEF TypeOK
      <4> QED
        BY <3>2, <4>1, <4>2 DEF Proc
    <3>4. \A b \in Attempts : b # a => ~Alive(j, b) /\ proc'[j][b] = proc[j][b]
      BY <1>3, <2>1, RunnerEffect DEF QueueInv, AttemptsInOrder
    <3> QED
      BY <2>1, <3>3, <3>4 DEF Exited0, Idle, Alive
  <2>3. CASE ~RunnerFinish(j, a)
    <3>1. state'[j] \in {state[j], "FAILED", "RUNNING"}
      BY <1>3, <2>3, Written DEF Runner, RunnerRefuse, RunnerFails, RunnerBegin, RunnerWatch,
         CommandEnds, RunnerDies, TypeOK
    <3> QED
      BY <2>1, <3>1
  <2> QED
    BY <2>2, <2>3
<1>4. CASE Daemon
  BY <1>4, DaemonFrame
<1> QED
  BY <1>1, <1>2, <1>3, <1>4, ExitsStay, LifecycleAssumption DEF Next

\* A command starts only on behalf of a job that has not succeeded.
LEMMA NoCommandAfterSuccess ==
  ASSUME TypeOK, QueueInv, [Next]_vars, NEW k \in Jobs, state[k] = "SUCCEEDED", ~Executing(k)
  PROVE  ~Executing(k)'
<1> USE DEF Executing
<1>1. CASE UNCHANGED vars
  BY <1>1 DEF vars
<1>2. CASE \E j \in Jobs : Submitter(j) \/ Canceller(j) \/ Reconcile(j)
  BY <1>2, CliFrame
<1>3. ASSUME NEW j \in Jobs, NEW a \in Attempts, Runner(j, a) PROVE ~Executing(k)'
  <2>1. \A b \in Attempts : k # j \/ b # a => proc'[k][b] = proc[k][b]
    BY <1>3, RunnerEffect
  <2>2. CASE k # j
    BY <2>1, <2>2
  <2>3. CASE k = j
    <3>1. proc[j][a].ph # "exec"
      BY <2>3
    <3>2. proc'[j][a].ph # "exec"
      <4> USE <2>3, <3>1 DEF Becomes, TypeOK, NoProc
      <4>1. CASE RunnerRefuse(j, a) \/ RunnerFails(j, a)
        <5>1. \A code : [NoProc EXCEPT !.ph = "exited", !.code = code].ph = "exited"
          OBVIOUS
        <5>2. [NoProc EXCEPT !.ph = "exited"].ph = "exited"
          OBVIOUS
        <5> HIDE DEF NoProc
        <5>3. CASE RunnerRefuse(j, a)
          BY <5>1, <5>3 DEF RunnerRefuse
        <5>4. CASE RunnerFails(j, a)
          BY <5>2, <5>4 DEF RunnerFails
        <5> QED
          BY <4>1, <5>3, <5>4
      <4>2. CASE RunnerBegin(j, a)
        BY <4>2 DEF RunnerBegin, CanWrite, can_transition, ALLOWED_TRANSITIONS, JobState,
                    ACTIVE_STATES, TERMINAL_STATES
      <4>3. CASE RunnerWatch(j, a) \/ CommandEnds(j, a)
        BY <4>3 DEF RunnerWatch, CommandEnds
      <4>4. CASE RunnerFinish(j, a)
        BY <4>4 DEF RunnerFinish, Proc
      <4>5. CASE RunnerDies(j, a)
        BY <4>5 DEF RunnerDies, Kill
      <4> QED
        BY <1>3, <4>1, <4>2, <4>3, <4>4, <4>5 DEF Runner
    <3> QED
      BY <2>1, <2>3, <3>2
  <2> QED
    BY <2>2, <2>3
<1>4. CASE Daemon
  BY <1>4, DaemonFrame DEF WorkShrinks
<1> QED
  BY <1>1, <1>2, <1>3, <1>4, LifecycleAssumption DEF Next

\* What the reconciling program is about to write was read from the row.
LEMMA TargetIsTrue ==
  ASSUME TypeOK, QueueInv, SuccessInv, [Next]_vars, NEW k \in Jobs,
         rec'[k].pc = "got", rec'[k].target = "SUCCEEDED"
  PROVE  row[k].state = "FINISHED" /\ Exited0(k) /\ Idle(k)
<1>1. CASE rec'[k] = rec[k]
  BY <1>1 DEF SuccessInv, Succeeds
<1>2. ASSUME NEW j \in Jobs, Reconcile(j), k = j
      PROVE  row[k].state = "FINISHED" /\ Exited0(k) /\ Idle(k)
  <2> USE <1>2 DEF RecTo, NoRec, TypeOK
  <2>1. CASE ReconcileRead(j)
    <3>1. map_backend_state(row[j].state, row[j].code) = "SUCCEEDED"
      BY <2>1 DEF ReconcileRead
    <3>2. row[j].state = "FINISHED" /\ row[j].code = "zero"
      BY <3>1 DEF map_backend_state, Row, BackendState
    <3> QED
      BY <3>2 DEF SuccessInv, Succeeds
  <2>2. CASE ReconcileList(j) \/ OrphanList(j)
    BY <2>2 DEF ReconcileList, OrphanList
  <2>3. CASE ReconcileStale(j) \/ ReconcileWrite(j)
    BY <2>3 DEF ReconcileStale, ReconcileWrite
  <2>4. CASE OrphanAttach(j)
    BY <2>4 DEF OrphanAttach
  <2> QED
    BY <2>1, <2>2, <2>3, <2>4 DEF Reconcile
<1>3. ASSUME NEW j \in Jobs, Submitter(j) \/ Canceller(j) PROVE rec' = rec
  BY <1>3 DEF Submitter, SubmitInsert, SubmitPrepareFails, SubmitEnqueue, SubmitRecord,
     SubmitEnd, SubmitCrash, Canceller, CancelBegin, CancelLook, CancelRemove, CancelRequest,
     CancelWait, CancelMark, CancelFinished
<1>4. ASSUME NEW j \in Jobs, Reconcile(j), k # j PROVE rec'[k] = rec[k]
  BY <1>4, CliElsewhere
<1>5. CASE \E j \in Jobs, a \in Attempts : Runner(j, a)
  BY <1>1, <1>5, RunnerFrame
<1>6. CASE Daemon
  BY <1>1, <1>6, DaemonFrame
<1> QED
  BY <1>1, <1>2, <1>3, <1>4, <1>5, <1>6, LifecycleAssumption DEF Next, vars

LEMMA SuccessStep == TypeOK /\ QueueInv /\ SuccessInv /\ [Next]_vars => SuccessInv'
<1> SUFFICES ASSUME TypeOK, QueueInv, SuccessInv, [Next]_vars, NEW k \in Jobs PROVE Succeeds(k)'
  BY DEF SuccessInv
<1>1. Succeeds(k)
  BY DEF SuccessInv
<1>2. ASSUME state'[k] = "SUCCEEDED" PROVE Exited0(k)' /\ ~Executing(k)'
  <2>1. CASE state[k] = "SUCCEEDED"
    BY <1>1, <2>1, ExitsStay, NoCommandAfterSuccess DEF Succeeds
  <2>2. CASE state[k] # "SUCCEEDED"
    <3>1. Exited0(k)' /\ Idle(k)'
      BY <1>2, <2>2, RecordedTruly
    <3> QED
      BY <3>1 DEF Idle, Executing, Alive
  <2> QED
    BY <2>1, <2>2
<1>3. ASSUME FinishedZero(k)' PROVE Exited0(k)' /\ Idle(k)'
  BY <1>1, <1>3, CodeIsTrue, ExitsStay DEF Succeeds, FinishedZero
<1>4. ASSUME rec'[k].pc = "got", rec'[k].target = "SUCCEEDED"
      PROVE  row'[k].state = "FINISHED" /\ Exited0(k)' /\ Idle(k)'
  BY <1>4, TargetIsTrue, ExitsStay, OrderlyStep DEF Orderly
<1> QED
  BY <1>2, <1>3, <1>4 DEF Succeeds, FinishedZero

\* SUCCEEDED is only recorded for a job one of whose processes exited with code
\* 0, and no command of that job executes then or later.
LEMMA SuccessCorrect == Spec => []SuccessInv
<1>1. Init => SuccessInv
  <2> SUFFICES ASSUME Init, NEW j \in Jobs PROVE Succeeds(j)
    BY DEF SuccessInv
  <2>1. state[j] = "NONE" /\ row[j].state = "MISSING" /\ rec[j].pc = "idle"
    BY DEF Init, NoRow, NoRec
  <2> QED
    BY <2>1 DEF Succeeds
<1> QED
  BY <1>1, SuccessStep, TypeCorrect, QueueCorrect, PTL DEF Spec

\* Success is never recorded without the exit code of a real process.
THEOREM SuccessHappened == Spec => []SuccessIsTrue
<1>1. SuccessInv => SuccessIsTrue
  BY DEF SuccessInv, Succeeds, SuccessIsTrue, Exited0
<1> QED
  BY <1>1, SuccessCorrect, PTL

\* A job that succeeded is not executing: it is never executed again.
THEOREM SuccessStays == Spec => []SuccessIsFinal
<1>1. SuccessInv => SuccessIsFinal
  BY DEF SuccessInv, Succeeds, SuccessIsFinal
<1> QED
  BY <1>1, SuccessCorrect, PTL

----------------------------------------------------------------------------
(* REFINEMENT.  Lifecycle implements JobBackend: the initial states map to  *)
(* the initial state, and every step to a step of the backend or to one it  *)
(* does not see.  QueueInv is what rules out the steps that would break a   *)
(* promise: a row requeued while its process is alive, or a process started *)
(* for a row that has one.                                                  *)

\* What JobBackend allows a job, said of the row and the processes.
Shrinks(k) == (HasWorker(k)' => HasWorker(k)) /\ starts'[k] = starts[k]
RowGoes(k, from, to) == row[k].state = from /\ row'[k].state = to

Abides(k) ==
  \/ /\ Shrinks(k)
     /\ \/ row'[k].state = row[k].state
        \/ RowGoes(k, "MISSING", "QUEUED")
        \/ RowGoes(k, "RUNNING", "FINISHED")
        \/ /\ ~HasWorker(k)
           /\ \/ RowGoes(k, "QUEUED", "REMOVED")
              \/ RowGoes(k, "QUEUED", "RUNNING")
              \/ RowGoes(k, "RUNNING", "QUEUED")
  \/ /\ RowGoes(k, "RUNNING", "RUNNING")
     /\ ~HasWorker(k) /\ HasWorker(k)'
     /\ starts'[k] = starts[k] + 1

LEMMA AbidingStep ==
  ASSUME TypeOK, TypeOK', \A k \in Jobs : Abides(k)
  PROVE  JB!Next
<1>1. /\ \A k \in Jobs : row'[k].state \in BackendState
      /\ \A k \in Jobs : HasWorker(k)' \in BOOLEAN
      /\ starts' \in [Jobs -> Nat]
  BY LifecycleAssumption DEF TypeOK, Row, HasWorker
<1>2. ASSUME NEW k \in Jobs PROVE JB!Move(k)
  <2>1. Abides(k)
    OBVIOUS
  <2> QED
    BY <2>1 DEF Abides, Shrinks, RowGoes, JB!Move, JB!Submit, JB!remove_queued, JB!Claim,
                JB!Begin, JB!Return, JB!End, JB!Stay, JB!Goes, JB!NoNewWorker
<1> QED
  <2>1. [j \in Jobs |-> row[j].state]' \in [Jobs -> JB!BackendState]
    BY <1>1 DEF BackendState, JB!BackendState
  <2>2. [j \in Jobs |-> HasWorker(j)]' \in [Jobs -> BOOLEAN]
    BY <1>1
  <2> QED
    BY <1>1, <1>2, <2>1, <2>2 DEF JB!Next

\* Processes that only end.
LEMMA ShrinkingProcs ==
  ASSUME ProcsShrink, UNCHANGED starts
  PROVE  \A k \in Jobs : Shrinks(k)
  BY DEF ProcsShrink, Shrinks, HasWorker

LEMMA QuietAbides == ASSUME QueueInv, Quiet PROVE \A k \in Jobs : Abides(k)
<1>1. \A k \in Jobs : Shrinks(k)
  BY ShrinkingProcs DEF Quiet
<1>2. \A k \in Jobs : row[k].state \in {"MISSING", "QUEUED"} => ~HasWorker(k)
  BY DEF QueueInv, WaitingIsIdle, HasWorker
<1>3. \A k \in Jobs : submit[k] = "inserted" => row[k].state = "MISSING"
  BY DEF QueueInv, NotYetEnqueued
<1> QED
  BY <1>1, <1>2, <1>3 DEF Quiet, RowMoves, SameRow, Abides, RowGoes

LEMMA LifeAbides ==
  ASSUME TypeOK, DaemonCrash \/ DaemonStop \/ DaemonStart \/ PassEnds \/ TickBegins
  PROVE  \A k \in Jobs : Abides(k)
<1>1. UNCHANGED <<proc, starts>>
  BY DEF DaemonCrash, DaemonStop, DaemonStart, PassEnds, TickBegins, procVars
<1>2. \A k \in Jobs : row'[k].state = row[k].state
  <2>1. CASE TickBegins
    BY <2>1 DEF TickBegins, request_preempt, TypeOK, Row
  <2>2. CASE DaemonCrash \/ DaemonStop \/ DaemonStart \/ PassEnds
    BY <2>2 DEF DaemonCrash, DaemonStop, DaemonStart, PassEnds
  <2> QED
    BY <2>1, <2>2
<1> QED
  BY <1>1, <1>2, SameProcs, ShrinkingProcs DEF Abides

\* One row that ends, or is queued again by somebody who saw its process gone.
LEMMA RowEnds ==
  ASSUME NEW j \in Jobs, UNCHANGED starts, ProcsShrink,
         \/ RowBecomes(j, "FINISHED") /\ row[j].state \in {"RUNNING", "FINISHED"}
         \/ RowBecomes(j, "QUEUED") /\ row[j].state = "RUNNING" /\ ~HasWorker(j)
         \/ row' = row
  PROVE  \A k \in Jobs : Abides(k)
<1>1. \A k \in Jobs : Shrinks(k)
  BY ShrinkingProcs
<1> QED
  BY <1>1 DEF RowBecomes, Abides, RowGoes

LEMMA ReapAbides ==
  ASSUME TypeOK, QueueInv, NEW j \in Jobs,
         Recover(j) \/ Reap(j) \/ ReapAdopted(j) \/ ReapFault(j)
  PROVE  \A k \in Jobs : Abides(k)
<1>1. UNCHANGED starts /\ ProcsShrink
  BY SameProcs DEF Recover, Reap, ReapAdopted, ReapFault, procVars
<1>2. CASE Recover(j)
  BY <1>1, <1>2, FinishRow, RowEnds DEF Recover, Visit, QueueInv, RecoveryIsClean
<1>3. CASE Reap(j)
  <2>1. row[j].state = "RUNNING" /\ row[j].pid = running[j]
    BY <1>3 DEF Reap, QueueInv, HeldIsRunning
  <2>2. ~HasWorker(j)
    <3>1. running[j] = starts[j]
      BY <1>3, <2>1 DEF Reap, QueueInv, PidIsCurrent
    <3> QED
      BY <1>3, <3>1 DEF Reap, QueueInv, AttemptsInOrder, HasWorker
  <2> QED
    BY <1>1, <1>3, <2>1, <2>2, FinishRow, RequeueRow, RowEnds DEF Reap
<1>4. CASE ReapAdopted(j)
  <2>1. row[j].state \in {"RUNNING", "FINISHED"}
    BY <1>4 DEF ReapAdopted, QueueInv, HeldIsRunning
  <2> QED
    BY <1>1, <1>4, <2>1, FinishRow, RowEnds DEF ReapAdopted
<1>5. CASE ReapFault(j)
  BY <1>1, <1>5, RowEnds DEF ReapFault
<1> QED
  BY <1>2, <1>3, <1>4, <1>5

LEMMA OrphanAbides ==
  ASSUME TypeOK, QueueInv, NEW j \in Jobs, CancelOrphan(j)
  PROVE  \A k \in Jobs : Abides(k)
<1>1. UNCHANGED starts /\ row[j].state = "RUNNING"
  BY DEF CancelOrphan
<1>2. RowBecomes(j, "FINISHED") \/ row' = row
  BY FinishRow DEF CancelOrphan
<1>3. ProcsShrink
  <2>1. CASE Alive(j, row[j].pid) /\ Kill(j, row[j].pid)
    <3>1. [NoProc EXCEPT !.ph = "exited"] \in Proc /\ row[j].pid \in Attempts
      BY <2>1 DEF NoProc, Proc, ProcPhase, ExitCodes, Alive
    <3> QED
      BY <2>1, <3>1, OneProcMoves DEF Kill, Alive, NoProc
  <2>2. CASE proc' = proc
    BY <2>2, SameProcs
  <2> QED
    BY <2>1, <2>2 DEF CancelOrphan
<1> QED
  BY <1>1, <1>2, <1>3, RowEnds

LEMMA StartAbides ==
  ASSUME TypeOK, TypeOK', QueueInv, NEW j \in Jobs, Claim(j) \/ Spawn(j) \/ RecordPid(j)
  PROVE  \A k \in Jobs : Abides(k)
<1> USE DEF procVars
<1>1. CASE Claim(j)
  <2>1. \A k \in Jobs : Shrinks(k)
    BY <1>1, SameProcs, ShrinkingProcs DEF Claim
  <2>2. CASE row' = [row EXCEPT ![j].state = "RUNNING"] /\ row[j].state = "QUEUED"
    <3>1. row'[j].state = "RUNNING" /\ \A k \in Jobs : k # j => row'[k] = row[k]
      BY <2>2 DEF TypeOK, Row
    <3>2. ~HasWorker(j)
      BY <2>2 DEF QueueInv, WaitingIsIdle, HasWorker
    <3> QED
      BY <2>1, <2>2, <3>1, <3>2 DEF Abides, RowGoes
  <2>3. CASE row' = row
    BY <2>1, <2>3 DEF Abides
  <2> QED
    BY <1>1, <2>2, <2>3 DEF Claim
<1>2. CASE Spawn(j)
  <2>1. phase = "claimed" /\ row[j].state = "RUNNING" /\ ~HasWorker(j)
    BY <1>2 DEF Spawn, QueueInv, StartingIsClaimed, HasWorker
  <2>2. CASE /\ starts' = [starts EXCEPT ![j] = @ + 1]
             /\ Becomes(j, starts[j] + 1, [NoProc EXCEPT !.ph = "boot"])
             /\ UNCHANGED row
    <3>1. /\ starts[j] \in Nat /\ starts'[j] = starts[j] + 1
          /\ starts[j] + 1 \in Attempts
          /\ \A k \in Jobs : k # j => starts'[k] = starts[k] /\ proc'[k] = proc[k]
      BY <2>2, LifecycleAssumption DEF TypeOK, Becomes, Attempts
    <3>2. proc'[j][starts[j] + 1].ph = "boot"
      BY <2>2, <3>1 DEF TypeOK, Becomes, NoProc
    <3>3. HasWorker(j)'
      BY <3>1, <3>2 DEF HasWorker, Alive
    <3>4. \A k \in Jobs : k # j => Shrinks(k)
      BY <3>1 DEF Shrinks, HasWorker, Alive
    <3> QED
      BY <2>1, <2>2, <3>1, <3>3, <3>4 DEF Abides, RowGoes
  <2>3. CASE finish(j, "nonzero") /\ UNCHANGED <<proc, starts>>
    BY <2>1, <2>3, FinishRow, SameProcs, RowEnds
  <2> QED
    BY <1>2, <2>2, <2>3 DEF Spawn
<1>3. CASE RecordPid(j)
  <2>1. \A k \in Jobs : Shrinks(k)
    BY <1>3, SameProcs, ShrinkingProcs DEF RecordPid
  <2>2. \A k \in Jobs : row'[k].state = row[k].state
    <3>1. CASE row' = [row EXCEPT ![j].pid = starts[j]]
      <4>1. row[j] \in Row /\ row \in [Jobs -> Row]
        BY DEF TypeOK
      <4>2. \A n : \A q \in Row : [q EXCEPT !.pid = n].state = q.state
        BY DEF Row
      <4> QED
        BY <3>1, <4>1, <4>2
    <3>2. CASE row' = row
      BY <3>2
    <3> QED
      BY <1>3, <3>1, <3>2 DEF RecordPid
  <2> QED
    BY <2>1, <2>2 DEF Abides
<1> QED
  BY <1>1, <1>2, <1>3

LEMMA InitImplements == Init => JB!Init
  BY DEF Init, NoRow, NoProc, HasWorker, Alive, JB!Init

LEMMA StepImplements ==
  TypeOK /\ TypeOK' /\ QueueInv /\ [Next]_vars =>
    [JB!Next]_<<[j \in Jobs |-> row[j].state], [j \in Jobs |-> HasWorker(j)], starts>>
<1> SUFFICES ASSUME TypeOK, TypeOK', QueueInv, [Next]_vars
             PROVE  \/ JB!Next
                    \/ UNCHANGED <<[j \in Jobs |-> row[j].state],
                                   [j \in Jobs |-> HasWorker(j)], starts>>
  OBVIOUS
<1>1. CASE UNCHANGED vars
  BY <1>1 DEF vars, HasWorker, Alive
<1>2. CASE \E j \in Jobs : Submitter(j) \/ Canceller(j) \/ Reconcile(j)
  BY <1>2, CliQuiet, QuietAbides, AbidingStep
<1>3. CASE \E j \in Jobs, a \in Attempts : Runner(j, a)
  BY <1>3, RunnerQuiet, QuietAbides, AbidingStep
<1>4. CASE Daemon
  BY <1>4, LifeAbides, DaemonQuiet, QuietAbides, ReapAbides, OrphanAbides, StartAbides,
     AbidingStep DEF Daemon, DaemonOn
<1> QED
  BY <1>1, <1>2, <1>3, <1>4, LifecycleAssumption DEF Next

\* Every behaviour of the dispatcher, its runners and the command lines, with
\* crashes, displacements, cancellations and faults, is one that the interface
\* of a backend allows.
THEOREM BackendImplemented == Spec => ImplementsBackend
  BY InitImplements, StepImplements, TypeCorrect, QueueCorrect, PTL
     DEF Spec, ImplementsBackend, JB!Spec
=============================================================================
