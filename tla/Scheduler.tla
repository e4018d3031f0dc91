------------------------------ MODULE Scheduler ------------------------------
(****************************************************************************)
(* How the dispatcher walks the queue of the jobs that run on this machine  *)
(* (Dispatcher._start_ready_jobs and what it calls): the order of dispatch, *)
(* the admission check against the ledger of declared requests and against  *)
(* measured memory, backfill behind a job that cannot start, the hold that  *)
(* ends backfill, and the displacement of running jobs.                     *)
(*                                                                          *)
(* A pass reads the queue once and then looks at one row after the other;   *)
(* the CLIs go on submitting, cancelling and editing jobs meanwhile, and    *)
(* processes end, so the row a pass acts on may be stale.                   *)
(*                                                                          *)
(* Abstracted: a job asks for RAM, CPUs and a slot (VRAM, devices and the   *)
(* commit charge follow the same arithmetic and are left out); time is      *)
(* counted in ticks; the crashes and the two-step starts are those of       *)
(* Lifecycle; no other machine is registered.                               *)
(****************************************************************************)
EXTENDS Integers, FiniteSets, Sequences, SequencesExt, FiniteSetsExt

CONSTANTS
  Jobs,
  Profile,   \* what each job asks for and the priority it is submitted with
  OptIn,     \* the jobs submitted with --preemptible
  Requests,  \* bound: the requests set_requests may put in place of the first
  Slots,     \* META_SLOTS
  Usable,    \* capacity the ledger may hand out, the reserve already deducted
  Physical,  \* RAM above the host floor on an otherwise idle machine
  Backfill,  \* scheduling.backfill
  MaxSkip,   \* scheduling.backfill_max_skip
  HeadWait,  \* scheduling.backfill_head_wait_seconds, in ticks
  MaxHold,   \* scheduling.backfill_max_hold_seconds, in ticks
  MinRun,    \* preemption.min_runtime_seconds, in ticks
  Ranks,     \* bound: the priority ranks in use
  MaxRun,    \* bound: ticks a job runs for
  Foreign,   \* bound: amounts of RAM in use that no running job declared, 0 among them
  MaxEdits   \* bound: promote, bump and set-requests calls

Axes     == {"ram", "cpu"}
Critical == 0
Normal   == 100
Request  == [Axes -> Nat]

ASSUME SchedulerAssumption ==
  /\ IsFiniteSet(Jobs) /\ OptIn \subseteq Jobs
  /\ Requests \subseteq Request
  /\ Critical \in Ranks /\ Ranks \subseteq {Critical, 50, Normal, 200}
  /\ \A j \in Jobs : Profile[j].need \in Requests /\ Profile[j].rank \in Ranks
  /\ Slots \in Nat \ {0} /\ Usable \in Request /\ Physical \in Nat
  /\ Backfill \in BOOLEAN /\ MaxSkip \in Nat
  /\ HeadWait \in Nat /\ MaxHold \in Nat /\ MinRun \in Nat /\ MaxRun \in Nat
  /\ Foreign \subseteq Nat /\ 0 \in Foreign /\ MaxEdits \in Nat

VARIABLES
  row,      \* the rows of the queue: state, rank, request, displacement flag
  order,    \* the queued jobs by position
  alive,    \* running jobs whose process has not ended
  age,      \* ticks since a running job was started
  foreign,  \* RAM in use that is not declared: outside the queue, or beyond a request
  waited,   \* 0, or one more than the ticks since a job was first refused
  spent,    \* ticks of hold already used up by a job
  clock,    \* jobs whose hold clock runs (_hold_since)
  pass,     \* the pass over the queue: rows not looked at yet, and its locals
  edits,    \* edits made so far
  admitted, \* history: the request each job was admitted with
  yields    \* history: the job each one was displaced for

schedVars == <<age, waited, spent, clock>>
history   == <<admitted, yields>>
vars == <<row, order, alive, schedVars, foreign, pass, edits, history>>

----------------------------------------------------------------------------
QueuedJobs == {j \in Jobs : row[j].state = "QUEUED"}
Held       == {j \in Jobs : row[j].state = "RUNNING"}
Stopping   == {j \in Held : row[j].stop}

\* list_by_state: ORDER BY priority_rank, position.
Place(j) == CHOOSE i \in DOMAIN order : order[i] = j
Before(a, b) == \/ row[a].rank < row[b].rank
                \/ row[a].rank = row[b].rank /\ Place(a) < Place(b)
\* The rows as a pass reads them; there is one such sequence.
Queue == {q \in SetToSeqs(QueuedJobs) : \A i, k \in DOMAIN q : i < k => Before(q[i], q[k])}

Row  == [state : {"out", "QUEUED", "RUNNING"}, rank : Ranks, need : Requests, stop : BOOLEAN]
Seen == [job : Jobs, need : Requests, rank : Ranks]
Pass == [todo : Seq(Seen), inFlight : Nat, blocked : BOOLEAN, held : SUBSET Seen,
         skipped : Nat, refused : SUBSET Requests, closed : BOOLEAN]
Snapshot(j) == [job |-> j, need |-> row[j].need, rank |-> row[j].rank]

Rest == [todo |-> <<>>, inFlight |-> 0, blocked |-> FALSE, held |-> {},
         skipped |-> 0, refused |-> {}, closed |-> FALSE]
Resting == pass.todo = <<>>

TypeOK ==
  /\ row \in [Jobs -> Row]
  /\ order \in Seq(Jobs) /\ IsInjective(order) /\ ToSet(order) = QueuedJobs
  /\ alive \subseteq Held
  /\ \A j \in Jobs : row[j].stop => j \in Held
  /\ age \in [Jobs -> 0..MaxRun]
  /\ foreign \in Foreign
  /\ waited \in [Jobs -> 0..(HeadWait + 1)]
  /\ spent \in [Jobs -> 0..MaxHold]
  /\ clock \subseteq Jobs
  /\ pass \in Pass
  /\ edits \in 0..MaxEdits
  /\ admitted \in [Jobs -> Requests]
  /\ yields \in [Jobs -> SUBSET Jobs]

Init ==
  /\ row = [j \in Jobs |-> [state |-> "out", rank |-> Profile[j].rank,
                            need |-> Profile[j].need, stop |-> FALSE]]
  /\ order = <<>>
  /\ alive = {}
  /\ age = [j \in Jobs |-> 0]
  /\ foreign = 0
  /\ waited = [j \in Jobs |-> 0]
  /\ spent = [j \in Jobs |-> 0]
  /\ clock = {}
  /\ pass = Rest
  /\ edits = 0
  /\ admitted = [j \in Jobs |-> Profile[j].need]
  /\ yields = [j \in Jobs |-> {}]

Without(j) == RemoveAt(order, Place(j))

----------------------------------------------------------------------------
(* QueueStore, called by the CLIs at any moment.                            *)

\* Every submission is a new row at the back of the queue: a pass that read
\* the old one knows nothing of it.
Submit(j) ==
  /\ row[j].state = "out" /\ \A i \in DOMAIN pass.todo : pass.todo[i].job # j
  /\ row' = [row EXCEPT ![j] = [@ EXCEPT !.state = "QUEUED", !.rank = Profile[j].rank,
                                         !.need = Profile[j].need]]
  /\ order' = Append(order, j)
  /\ waited' = [waited EXCEPT ![j] = 0]
  /\ yields' = [i \in Jobs |-> yields[i] \ {j}]
  /\ UNCHANGED <<alive, age, spent, clock, foreign, pass, edits, admitted>>

RemoveQueued(j) ==
  /\ row[j].state = "QUEUED"
  /\ row' = [row EXCEPT ![j].state = "out"]
  /\ order' = Without(j)
  /\ UNCHANGED <<alive, schedVars, foreign, pass, edits, history>>

Edit == edits < MaxEdits /\ edits' = edits + 1

\* set_requests corrects a job that is still queued.
SetRequests(j, need) ==
  /\ row[j].state = "QUEUED" /\ Edit
  /\ row' = [row EXCEPT ![j].need = need]
  /\ UNCHANGED <<order, alive, schedVars, foreign, pass, history>>

\* bump_job re-ranks queued jobs, and running ones too.
SetPriority(j, rank) ==
  /\ row[j].state # "out" /\ Edit
  /\ row' = [row EXCEPT ![j].rank = rank]
  /\ UNCHANGED <<order, alive, schedVars, foreign, pass, history>>

\* promote: before everything queued, in the highest tier.
Promote(j) ==
  /\ row[j].state = "QUEUED" /\ Edit
  /\ row' = [row EXCEPT ![j].rank = Critical]
  /\ order' = <<j>> \o Without(j)
  /\ UNCHANGED <<alive, schedVars, foreign, pass, history>>

\* The process of a running job ends, by itself or because it was stopped.
Ends(j) ==
  /\ j \in alive
  /\ alive' = alive \ {j}
  /\ UNCHANGED <<row, order, schedVars, foreign, pass, edits, history>>

ForeignChanges ==
  /\ foreign' \in Foreign
  /\ UNCHANGED <<row, order, alive, schedVars, pass, edits, history>>

----------------------------------------------------------------------------
(* Between two passes.                                                      *)

\* _reap: a displaced job goes back to the head of its tier.
Reap(j) ==
  /\ Resting /\ j \in Held \ alive
  /\ row' = [row EXCEPT ![j] = [@ EXCEPT !.state = IF row[j].stop THEN "QUEUED" ELSE "out",
                                         !.stop = FALSE]]
  /\ order' = IF row[j].stop THEN <<j>> \o order ELSE order
  /\ age' = [age EXCEPT ![j] = 0]
  /\ UNCHANGED <<alive, waited, spent, clock, foreign, pass, edits, history>>

\* _relieve_pressure, when the machine itself runs short: the newest job that
\* opted in is asked to stop.
PressureStop(v) ==
  /\ Resting /\ foreign > 0
  /\ LET may == (Held \cap OptIn) \ Stopping IN
       v \in may /\ \A u \in may : age[v] <= age[u]
  /\ row' = [row EXCEPT ![v].stop = TRUE]
  /\ yields' = [yields EXCEPT ![v] = {}]
  /\ UNCHANGED <<order, alive, schedVars, foreign, pass, edits, admitted>>

\* A tick: time passes, what ended has been reaped, the queue is read.
Tick ==
  /\ Resting /\ alive = Held /\ \A j \in alive : age[j] < MaxRun
  /\ age' = [j \in Jobs |-> IF j \in alive THEN age[j] + 1 ELSE age[j]]
  /\ waited' = [j \in Jobs |-> IF j \in QueuedJobs /\ waited[j] \in 1..HeadWait
                               THEN waited[j] + 1 ELSE waited[j]]
  /\ spent' = [j \in Jobs |-> CASE j \notin QueuedJobs -> 0
                                [] j \in clock /\ spent[j] < MaxHold -> spent[j] + 1
                                [] OTHER -> spent[j]]
  /\ clock' = clock \cap QueuedJobs
  /\ \E q \in Queue :
       pass' = [Rest EXCEPT !.todo = [i \in DOMAIN q |-> Snapshot(q[i])],
                            !.inFlight = Cardinality(Held)]
  /\ UNCHANGED <<row, order, alive, foreign, edits, history>>

----------------------------------------------------------------------------
(* resources.admit: one request against measured memory and the ledger.     *)

Load(ax, S) == SumFunctionOnSet([j \in Jobs |-> row[j].need[ax]], S)

\* RAM measured free above the floor.  Of what they declared running jobs may use
\* all, or have allocated nothing yet; what they use beyond it is in foreign.
InUse     == 0..Load("ram", Held)
Free(use) == Physical - foreign - use

\* Mutant: a job that is asked to stop gives its request back at once.
LedgerFits_early(need, S) ==
  \A ax \in Axes : need[ax] > 0 => Load(ax, S \ Stopping) + need[ax] <= Usable[ax]

LedgerFits(need, S) ==
  \A ax \in Axes : need[ax] > 0 => Load(ax, S) + need[ax] <= Usable[ax]

Admits(need, S, use) ==
  /\ Free(use) >= 0
  /\ need["ram"] > 0 => need["ram"] <= Free(use)
  /\ LedgerFits(need, S)

\* _asks_at_least: later is refused whenever earlier is.
AsksAtLeast(later, earlier) == \A ax \in Axes : later[ax] >= earlier[ax]

----------------------------------------------------------------------------
(* The hold: what is free now is kept for the job h at the head.            *)

Spare(ax, use) ==
  IF ax = "ram" THEN Min({Free(use), Usable[ax] - Load(ax, Held)})
                ELSE Usable[ax] - Load(ax, Held)

\* Mutant: the job need only fit by itself.
HoldConflict_fits(need, h, use) ==
  \/ Slots - pass.inFlight - 1 < 0
  \/ \E ax \in Axes : /\ h.need[ax] > 0 /\ need[ax] > 0
                      /\ Spare(ax, use) - need[ax] < 0

HoldConflict(need, h, use) ==
  \/ Slots - pass.inFlight - 1 < 1
  \/ \E ax \in Axes : /\ h.need[ax] > 0 /\ need[ax] > 0
                      /\ Spare(ax, use) - need[ax] < h.need[ax]

\* Even with every running job gone, and what it declared given back, the head
\* would not be admitted.
HoldFutile(need, use) ==
  \/ pass.inFlight = 0
  \/ \E ax \in Axes : need[ax] > Usable[ax]
  \/ need["ram"] > Free(use) + Load("ram", Held)

----------------------------------------------------------------------------
(* Displacement.                                                            *)

\* int(priority_rank or 100): the rank 0 of a critical job reads as normal.
RankOr100(rank) == IF rank = 0 THEN Normal ELSE rank

Candidates(w) ==
  {v \in (Held \cap OptIn) \ Stopping :
     RankOr100(row[v].rank) > RankOr100(w.rank) /\ age[v] >= MinRun}

\* Lowest priority first, then longest running.
Sooner(u, v) ==
  \/ RankOr100(row[u].rank) > RankOr100(row[v].rank)
  \/ RankOr100(row[u].rank) = RankOr100(row[v].rank) /\ age[u] > age[v]

Suffices(w, V, use) ==
  Cardinality(Held \ V) < Slots /\ Admits(w.need, Held \ V, use)

\* The shortest prefix of the sorted candidates that makes room, or nothing.
Victims(w, use) ==
  {V \in SUBSET Candidates(w) :
     /\ V # {} /\ Suffices(w, V, use)
     /\ \A v \in V, u \in Candidates(w) \ V : ~Sooner(u, v)
     /\ \E v \in V : /\ \A u \in V \ {v} : ~Sooner(v, u)
                     /\ V = {v} \/ ~Suffices(w, V \ {v}, use)}

ConsiderPreemption(w, use) ==
  IF Victims(w, use) = {} THEN UNCHANGED <<row, yields>>
  ELSE \E V \in Victims(w, use) :
         /\ row' = [j \in Jobs |-> [row[j] EXCEPT !.stop = @ \/ j \in V]]
         /\ yields' = [j \in Jobs |-> IF j \in V THEN {w.job} ELSE yields[j]]

----------------------------------------------------------------------------
(* One row of a pass.                                                       *)

Onward(p) == IF Len(p.todo) = 1 THEN Rest ELSE [p EXCEPT !.todo = Tail(@)]

Blocked(r, use) ==
  \/ pass.inFlight >= Slots
  \/ ~Admits(r.need, Held, use)
  \/ \E h \in pass.held : HoldConflict(r.need, h, use)

\* This machine takes nothing more in this pass.
Skip ==
  /\ ~Resting /\ pass.closed
  /\ pass' = Onward(pass)
  /\ UNCHANGED <<row, order, alive, schedVars, foreign, edits, history>>

\* _should_hold for the first job refused: its clock runs while it is due a
\* hold that is not futile, and it holds the queue while the budget lasts.
DueHold(r, use) == waited'[r.job] > HeadWait /\ ~HoldFutile(r.need, use)

\* Mutant: every refusal uses up the look-ahead.
Skipped_all(r) == pass.skipped + 1

Skipped(r) ==
  IF \E e \in pass.refused : AsksAtLeast(r.need, e) THEN pass.skipped
                                                   ELSE pass.skipped + 1

Refuse ==
  /\ ~Resting /\ ~pass.closed
  /\ LET r == Head(pass.todo) IN \E use \in InUse :
       /\ Blocked(r, use)
       /\ waited' = [waited EXCEPT ![r.job] = IF @ = 0 THEN 1 ELSE @]
       /\ IF pass.blocked THEN UNCHANGED <<row, yields>> ELSE ConsiderPreemption(r, use)
       /\ IF ~Backfill
          THEN /\ pass' = Onward([pass EXCEPT !.blocked = TRUE, !.closed = TRUE])
               /\ UNCHANGED clock
          ELSE /\ clock' = CASE pass.blocked    -> clock
                             [] DueHold(r, use) -> clock \cup {r.job}
                             [] OTHER           -> clock \ {r.job}
               /\ pass' = Onward([pass EXCEPT
                    !.blocked = TRUE,
                    !.held = IF ~pass.blocked /\ DueHold(r, use) /\ spent[r.job] < MaxHold
                             THEN {r} ELSE @,
                    !.skipped = Skipped(r),
                    !.refused = @ \cup {r.need},
                    !.closed = Skipped(r) > MaxSkip])
  /\ UNCHANGED <<order, alive, age, spent, foreign, edits, admitted>>

\* _start_job: the claim fails when the row left the queue meanwhile.
Start ==
  /\ ~Resting /\ ~pass.closed
  /\ LET r == Head(pass.todo) j == r.job IN
       /\ \E use \in InUse : ~Blocked(r, use)
       /\ IF row[j].state = "QUEUED"
          THEN /\ row' = [row EXCEPT ![j].state = "RUNNING"]
               /\ order' = Without(j)
               /\ alive' = alive \cup {j}
               /\ waited' = [waited EXCEPT ![j] = 0]
               /\ pass' = Onward([pass EXCEPT !.inFlight = @ + 1])
               /\ admitted' = [admitted EXCEPT ![j] = r.need]
               /\ yields' = [i \in Jobs |-> IF i = j THEN {} ELSE yields[i] \ {j}]
          ELSE /\ pass' = Onward(pass)
               /\ UNCHANGED <<row, order, alive, waited, history>>
  /\ UNCHANGED <<age, spent, clock, foreign, edits>>

Look == Skip \/ Refuse \/ Start

----------------------------------------------------------------------------
Cli(j) == \/ Submit(j) \/ RemoveQueued(j) \/ Promote(j)
          \/ \E need \in Requests : SetRequests(j, need)
          \/ \E rank \in Ranks : SetPriority(j, rank)

Next == \/ \E j \in Jobs : Cli(j) \/ Ends(j) \/ Reap(j) \/ PressureStop(j)
        \/ ForeignChanges \/ Tick \/ Look

Spec == Init /\ [][Next]_vars

\* The dispatcher goes on ticking, and jobs end (none runs longer than MaxRun).
Dispatcher == Tick \/ Look \/ \E j \in Jobs : Reap(j)
Fairness   == WF_vars(Dispatcher) /\ WF_vars(\E j \in Jobs : Ends(j))

FairSpec == Spec /\ Fairness

----------------------------------------------------------------------------
(* Safety.                                                                  *)

\* What running jobs declared fits the machine on every axis, whatever backfill,
\* displacement and jobs that end let start; except when the request of a job
\* was edited between the moment the pass read it and its start: set_requests
\* sees it QUEUED, and the claim does not look at what was admitted.
LedgerHolds ==
  (\A j \in Held : admitted[j] = row[j].need)
    => \A ax \in Axes : Load(ax, Held) <= Usable[ax]

\* The look-ahead is used up by different requests only: a run of equal jobs
\* does not hide a smaller one behind them (config.py, backfill_max_skip).
LookAheadIsSpentOnDifferentJobs ==
  pass.closed /\ Backfill => Cardinality(pass.refused) > MaxSkip

\* What running jobs were admitted with fits, leaving out those edited since they
\* were read; a pass counts the running jobs right; and every skip it counts is
\* for a request it had not refused before.
Matched     == {j \in Held : admitted[j] = row[j].need}
MatchedFits == \A ax \in Axes : Load(ax, Matched) <= Usable[ax]
SlotsKept   == Cardinality(Held) <= Slots /\ (~Resting => pass.inFlight = Cardinality(Held))
SkipsCount  == /\ IsFiniteSet(pass.refused) /\ pass.skipped <= Cardinality(pass.refused)
               /\ pass.closed /\ Backfill => pass.skipped > MaxSkip
SchedulerInv == TypeOK /\ MatchedFits /\ SlotsKept /\ SkipsCount

\* "Displacing it actually lets the waiter start, so no work is destroyed for
\* nothing" (README.md): nothing is displaced for a job that starts as soon as
\* the jobs already stopping are gone.  Not so: they count as staying.
NoSurplusDisplacement ==
  [][\A v \in Jobs, w \in Jobs :
       ~row[v].stop /\ row'[v].stop /\ w \in yields'[v]
         => ~Suffices(Snapshot(w), Stopping, 0)]_vars

----------------------------------------------------------------------------
(* Liveness.                                                                *)

First(h) == h \in QueuedJobs /\ \A j \in QueuedJobs \ {h} : Before(h, j)

\* The starvation guard: once no memory is in use that nobody declared, the first
\* job of the queue, with the budget of its hold untouched, does not stay
\* first for ever (it starts, unless it is overtaken or removed), however many
\* small jobs keep arriving behind it.
HeadMovesOn ==
  \A h \in Jobs :
    [](First(h) /\ spent[h] = 0 /\ [](foreign = 0) => <>~First(h))
=============================================================================
