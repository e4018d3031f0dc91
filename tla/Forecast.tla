------------------------------ MODULE Forecast ------------------------------
(****************************************************************************)
(* The forecast of a queue: what a view of the jobs not yet finished says   *)
(* of each, how long it still takes and when it starts.  A view is a        *)
(* function of the rows, the slots and the wait reasons at the moment it is *)
(* taken; Look takes one, of any rows the bounds admit.  Times are whole    *)
(* units, progress is in hundredths.                                        *)
(****************************************************************************)
EXTENDS Integers, Sequences, FiniteSets, FiniteSetsExt

CONSTANTS Views,  \* bound: the queues looked at
          Guesses \* bound: how long a job may take whose duration is unknown, in Nat

VARIABLE view

ViewRow == [running : BOOLEAN, elapsed : Nat, report : [number : Nat, percent : BOOLEAN],
            eta : Nat, learned : Nat, blocked : BOOLEAN]
Queues  == [jobs : Seq(ViewRow), slots : Nat \ {0}]

ASSUME ForecastAssumption == Views \subseteq Queues /\ Guesses \subseteq Nat

Unknown == -1  \* None
Blank   == [jobs |-> <<>>, slots |-> 1]

Plus(s, t) == IF s = Unknown \/ t = Unknown THEN Unknown ELSE s + t
Less(s, t) == IF s = Unknown THEN Unknown ELSE IF s > t THEN s - t ELSE 0

----------------------------------------------------------------------------
(* One job.                                                                 *)

\* _coerce_fraction: a number in hundredths, or a percentage of it; what is
\* above one is a percentage whether it says so or not.
Fraction(report) ==
  LET value == IF report.percent \/ report.number > 100 THEN report.number \div 100
               ELSE report.number
  IN  IF value <= 100 THEN value ELSE 0

\* estimate_job: progress, once there is some; else what was declared; else what
\* history says.
Total(r) ==
  LET done == Fraction(r.report) IN
  IF r.running /\ r.elapsed > 0 /\ 2 <= done /\ done < 100 THEN (r.elapsed * 100) \div done
  ELSE IF r.eta > 0 THEN r.eta
  ELSE IF r.learned > 0 THEN r.learned ELSE Unknown

Remaining(r) == IF r.running THEN Less(Total(r), r.elapsed) ELSE Total(r)

----------------------------------------------------------------------------
(* The queue.                                                               *)

\* Mutant: a job of unknown duration is forgotten.
Lasts_not(r) == IF Total(r) = Unknown THEN 0 ELSE Total(r)
\* How long a job keeps its slot.
Lasts(r) == Total(r)

Running(v) == {k \in DOMAIN v.jobs : v.jobs[k].running}
Idle(v)    == Len(v.jobs) + 1 .. Len(v.jobs) + v.slots - Cardinality(Running(v))

\* Slots, a job that runs standing for its own, with the time each is free; an
\* idle one is free now.
FreeAt(v) == [s \in Running(v) \cup Idle(v) |->
                IF s \in Running(v) THEN Remaining(v.jobs[s]) ELSE 0]

\* None is worse than anything known.
NoLater(s, t) == t = Unknown \/ (s # Unknown /\ s <= t)
Soonest(free) == CHOOSE i \in DOMAIN free : \A k \in DOMAIN free : NoLater(free[i], free[k])

\* A job takes the slot that is free first, unless it is known to be blocked: then
\* nobody knows when.
Lay(plan, r) ==
  IF r.running THEN [plan EXCEPT !.start = Append(@, 0)]
  ELSE LET slot  == Soonest(plan.free)
           start == IF plan.free[slot] = 0 /\ r.blocked THEN Unknown ELSE plan.free[slot]
       IN  [free |-> [plan.free EXCEPT ![slot] = Plus(start, Lasts(r))],
            start |-> Append(plan.start, start)]

\* forecast_queue, after each of its rows.
Plans(v) ==
  LET plan[k \in 0 .. Len(v.jobs)] ==
        IF k = 0 THEN [free |-> FreeAt(v), start |-> <<>>] ELSE Lay(plan[k - 1], v.jobs[k])
  IN  plan
forecast_queue(v) == Plans(v)[Len(v.jobs)].start

\* forecast, behind status and show: the view is printed, and gone.
Look  == view = Blank /\ view' \in Views
Shown == view # Blank /\ view' = Blank

ForecastInit == view = Blank
ForecastNext == Look \/ Shown
ForecastSpec == ForecastInit /\ [][ForecastNext]_view

----------------------------------------------------------------------------
(* The queue as it then is served: jobs in their order, at most `slots` at  *)
(* a time, those whose duration is not known, or that are blocked now, for  *)
(* as long as `guess` says.                                                 *)

Length(v, guess, k, start) ==
  LET r == v.jobs[k]
      t == IF ~r.running /\ r.blocked /\ start = 0 THEN Unknown ELSE Remaining(r)
  IN  IF t = Unknown THEN guess[k] ELSE t

\* The jobs that may hold a slot when the k-th is looked at; when one gives it
\* back; those that hold one later than t.
Ahead(v, k)                   == {i \in DOMAIN v.jobs : i < k \/ v.jobs[i].running}
FreeAfter(v, guess, start, i) == start[i] + Length(v, guess, i, start[i])
Busy(v, guess, start, k, t)   == {i \in Ahead(v, k) : FreeAfter(v, guess, start, i) > t}

\* A job starts no sooner than those before it, when a slot is free.
After(v, start, k) == Max({0} \cup {start[i] : i \in {i \in Ahead(v, k) : ~v.jobs[i].running}})
Times(v, guess, start, k) == {After(v, start, k)} \cup {FreeAfter(v, guess, start, i) : i \in Ahead(v, k)}
Turns(v, guess, start, k) ==
  {t \in Times(v, guess, start, k) :
     t >= After(v, start, k) /\ Cardinality(Busy(v, guess, start, k, t)) < v.slots}

Served(v, guess) ==
  LET start[k \in DOMAIN v.jobs] ==
        IF v.jobs[k].running THEN 0 ELSE Min(Turns(v, guess, start, k))
  IN  start

Waits(v) == {k \in DOMAIN v.jobs : ~v.jobs[k].running}
Certain(v) == \A k \in DOMAIN v.jobs : ~v.jobs[k].blocked /\ Total(v.jobs[k]) # Unknown

\* A start that the forecast names is never too early, whatever the jobs of
\* unknown duration turn out to take: such a job makes what waits for its slot
\* unknown "rather than silently optimistic" (forecast_queue).  And where every
\* duration is known the forecast is exact.  As long as no more jobs run than
\* there are slots: see NeverOptimistic.
Sound(v) ==
  LET said == forecast_queue(v) IN
  \A guess \in [DOMAIN v.jobs -> Guesses] :
    LET real == Served(v, guess) IN
    \A k \in Waits(v) :
      /\ said[k] # Unknown => said[k] >= real[k]
      /\ Certain(v) => said[k] = real[k]

ForecastSound == Cardinality(Running(view)) <= view.slots => Sound(view)

\* The same of every view.  Not so: jobs that run on other machines, and jobs that
\* run when the concurrency is lowered, count as slots of their own.
NeverOptimistic == Sound(view)
=============================================================================
