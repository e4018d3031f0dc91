------------------------------ MODULE Estimates ------------------------------
(****************************************************************************)
(* What worker-q learns from the past runs of one command: how long it      *)
(* takes, machine by machine, and how much memory it needs.  The memory     *)
(* half feeds back: a submission whose command habitually uses a part of    *)
(* what it declares is reserved less, its run becomes history for the next  *)
(* one, and a correction, a displacement or another machine may come        *)
(* between the declaration and the peak that is recorded for it.  A         *)
(* correction writes two databases, and the job goes its way in between.    *)
(*                                                                          *)
(* Memory is counted in half GiB, the grain of a reservation, and time in   *)
(* half ticks.                                                              *)
(****************************************************************************)
EXTENDS Integers, Sequences, FiniteSets, FiniteSetsExt

CONSTANTS Job,
          Machines,    \* where a run may take place
          Here,        \* this one
          Asks,        \* what submitters declare
          Peaks,       \* what runs use
          Takes,       \* how long they last
          Usable,      \* installed memory less the reserve
          MinRuns,     \* right_size_min_runs
          MinSamples,  \* MIN_SAMPLES
          Reads,       \* the LIMIT of _right_size
          Recent,      \* the LIMIT of the estimates
          MaxHistory   \* bound: runs within LEARNED_WINDOW_DAYS

ASSUME EstimatesAssumption ==
  /\ Here \in Machines /\ Asks \cup Peaks \cup Takes \subseteq Nat
  /\ \A n \in Asks \cup Peaks : n > 0
  /\ \A took \in Takes : took % 2 = 0
  /\ Usable \in Nat /\ Usable > 1
  /\ {MinRuns, MaxHistory} \subseteq Nat /\ {MinSamples, Reads, Recent} \subseteq Nat \ {0}

VARIABLES
  job,   \* the row of each job
  hist   \* the runs that ended within the window, the last one the newest

vars == <<job, hist>>

Null == 0
None == [st |-> "none"]
Floor == 4   \* MIN_SUGGESTION_GB

Init == job = [j \in Job |-> None] /\ hist = <<>>

CeilDiv(a, b) == (a + b - 1) \div b
Larger(a, b)  == IF a > b THEN a ELSE b

\* The n newest of some runs: ORDER BY id DESC LIMIT n.
Newest(S, n) == {i \in S : Cardinality({k \in S : k > i}) < n}

----------------------------------------------------------------------------
(* Right-sizing.                                                            *)

\* well: the peak was sampled often enough (MIN_CONFIDENT_SAMPLES).
Counted == Newest({i \in DOMAIN hist : hist[i].ok /\ hist[i].peak # Null /\ hist[i].well}, Reads)

\* The largest fraction of its declaration that a run has used.
Worst == hist[CHOOSE i \in Counted :
                \A k \in Counted : hist[i].peak * hist[k].declared >= hist[k].peak * hist[i].declared]

\* _right_size: what is reserved for a declaration.
Trimmed(asks) ==
  IF Cardinality(Counted) < Larger(1, MinRuns) THEN asks
  ELSE LET target == Larger(Floor, CeilDiv(3 * asks * Worst.peak, 2 * Worst.declared))
       IN  IF 5 * target > 4 * asks THEN asks ELSE target

\* _reject_impossible.
Possible(asks) == asks <= Usable

\* submit; declared is set only when less is reserved.  wrote is not a column:
\* it is the last number the submitter gave.
Submit(j, asks, exact) ==
  /\ job[j] = None /\ Possible(asks)
  /\ LET asked == IF exact THEN asks ELSE Trimmed(asks) IN
       job' = [job EXCEPT ![j] =
         [st |-> "queued", node |-> Here, asked |-> asked,
          declared |-> IF asked < asks THEN asks ELSE Null,
          wrote |-> asks, unrecorded |-> {}, crossed |-> FALSE,
          peak |-> Null, well |-> FALSE, used |-> Null, seen |-> FALSE]]
  /\ UNCHANGED hist

\* set_requests writes the queue first.  unrecorded are the numbers that have
\* been written there and not yet to the row: that of a program that died in
\* between remains.  crossed: one correction was begun before another was done.
Correct(j, asks) ==
  /\ job[j].st = "queued" /\ Possible(asks)
  /\ LET open == job[j].unrecorded IN
       job' = [job EXCEPT ![j] = [@ EXCEPT !.wrote = asks, !.unrecorded = open \cup {asks},
                                           !.crossed = job[j].crossed \/ open # {}]]
  /\ UNCHANGED hist

\* Mutant: the correction of a trimmed job leaves its first declaration.
Record_keeps(j, asks) ==
  /\ job[j] # None /\ asks \in job[j].unrecorded
  /\ job' = [job EXCEPT ![j] = [@ EXCEPT !.asked = asks,
                                         !.unrecorded = job[j].unrecorded \ {asks}]]
  /\ UNCHANGED hist

\* Then the row, whatever has become of the job: "an explicit correction is a new
\* declaration, not a trim".
Record(j, asks) ==
  /\ job[j] # None /\ asks \in job[j].unrecorded
  /\ job' = [job EXCEPT ![j] = [@ EXCEPT !.asked = asks, !.declared = Null,
                                         !.unrecorded = job[j].unrecorded \ {asks}]]
  /\ UNCHANGED hist

RecordLate(i, asks) ==
  /\ asks \in hist[i].unrecorded
  /\ hist' = [hist EXCEPT ![i] = [@ EXCEPT !.declared = asks,
                                           !.unrecorded = hist[i].unrecorded \ {asks}]]
  /\ UNCHANGED job

----------------------------------------------------------------------------
(* Runs.                                                                    *)

Start(j, n) ==
  /\ job[j].st = "queued"
  /\ job' = [job EXCEPT ![j] = [@ EXCEPT !.st = "running", !.node = n]]
  /\ UNCHANGED hist

\* _watch_usage of the runner here writes the peak of this attempt to the row,
\* from its first sample on; the one on a node to the row of the copy there.
Measure(j, mem, well) ==
  /\ job[j].st = "running" /\ mem >= job[j].used
  /\ mem > job[j].used \/ well
  /\ job[j].seen => well
  /\ LET here == job[j].node = Here IN
       job' = [job EXCEPT ![j] =
         [@ EXCEPT !.used = mem, !.seen = well,
                   !.peak = IF here THEN mem ELSE job[j].peak,
                   !.well = IF here THEN well ELSE job[j].well]]
  /\ UNCHANGED hist

\* A displaced job is queued again and starts afresh, here or elsewhere; the
\* row keeps what was measured.
Displace(j) ==
  /\ job[j].st = "running" /\ job[j].node = Here
  /\ job' = [job EXCEPT ![j] = [@ EXCEPT !.st = "queued", !.used = Null, !.seen = FALSE]]
  /\ UNCHANGED hist

\* _adopt_remote_usage, at the reconcile that sees the end: not if anything was
\* sampled here.
Adopts(j) == job[j].node # Here /\ job[j].peak = Null

Ends(j, ok, took) ==
  /\ job[j].st = "running" /\ Len(hist) < MaxHistory
  /\ hist' = Append(hist,
       [node |-> job[j].node, ok |-> ok, took |-> took,
        declared |-> IF job[j].declared = Null THEN job[j].asked ELSE job[j].declared,
        wrote |-> job[j].wrote, unrecorded |-> job[j].unrecorded, crossed |-> job[j].crossed,
        peak |-> IF Adopts(j) THEN job[j].used ELSE job[j].peak,
        well |-> IF Adopts(j) THEN job[j].seen ELSE job[j].well])
  /\ job' = [job EXCEPT ![j] = None]

\* A run leaves the window.
Forgets ==
  /\ hist # <<>> /\ hist' = Tail(hist) /\ UNCHANGED job

----------------------------------------------------------------------------
(* Advice.                                                                  *)

\* _learned_peak: the worst successful run, or else the worst of all; one sample
\* is enough here.
Measured == {i \in DOMAIN hist : hist[i].peak # Null}
Proven   == \E i \in Measured : hist[i].ok
Basis    == Newest(IF Proven THEN {i \in Measured : hist[i].ok} ELSE Measured, Recent)
LearnedPeak == Max({hist[i].peak : i \in Basis})

\* Mutant: no regard to what the machine has.
Suggested_uncapped(mem) == 2 * Larger(Floor \div 2, CeilDiv(3 * mem, 4))
\* _with_headroom: half as much again, in whole GiB, within what submit accepts.
Suggested(mem) == 2 * Min({Larger(Floor \div 2, CeilDiv(3 * mem, 4)), Usable \div 2})

\* _history_advisories, of the number in the row: what is reserved for a job, which
\* may be less than its submitter declared.
Advice(asked) ==
  IF Cardinality(Basis) < 2 THEN "none"
  ELSE IF asked < LearnedPeak THEN "raise"
  ELSE IF 2 * asked >= 3 * Suggested(LearnedPeak) /\ Proven THEN "lower" ELSE "none"

----------------------------------------------------------------------------
(* Durations.                                                               *)

\* _durations_for, machine by machine.
Succeeded(S) ==
  UNION {Newest({i \in DOMAIN hist : hist[i].ok /\ hist[i].node = n}, Recent) : n \in S}

\* The n-th smallest duration of S.
Nth(S, n) == Min({took \in {hist[i].took : i \in S} :
                    Cardinality({i \in S : hist[i].took <= took}) >= n})

\* _median.
Median(S) ==
  LET mid == Cardinality(S) \div 2
  IN  IF Cardinality(S) % 2 = 1 THEN Nth(S, mid + 1)
      ELSE (Nth(S, mid) + Nth(S, mid + 1)) \div 2

\* Elsewhere, from the point of view of a machine: for a node, first of all here.
Elsewhere(n) ==
  IF n # Here /\ Succeeded({Here}) # {} THEN {Here} ELSE Machines \ {n}

\* Mutant: all runs are pooled.
learned_duration_pooled(n) ==
  IF Cardinality(Succeeded(Machines)) >= MinSamples
  THEN [total |-> Median(Succeeded(Machines)), from |-> "here"]
  ELSE [total |-> Null, from |-> "unknown"]

learned_duration(n) ==
  IF Cardinality(Succeeded({n})) >= MinSamples
  THEN [total |-> Median(Succeeded({n})), from |-> "here"]
  ELSE IF Cardinality(Succeeded(Elsewhere(n))) >= MinSamples
  THEN [total |-> Median(Succeeded(Elsewhere(n))), from |-> "elsewhere"]
  ELSE [total |-> Null, from |-> "unknown"]

----------------------------------------------------------------------------
Next == \/ \E j \in Job :
             \/ \E asks \in Asks : \E exact \in BOOLEAN : Submit(j, asks, exact)
             \/ \E asks \in Asks : Correct(j, asks)
             \/ \E asks \in Asks : Record(j, asks)
             \/ \E n \in Machines : Start(j, n)
             \/ \E mem \in Peaks : \E well \in BOOLEAN : Measure(j, mem, well)
             \/ Displace(j)
             \/ \E ok \in BOOLEAN : \E took \in Takes : Ends(j, ok, took)
        \/ \E i \in DOMAIN hist : \E asks \in Asks : RecordLate(i, asks)
        \/ Forgets

Spec == Init /\ [][Next]_vars

----------------------------------------------------------------------------
Row == [st : {"queued", "running"}, node : Machines, asked : Nat, declared : Nat,
        wrote : Nat \ {0}, unrecorded : SUBSET (Nat \ {0}), crossed : BOOLEAN,
        peak : Nat, well : BOOLEAN, used : Nat, seen : BOOLEAN]
Run == [node : Machines, ok : BOOLEAN, took : Nat, declared : Nat \ {0}, wrote : Nat \ {0},
        unrecorded : SUBSET (Nat \ {0}), crossed : BOOLEAN, peak : Nat, well : BOOLEAN]

TypeOK == job \in [Job -> Row \cup {None}] /\ hist \in Seq(Run)

\* A correction of it never reached its row, or has not yet; or two of them
\* overtook each other.
Torn(r) == r.unrecorded # {} \/ r.crossed

\* What a run is measured against is what its submitter last wrote, although the
\* row keeps the declaration in a column of its own only while it was trimmed.
Declares(r) ==
  /\ r.asked > 0
  /\ ~ Torn(r) => r.asked <= r.wrote /\ r.declared = IF r.asked = r.wrote THEN Null ELSE r.wrote
Corrects(r) == ~ r.crossed => r.unrecorded \subseteq {r.wrote}
EstimatesInv ==
  /\ TypeOK
  /\ \A j \in Job : job[j] # None => Declares(job[j]) /\ Corrects(job[j])
  /\ \A i \in DOMAIN hist :
       Corrects(hist[i]) /\ (~ Torn(hist[i]) => hist[i].declared = hist[i].wrote)

----------------------------------------------------------------------------
(* What a submission that is trimmed is reserved covers every run that      *)
(* right-sizing reads, at the scale of what its submitter last declared;    *)
(* and it exceeds the worst of them by half at most.  So runs that were     *)
(* trimmed, corrected, displaced or sent away neither starve the next       *)
(* submission nor undo the trimming (_right_size; test_right_size.py,       *)
(* test_trimmed_runs_do_not_undo_the_trimming).  A run whose correction     *)
(* stopped between its two writes, or crossed another, is measured against  *)
(* a number its submitter had given up, and is excepted.                    *)
TrimFollowsHistory ==
  [][\A j \in Job :
       LET new == job'[j] IN
       job[j] = None /\ new # None /\ new.asked < new.wrote =>
         /\ \A i \in Counted :
              Torn(hist[i]) \/ new.asked * hist[i].wrote >= hist[i].peak * new.wrote
         /\ \/ new.asked = Floor
            \/ \E i \in Counted :
                 \/ Torn(hist[i])
                 \/ 2 * (new.asked - 1) * hist[i].wrote < 3 * hist[i].peak * new.wrote]_vars

\* The number that advice gives is one that submit and set_requests accept.  Where
\* the machine has what the worst run used, the advice on a job whose submitter
\* gave that number is none as long as the number is what is reserved: after
\* set_requests, with --exact-resources, or untrimmed.  Trimmed, it can be advised
\* to be raised, since what is looked at is the reservation; never to be lowered.
AdviceSettles ==
  Measured # {} =>
    LET number == Suggested(LearnedPeak) IN
    /\ Possible(number)
    /\ \A j \in Job :
         job[j] # None /\ ~ Torn(job[j]) /\ job[j].wrote = number
           /\ LearnedPeak <= 2 * (Usable \div 2) =>
           \/ Advice(job[j].asked) = "none"
           \/ Advice(job[j].asked) = "raise" /\ job[j].asked < number

\* A duration learned on this machine lies within what its own runs took, and
\* one from elsewhere within those of the others: they are never mixed.
DurationsNotMixed ==
  \A n \in Machines :
    LET est  == learned_duration(n)
        runs == IF est.from = "here" THEN Succeeded({n}) ELSE Succeeded(Machines \ {n})
    IN  est.from # "unknown" =>
          /\ \E i \in runs : hist[i].took <= est.total
          /\ \E i \in runs : hist[i].took >= est.total

----------------------------------------------------------------------------
(* What the code says and does not keep.                                    *)

\* "That should be impossible - a remote job has no local runner": the peak of a
\* run on another machine is never discarded for one measured here
\* (_adopt_remote_usage).  Not so for a job displaced here and then sent away.
PeakIsOfTheRun ==
  [][\A j \in Job : job[j] # None /\ job'[j] = None /\ job[j].used # Null =>
       hist'[Len(hist')].peak = job[j].used]_vars

\* "--ram N would still be generous": a submission that declares what the advice
\* says is reserved no less than the worst run used.  Not so: its smaller
\* declaration is trimmed by the same fraction again.
AdviceIsGenerous ==
  [][\A j \in Job :
       job[j] = None /\ job'[j] # None /\ Proven
         /\ job'[j].wrote = Suggested(LearnedPeak) /\ job'[j].wrote >= LearnedPeak
         => job'[j].asked >= LearnedPeak]_vars
=============================================================================
