---------------------------- MODULE MCEstimates ----------------------------
(****************************************************************************)
(* Model checking of Estimates and Forecast in one run.  A view is a        *)
(* function of what it is given, so queues are looked at before anything    *)
(* has been learned, each of its inputs enumerated; then the history grows. *)
(****************************************************************************)
EXTENDS Estimates, Forecast

CONSTANTS QueueLength,
          MaxOdd   \* bound: runs and jobs, at a time, that an odd thing happened to

NoReport == [number |-> 0, percent |-> FALSE]
Reports  == {NoReport, [number |-> 50, percent |-> FALSE], [number |-> 5000, percent |-> FALSE],
             [number |-> 100, percent |-> TRUE]}

Rows == [running : {TRUE}, elapsed : {2}, report : Reports, eta : {0, 3}, learned : {0},
         blocked : {FALSE}]
        \cup [running : {FALSE}, elapsed : {0}, report : {NoReport}, eta : {0, 1}, learned : {0, 2},
              blocked : BOOLEAN]
MCViews == [jobs : [1 .. QueueLength -> Rows], slots : {1, 2}]

\* An odd run is elsewhere or was sampled only briefly, or a correction of it is
\* not, or was not, one step; or it failed.
Odd(r) == r.node # Here \/ (r.peak # Null /\ ~ r.well) \/ Torn(r)
FewOdd == Cardinality({j \in Job : job[j] # None /\ Odd(job[j])})
            + Cardinality({i \in DOMAIN hist : Odd(hist[i]) \/ ~ hist[i].ok}) <= MaxOdd

\* No property relates what runs used to how long they took: a history is looked
\* at for the one or for the other.
OneQuestion ==
  \/ FewOdd /\ \A i \in DOMAIN hist : hist[i].took = CHOOSE took \in Takes : TRUE
  \/ /\ \A j \in Job : job[j] # None => job[j].used = Null /\ ~ Torn(job[j])
     /\ \A i \in DOMAIN hist :
          hist[i].peak = Null /\ ~ Torn(hist[i]) /\ hist[i].declared = CHOOSE asks \in Asks : TRUE

MCInit == Init /\ ForecastInit
MCNext == \/ hist = <<>> /\ job = [j \in Job |-> None] /\ ForecastNext /\ UNCHANGED vars
          \/ view = Blank /\ Next /\ OneQuestion'
             /\ UNCHANGED view
MCSpec == MCInit /\ [][MCNext]_<<vars, view>>
=============================================================================
