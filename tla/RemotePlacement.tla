--------------------------- MODULE RemotePlacement ---------------------------
(****************************************************************************)
(* A queued job on another machine: the dispatcher ships it over SSH,       *)
(* claims its row, polls it, brings its results home and passes a           *)
(* cancellation on (backends/dispatcher.py, remote.py, staging.py), while   *)
(* the node accepts specs with `workerq _submit-spec` (cli.py) and runs     *)
(* them with a worker-q of its own.                                         *)
(*                                                                          *)
(* A remote call is a process on the node and an answer.  The answer may be *)
(* lost, the caller may give up or die, and the process goes on all the     *)
(* same.  The dispatcher makes one call at a time, so `call' is its program *)
(* counter.  Which machine admits a job, back-off delays and transfers are  *)
(* left open: a placement may be tried whenever the code could try one.     *)
(* A run on this machine is one step here; Lifecycle has its detail.        *)
(****************************************************************************)
EXTENDS JobStates, Naturals, Sequences, FiniteSets

CONSTANTS Job,        \* the rows of the queue that can travel
          Node,       \* the machines of the registry
          Local,      \* "no node": SQL NULL in bjobs.node
          Own,        \* the label of a job submitted on the node itself
          Pin,        \* bjobs.pinned_node of each job: `--node', or Local
          Relative,   \* jobs that name their outputs by a relative path
          Submission, \* bound: processes of _submit-spec alive at once
          MaxCopies,  \* bound: jobs a node ever accepts
          MaxRestarts \* bound: restarts of the dispatcher

ASSUME LocalAssumption == Local \notin Node /\ Own \notin Job
ASSUME JobsAssumption  == Pin \in [Job -> Node \cup {Local}] /\ Relative \subseteq Job
ASSUME BoundAssumption == MaxCopies \in Nat \ {0} /\ MaxRestarts \in Nat

VARIABLES
  row,        \* bjobs: state, cancel_requested, exit_code, node, remote_id
  here,       \* the jobs with a runner on this machine
  registered, \* config.nodes, re-read from disk by the daemon
  call,       \* what the dispatcher is doing over SSH
  asked,      \* _remote_cancel_at = inf: jobs whose node took the cancellation
  spec,       \* the processes of _submit-spec on the nodes
  copy,       \* the jobs table of each node, indexed by the node's own job id
  tree,       \* the worktrees materialised on each node
  out,        \* on each node, the places that hold output of a job
  recent,     \* is that output younger than the started_at of our row?
  restarts,   \* how often the dispatcher was restarted
  home,       \* the jobs whose results were unpacked here
  hist        \* history, for the properties only: what went wrong for a job

nodeVars == <<spec, copy, tree, out, recent>>
vars == <<row, here, registered, call, asked, restarts, home, hist, nodeVars>>

----------------------------------------------------------------------------
(* Records.                                                                 *)

\* A relative path lands in the worktree, an absolute one in the clone; the
\* collector stages both in a directory of its own.
Place == {"tree", "clone", "stage"}
WritesTo(j) == IF j \in Relative THEN "tree" ELSE "clone"

Row    == [state : BackendState, cancel : BOOLEAN, code : ExitCodes \cup {NoCode},
           node : Node \cup {Local}, id : 0..MaxCopies]
Copy   == [job : Job \cup {Own}, state : JobState \ {"PREPARING"}, code : ExitCodes \cup {NoCode}, stop : BOOLEAN]
SpecFile == [job : Job, node : Node, step : {"check", "insert", "reply"}, id : 0..MaxCopies]
NoSpec == [step |-> "none"]
Mishap == {"cut", "twice", "early", "uncollected", "abandoned"}

Idle             == [op |-> "idle"]
Submitting(j, s) == [op |-> "submit", job |-> j, slot |-> s]
Submitted(j, n, id) == [op |-> "claim", job |-> j, node |-> n, id |-> id]
Settling(op, j)  == [op |-> op, job |-> j]

Calls == {Idle} \cup {Submitting(j, s) : j \in Job, s \in Submission}
           \cup {Submitted(j, n, id) : j \in Job, n \in Node, id \in 0..MaxCopies}
           \cup {Settling(op, j) : op \in {"collect", "drop", "finish"}, j \in Job}

Live(c)   == c.state \in ACTIVE_STATES
Happened(js, what) == hist' = [j \in Job |-> IF j \in js THEN hist[j] \cup {what} ELSE hist[j]]

Remote(j) == row[j].state = "RUNNING" /\ row[j].node # Local
\* The node's record of a row that was placed there.
Entry(j)  == copy[row[j].node][row[j].id]

Init ==
  /\ row = [j \in Job |->
       [state |-> "QUEUED", cancel |-> FALSE, code |-> NoCode, node |-> Local, id |-> 0]]
  /\ here = {} /\ home = {} /\ asked = {} /\ restarts = 0
  /\ registered = Node
  /\ call = Idle
  /\ spec = [s \in Submission |-> NoSpec]
  /\ copy = [n \in Node |-> <<>>]
  /\ tree = [n \in Node |-> {}]
  /\ out  = [n \in Node |-> [j \in Job |-> {}]]
  /\ recent = [n \in Node |-> {}]
  /\ hist = [j \in Job |-> {}]

----------------------------------------------------------------------------
(* Placing a job on a node.                                                 *)

\* _choose_node or the pin of the row picks n; ship_snapshot materialises the
\* worktree there, and reuses one that is left from an earlier attempt.
MayPlace(j, n) ==
  /\ call = Idle
  /\ row[j].state = "QUEUED"
  /\ n \in registered /\ Pin[j] \in {Local, n}

\* The attempt ends before the spec is sent, with the worktree made or not.
ShipFails(j, n) ==
  /\ MayPlace(j, n)
  /\ tree' = [tree EXCEPT ![n] = @ \cup {j}]
  /\ UNCHANGED <<restarts, row, here, registered, call, asked, home, hist, spec, copy, out, recent>>

\* remote.submit: `_submit-spec' is started on the node.
SendSpec(j, n) ==
  /\ MayPlace(j, n)
  /\ \E s \in Submission :
       /\ spec[s] = NoSpec
       /\ spec' = [spec EXCEPT ![s] = [job |-> j, node |-> n, step |-> "check", id |-> 0]]
       /\ call' = Submitting(j, s)
  /\ LET rivals == {s \in Submission : /\ spec[s].step \in {"check", "insert"}
                                       /\ spec[s].job = j /\ spec[s].node = n}
     IN Happened(IF rivals = {} THEN {} ELSE {j}, "twice")
  /\ tree' = [tree EXCEPT ![n] = @ \cup {j}]
  /\ UNCHANGED <<restarts, row, here, registered, asked, home, copy, out, recent>>

\* Mutant: a placement that failed takes its worktree away again.
SubmitFails_tidies ==
  /\ call.op = "submit"
  /\ call' = Idle
  /\ Happened({call.job}, "cut")
  /\ tree' = [n \in Node |-> tree[n] \ {call.job}]
  /\ UNCHANGED <<restarts, row, here, registered, asked, home, spec, copy, out, recent>>

\* The link drops, or the call times out: the row stays queued and the process
\* on the node goes on.
SubmitFails ==
  /\ call.op = "submit"
  /\ call' = Idle
  /\ Happened({call.job}, "cut")
  /\ UNCHANGED <<restarts, row, here, registered, asked, home, nodeVars>>

\* What `workerq cancel' does to a job of the node.
Cancelled(c) ==
  CASE c.state = "QUEUED"  -> [c EXCEPT !.state = "CANCELLED"]
    [] c.state = "RUNNING" -> [c EXCEPT !.stop = TRUE]
    [] OTHER               -> c
CancelAt(n, id) == copy' = [copy EXCEPT ![n][id] = Cancelled(@)]

\* claim_for_remote_start: the row is taken only if it is still queued.
ClaimRemote ==
  /\ call.op = "claim"
  /\ row[call.job].state = "QUEUED"
  /\ row' = [row EXCEPT ![call.job] =
               [@ EXCEPT !.state = "RUNNING", !.node = call.node, !.id = call.id]]
  /\ recent' = [recent EXCEPT ![call.node] = @ \ {call.job}]
  /\ Happened(IF Live(copy[call.node][call.id]) THEN {} ELSE {call.job}, "early")
  /\ call' = Idle
  /\ UNCHANGED <<restarts, here, registered, asked, home, spec, copy, tree, out>>

\* Mutant: what was queued there is forgotten.
Withdraw_forgets ==
  /\ call.op = "claim"
  /\ row[call.job].state # "QUEUED"
  /\ call' = Idle
  /\ UNCHANGED <<restarts, row, here, registered, asked, home, hist, nodeVars>>

\* Otherwise the node is asked to cancel; the answer is not looked at.
Withdraw ==
  /\ call.op = "claim"
  /\ row[call.job].state # "QUEUED"
  /\ \/ CancelAt(call.node, call.id) /\ UNCHANGED hist
     \/ Happened({call.job}, "cut") /\ UNCHANGED copy
  /\ call' = Idle
  /\ UNCHANGED <<restarts, row, here, registered, asked, home, spec, tree, out, recent>>

----------------------------------------------------------------------------
(* The node: `_submit-spec', and the worker-q that runs what it queued.     *)

Moves(s, to) == spec' = [spec EXCEPT ![s] = to]
Waited(s)    == call.op = "submit" /\ call.slot = s

\* existing_submission: a live job with the same label is answered for.
\* Mutant: only one that runs already.
Earlier_running(j, n) ==
  {id \in DOMAIN copy[n] : copy[n][id].job = j /\ copy[n][id].state = "RUNNING"}

Earlier(j, n) == {id \in DOMAIN copy[n] : copy[n][id].job = j /\ Live(copy[n][id])}

\* A look that fails is passed over, and one goes no further back than the 500
\* newest rows: either way a live job may be there, unseen.
SpecChecks(s) ==
  /\ spec[s].step = "check"
  /\ LET p == spec[s]  earlier == Earlier(p.job, p.node) IN
       /\ p.job \in tree[p.node]
       /\ \/ /\ Moves(s, [p EXCEPT !.step = "insert"])
             /\ Happened(IF earlier = {} THEN {} ELSE {p.job}, "twice")
          \/ /\ \E id \in earlier : Moves(s, [p EXCEPT !.step = "reply", !.id = id])
             /\ UNCHANGED hist
  /\ UNCHANGED <<restarts, row, here, registered, call, asked, home, copy, tree, out, recent>>

\* GPUQService.submit on the node, which gives the job the next id there.
Accepts(n, job) ==
  /\ Len(copy[n]) < MaxCopies
  /\ copy' = [copy EXCEPT ![n] =
       Append(@, [job |-> job, state |-> "QUEUED", code |-> NoCode, stop |-> FALSE])]

\* Somebody at the node submits a job there.
OwnSubmits(n) ==
  /\ Accepts(n, Own)
  /\ UNCHANGED <<restarts, row, here, registered, call, asked, home, hist, spec, tree, out, recent>>

SpecInserts(s) ==
  /\ spec[s].step = "insert"
  /\ LET p == spec[s] IN
       /\ Accepts(p.node, p.job)
       /\ Moves(s, [p EXCEPT !.step = "reply", !.id = Len(copy[p.node]) + 1])
  /\ UNCHANGED <<restarts, row, here, registered, call, asked, home, hist, tree, out, recent>>

\* Refused (protocol, worktree gone), failed, or never arrived.
SpecRefuses(s) ==
  /\ spec[s].step \in {"check", "insert"}
  /\ Moves(s, NoSpec)
  /\ call' = IF Waited(s) THEN Idle ELSE call
  /\ UNCHANGED <<restarts, row, here, registered, asked, home, hist, copy, tree, out, recent>>

SpecAnswers(s) ==
  /\ spec[s].step = "reply"
  /\ Moves(s, NoSpec)
  /\ call' = IF Waited(s) THEN Submitted(spec[s].job, spec[s].node, spec[s].id) ELSE call
  /\ UNCHANGED <<restarts, row, here, registered, asked, home, hist, copy, tree, out, recent>>

CopyStarts(n, id) ==
  /\ copy[n][id].state = "QUEUED"
  /\ copy' = [copy EXCEPT ![n][id].state = "RUNNING"]
  /\ UNCHANGED <<restarts, row, here, registered, call, asked, home, hist, spec, tree, out, recent>>

\* run_job on the node: its outcome, and its results where the command put
\* them.  How the node's own jobs end is not told apart.
Outcomes(c, code) ==
  {IF code = "zero" THEN "SUCCEEDED" ELSE "FAILED"} \cup (IF c.stop THEN {"CANCELLED"} ELSE {})

CopyEnds(n, id) ==
  /\ copy[n][id].state = "RUNNING" /\ copy[n][id].job # Own
  /\ \E code \in ExitCodes : \E state \in Outcomes(copy[n][id], code) :
       copy' = [copy EXCEPT ![n][id] = [@ EXCEPT !.state = state, !.code = code]]
  /\ LET j == copy[n][id].job IN
       /\ out' = IF WritesTo(j) = "tree" /\ j \notin tree[n] THEN out
                 ELSE [out EXCEPT ![n][j] = @ \cup {WritesTo(j)}]
       /\ recent' = IF Remote(j) /\ row[j].node = n
                    THEN [recent EXCEPT ![n] = @ \cup {j}] ELSE recent
  /\ UNCHANGED <<restarts, row, here, registered, call, asked, home, hist, spec, tree>>

OwnEnds(n, id) ==
  /\ copy[n][id].state = "RUNNING" /\ copy[n][id].job = Own
  /\ copy' = [copy EXCEPT ![n][id].state = "SUCCEEDED"]
  /\ UNCHANGED <<restarts, row, here, registered, call, asked, home, hist, spec, tree, out, recent>>

\* The node was rebooted under it.
CopyDies(n, id) ==
  /\ copy[n][id].state = "RUNNING" /\ copy[n][id].job # Own
  /\ copy' = [copy EXCEPT ![n][id].state = "LOST"]
  /\ UNCHANGED <<restarts, row, here, registered, call, asked, home, hist, spec, tree, out, recent>>

----------------------------------------------------------------------------
(* _reap_remote: follow what was placed, and bring its results home.        *)

\* Mutant: a job that the listing does not show terminal has ended, too.
ReapLook_guesses(j) ==
  /\ call = Idle
  /\ Remote(j) /\ row[j].node \in registered
  /\ call' = Settling("collect", j)
  /\ UNCHANGED <<restarts, row, here, registered, asked, home, hist, nodeVars>>

\* The listing shows the job terminal.  A node that does not answer, or is not
\* in the registry, leaves the row as it is.
ReapLook(j) ==
  /\ call = Idle
  /\ Remote(j) /\ row[j].node \in registered
  /\ ~Live(Entry(j))
  /\ call' = Settling("collect", j)
  /\ UNCHANGED <<restarts, row, here, registered, asked, home, hist, nodeVars>>

\* collect_outputs: the collector cannot be sent or does not run.
CollectUnsent(j) ==
  /\ call = Settling("collect", j)
  /\ call' = Settling("drop", j)
  /\ Happened({j}, "uncollected")
  /\ UNCHANGED <<restarts, row, here, registered, asked, home, nodeVars>>

\* Mutant: only the clone is searched.
CollectRuns_clone(j) ==
  /\ call = Settling("collect", j)
  /\ home' = IF j \in recent[row[j].node] /\ "clone" \in out[row[j].node][j]
             THEN home \cup {j} ELSE home
  /\ call' = Settling("drop", j)
  /\ UNCHANGED <<restarts, row, here, registered, asked, hist, nodeVars>>

\* It stages afresh what is younger than started_at, in the worktree and in
\* the clone; the archive then arrives and is unpacked, or does not.
CollectRuns(j) ==
  /\ call = Settling("collect", j)
  /\ LET n      == row[j].node
         found  == j \in recent[n] /\ out[n][j] \cap {"tree", "clone"} # {}
         places == out[n][j] \ {"stage"}
     IN \/ /\ home' = IF found THEN home \cup {j} ELSE home
           /\ out'  = [out EXCEPT ![n][j] = places]
           /\ UNCHANGED hist
        \/ /\ found
           /\ out' = [out EXCEPT ![n][j] = places \cup {"stage"}]
           /\ Happened({j}, "uncollected")
           /\ UNCHANGED home
  /\ call' = Settling("drop", j)
  /\ UNCHANGED <<restarts, row, here, registered, asked, spec, copy, tree, recent>>

\* remove_worktree: links into live data are detached first, and a tree with one
\* that stays, or on a node that does not answer, is left alone.
RemoveTree(j, n) ==
  \/ /\ tree' = [tree EXCEPT ![n] = @ \ {j}]
     /\ out'  = [out EXCEPT ![n][j] = @ \ {"tree"}]
  \/ UNCHANGED <<tree, out>>

\* _drop_remote_worktree, whatever the collection came to.
DropTree(j) ==
  /\ call = Settling("drop", j)
  /\ RemoveTree(j, row[j].node)
  /\ call' = Settling("finish", j)
  /\ UNCHANGED <<restarts, row, here, registered, asked, home, hist, spec, copy, recent>>

\* The code that is recorded: the node's, or one made up from its state.
Verdict(c) == IF c.code # NoCode THEN c.code
              ELSE IF c.state = "SUCCEEDED" THEN "zero" ELSE "nonzero"

FinishRemote(j) ==
  /\ call = Settling("finish", j)
  /\ row' = [row EXCEPT ![j] = [@ EXCEPT !.state = "FINISHED", !.code = Verdict(Entry(j))]]
  /\ call' = Idle
  /\ UNCHANGED <<restarts, here, registered, asked, home, hist, nodeVars>>

----------------------------------------------------------------------------
(* Cancellation.                                                            *)

\* `workerq cancel' here: a queued row is removed, a running one is flagged.
Cancel(j) ==
  /\ \/ /\ row[j].state = "QUEUED"
        /\ row' = [row EXCEPT ![j].state = "REMOVED"]
     \/ /\ row[j].state = "RUNNING"
        /\ row' = [row EXCEPT ![j].cancel = TRUE]
  /\ UNCHANGED <<restarts, here, registered, call, asked, home, hist, nodeVars>>

\* _cancel_remote: a node that left the registry cannot be asked, and the row
\* is finished without it.
Abandon(j) ==
  /\ call = Idle
  /\ Remote(j) /\ row[j].cancel /\ row[j].node \notin registered
  /\ row' = [row EXCEPT ![j] = [@ EXCEPT !.state = "FINISHED", !.code = "nonzero"]]
  /\ hist' = [hist EXCEPT ![j] = @ \cup {"abandoned", "cut"}]
  /\ UNCHANGED <<restarts, here, registered, call, asked, home, nodeVars>>

MustAsk(j) == /\ call = Idle
              /\ Remote(j) /\ row[j].cancel /\ row[j].node \in registered
              /\ j \notin asked

\* The node is asked until it answers, and then left alone.
AskAnswered(j) ==
  /\ MustAsk(j)
  /\ CancelAt(row[j].node, row[j].id)
  /\ asked' = asked \cup {j}
  /\ UNCHANGED <<restarts, row, here, registered, call, home, hist, spec, tree, out, recent>>

\* Mutant: a node that does not answer is not asked again.
AskFails_final(j) ==
  /\ MustAsk(j)
  /\ asked' = asked \cup {j}
  /\ UNCHANGED <<restarts, row, here, registered, call, home, hist, nodeVars>>

\* It is reached but the answer is lost.
AskFails(j) ==
  /\ MustAsk(j)
  /\ CancelAt(row[j].node, row[j].id)
  /\ UNCHANGED <<restarts, row, here, registered, call, asked, home, hist, spec, tree, out, recent>>

----------------------------------------------------------------------------
(* This machine.                                                            *)

\* The pass starts the job here, also right after a placement that failed.
StartHere(j) ==
  /\ call = Idle
  /\ row[j].state = "QUEUED" /\ Pin[j] = Local
  /\ row'  = [row EXCEPT ![j].state = "RUNNING"]
  /\ here' = here \cup {j}
  /\ UNCHANGED <<restarts, registered, call, asked, home, hist, nodeVars>>

EndsHere(j) ==
  /\ j \in here
  /\ here' = here \ {j}
  /\ UNCHANGED <<restarts, row, registered, call, asked, home, hist, nodeVars>>

ReapHere(j) ==
  /\ call = Idle
  /\ row[j].state = "RUNNING" /\ row[j].node = Local /\ j \notin here
  /\ \E code \in ExitCodes :
       row' = [row EXCEPT ![j] = [@ EXCEPT !.state = "FINISHED", !.code = code]]
  /\ UNCHANGED <<restarts, here, registered, call, asked, home, hist, nodeVars>>

\* _refresh_nodes: a node is added to or removed from the config file.
RefreshNodes(n) ==
  /\ call = Idle
  /\ registered' = IF n \in registered THEN registered \ {n} ELSE registered \cup {n}
  /\ UNCHANGED <<restarts, row, here, call, asked, home, hist, nodeVars>>

\* The dispatcher dies in the middle of a call, or with what it remembers, and
\* is started again; _recover_orphans leaves the rows of other machines alone.
Restart ==
  /\ call # Idle \/ asked # {}
  /\ restarts < MaxRestarts /\ restarts' = restarts + 1
  /\ call' = Idle /\ asked' = {}
  /\ Happened(IF call.op \in {"submit", "claim"} THEN {call.job} ELSE {}, "cut")
  /\ UNCHANGED <<row, here, registered, home, nodeVars>>

----------------------------------------------------------------------------
Settle(j)  == CollectUnsent(j) \/ CollectRuns(j) \/ DropTree(j) \/ FinishRemote(j)
Dispatcher(j) == \/ \E n \in Node : ShipFails(j, n) \/ SendSpec(j, n)
                 \/ ReapLook(j) \/ Settle(j)
                 \/ Abandon(j) \/ AskAnswered(j) \/ AskFails(j)
                 \/ StartHere(j) \/ ReapHere(j)
Answer     == SubmitFails \/ ClaimRemote \/ Withdraw
Worker(n)  == \/ OwnSubmits(n)
              \/ \E id \in DOMAIN copy[n] : \/ CopyStarts(n, id) \/ CopyEnds(n, id)
                                           \/ CopyDies(n, id) \/ OwnEnds(n, id)

Next == \/ \E j \in Job : Dispatcher(j) \/ Cancel(j) \/ EndsHere(j)
        \/ \E s \in Submission : \/ SpecChecks(s) \/ SpecInserts(s)
                                 \/ SpecRefuses(s) \/ SpecAnswers(s)
        \/ \E n \in Node : Worker(n) \/ RefreshNodes(n)
        \/ Answer \/ Restart

Spec == Init /\ [][Next]_vars

\* Every call has a timeout.  A node is reached again and again, and the
\* dispatcher is not restarted at the same step for ever, so what a tick tries
\* every time succeeds at last.  A job that was told to stop is killed by the
\* node within its grace period; one that was not may run for ever.
StoppedEnds(n, id) == id \in DOMAIN copy[n] /\ copy[n][id].stop /\ CopyEnds(n, id)
FairSpec ==
  /\ Spec
  /\ WF_vars(Answer)
  /\ \A j \in Job : /\ WF_vars(Settle(j))
                    /\ SF_vars(ReapLook(j))
                    /\ SF_vars(Abandon(j) \/ AskAnswered(j))
  /\ \A n \in Node : \A id \in 1..MaxCopies : WF_vars(StoppedEnds(n, id))

----------------------------------------------------------------------------
(* Properties.                                                              *)

\* Every variable keeps its type.
TypeOK ==
  /\ row \in [Job -> Row]
  /\ here \subseteq Job /\ home \subseteq Job /\ asked \subseteq Job
  /\ registered \subseteq Node /\ restarts \in 0..MaxRestarts
  /\ call \in Calls
  /\ spec \in [Submission -> SpecFile \cup {NoSpec}]
  /\ copy \in [Node -> Seq(Copy)] /\ \A n \in Node : Len(copy[n]) <= MaxCopies
  /\ tree \in [Node -> SUBSET Job] /\ recent \in [Node -> SUBSET Job]
  /\ out \in [Node -> [Job -> SUBSET Place]]
  /\ hist \in [Job -> SUBSET Mishap]

LiveCopies(j, n) == {id \in DOMAIN copy[n] : copy[n][id].job = j /\ Live(copy[n][id])}

\* Unreachable is not finished (_reap_remote): a row that ended on a node, and
\* was not given up with its node, ended there, as that very job, with a code
\* that is the job's own.
EndedOnItsNode ==
  \A j \in Job : row[j].state = "FINISHED" /\ row[j].node # Local /\ "abandoned" \notin hist[j] =>
    /\ row[j].id \in DOMAIN copy[row[j].node]
    /\ Entry(j).job = j /\ ~Live(Entry(j))
    /\ row[j].code = "zero" => Entry(j).code = "zero"

\* A job may be queued twice on a node: an answer about it was lost, and after
\* that two submissions of it were at work there at once, or one did not see
\* what an earlier one had queued.
Twice(j) == {"cut", "twice"} \subseteq hist[j]

\* _submit-spec is idempotent by label: however often a spec is sent, and
\* whatever answer is lost, a node has one live copy of a job, as long as its
\* submissions come one after the other and each look for an earlier one works;
\* and with no answer lost, also where the look fails.
OneCopyPerNode ==
  \A n \in Node, j \in Job : Cardinality(LiveCopies(j, n)) <= 1 \/ Twice(j)

\* No orphan runs on a node (_start_remote: "rather than leaving an orphan"):
\* a live copy nobody told to stop is followed by a row or just being placed,
\* unless an answer about this job was lost.
NoOrphan ==
  \A n \in Node : \A id \in DOMAIN copy[n] : LET c == copy[n][id] IN
    \/ c.job = Own \/ ~Live(c) \/ c.stop
    \/ Remote(c.job) /\ row[c.job].node = n /\ row[c.job].id = id
    \/ call.op \in {"submit", "claim"} /\ call.job = c.job
    \/ "cut" \in hist[c.job]

\* Results are home before the job is recorded as ended
\* (_collect_remote_outputs), unless the collection failed and was logged, or
\* they were written before started_at, which is the time of the claim.
HomeBeforeFinish ==
  \A j \in Job : row[j].state = "FINISHED" /\ row[j].node # Local /\ row[j].code = "zero" =>
    j \in home \/ hist[j] \cap {"uncollected", "early"} # {}

\* _drop_remote_worktree never pulls the worktree from under a copy that is
\* alive on that node, unless that is a second one: see OneCopyPerNode.
TreeOutlivesCopy ==
  [][\A n \in Node : \A j \in tree[n] \ tree'[n] : LiveCopies(j, n) = {} \/ Twice(j)]_vars

\* A cancellation of a job that is on a node reaches it (_cancel_remote):
\* although the link fails and the dispatcher restarts, the row ends.
CancelSettles ==
  \A j \in Job : (Remote(j) /\ row[j].cancel) ~> row[j].state = "FINISHED"

\* docs/multi-node.md:1212: "No duplicate work."  A job executes on one
\* machine at a time.
NoDuplicateWork ==
  \A j \in Job : LET on == {n \in Node : \E id \in LiveCopies(j, n) : copy[n][id].state = "RUNNING"}
                 IN Cardinality(on) + (IF j \in here THEN 1 ELSE 0) <= 1

\* dispatcher.py:1957, of results that could not be collected: "They are not
\* lost - fetch them by hand".
UncollectedKept ==
  \A j \in Job : /\ row[j].state = "FINISHED" /\ row[j].code = "zero"
                 /\ "uncollected" \in hist[j] /\ "early" \notin hist[j] /\ j \notin home
                 => out[row[j].node][j] # {}

\* docs/multi-node.md:703: "The job's real state comes back from the worker".
\* What counts as a success here was a success there.
RealStateComesBack ==
  \A j \in Job : row[j].state = "FINISHED" /\ row[j].node # Local /\ row[j].code = "zero" =>
    Entry(j).state = "SUCCEEDED"

=============================================================================
