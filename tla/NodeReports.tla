---------------------------- MODULE NodeReports ----------------------------
(****************************************************************************)
(* Automatic placement on other machines.  The dispatch loop offers a job   *)
(* to a node, judges it by a cached report of that node, ships its source   *)
(* and queues it there; a poller thread keeps the reports fresh, through    *)
(* the same cache.  A report is old news: a job sent after it was taken is  *)
(* charged to it, the node admits again before it starts anything, and      *)
(* nodes that cannot be reached, and jobs a node refused, are left alone    *)
(* for a while.  Where the clone of a project is on a node is asked once    *)
(* and remembered for as long as the daemon runs; whether it is ready to be *)
(* used, for a minute.  A pinned job is offered to its node alone, past the *)
(* checks of automatic placement.                                           *)
(*                                                                          *)
(* Whether a copy is started once, cancelled and collected is the matter of *)
(* RemotePlacement; which job is considered when, of Scheduler.  One age    *)
(* limit of a report stands for the two the code has (a poll interval, and  *)
(* four of them for a report that says the node is down).                   *)
(****************************************************************************)
EXTENDS Naturals, FiniteSets, FiniteSetsExt

CONSTANTS Job, Node,
          Size,      \* of each job, in units of the scarcest resource
          Room,      \* of each node, less its reserve
          Own,       \* what the owner of a node may run there besides
          Compatible, \* nodes that speak our protocol and have our time
          Pin,       \* pinned_node of each job, or Anywhere
          Anywhere,
          Renamed,   \* nodes whose clone has another directory name than ours
          Bare,      \* nodes that lack data of the project at first, though
          Small,     \* it is small enough to be sent to these
          MaxFaults  \* bound: links that break, listings and shipments that fail

ASSUME NodeReportsAssumption ==
  /\ Size \in [Job -> Nat] /\ Room \in [Node -> Nat]
  /\ Own \subseteq Nat /\ 0 \in Own /\ Compatible \subseteq Node
  /\ Anywhere \notin Node /\ {"queued", "done"} \cap Node = {}
  /\ Pin \in [Job -> Node \cup {Anywhere}]
  /\ Renamed \subseteq Node /\ Bare \subseteq Node /\ Small \subseteq Node
  /\ IsFiniteSet(Job) /\ MaxFaults \in Nat

VARIABLES
  place,    \* of each job: "queued" here, "done", or the node it was sent to
  started,  \* jobs their node has started
  own,      \* of each node, what its owner runs
  link,     \* of each node, whether it answers
  cache,    \* ReportCache: of each node, its report, or None
  fresh,    \* nodes whose report is younger than max_age
  poll,     \* the poller: idle, or with an answer it has not stored yet
  loop,     \* the dispatch loop: idle, or a step of an offer
  down,     \* _node_down: nodes left alone
  retry,    \* _placement_failures: <<job, node>> not offered
  path,     \* _EXPANDED, _REPO_INDEX: of each node, what is held for its clone
  lacks,    \* nodes that lack passthrough data
  ready,    \* _repo_ready_cache: of each node, the answer that still serves
  faults

repoVars == <<path, lacks, ready>>
nodesVars == <<place, started, own, link, cache, fresh, poll, loop, down, retry, repoVars, faults>>

None == [online |-> FALSE, none |-> TRUE]
Offline == [online |-> FALSE, none |-> FALSE]
Idle == [at |-> "idle"]

At(n)      == {j \in Job : place[j] = n}
Waiting(n) == At(n) \ started
SizeOf(S)  == SumFunctionOnSet(Size, S)
Carried(n) == SizeOf(At(n)) + own[n]

NodesInit ==
  /\ place = [j \in Job |-> "queued"] /\ started = {}
  /\ own = [n \in Node |-> 0] /\ link = [n \in Node |-> TRUE]
  /\ cache = [n \in Node |-> None] /\ fresh = {}
  /\ poll = Idle /\ loop = Idle /\ down = {} /\ retry = {}
  /\ path = [n \in Node |-> "unknown"] /\ ready = [n \in Node |-> "unknown"]
  /\ lacks = Bare
  /\ faults = 0

----------------------------------------------------------------------------
(* Reports.                                                                 *)

\* local_payload, on the node: its jobs by their state there.
Payload(n) ==
  [online |-> TRUE, none |-> FALSE, load |-> SizeOf(At(n) \cap started) + own[n],
   queued |-> Waiting(n) # {}, knows |-> At(n), own |-> own[n]]
\* run_remote: a command is run there, or there is an error in its place.
Reaches(n) == link[n]
\* remote_report never raises: what goes wrong is a report too.
Report(n) == IF Reaches(n) THEN Payload(n) ELSE Offline

\* What a report leaves out: a job sent after it was taken and not charged to it,
\* or work its owner began since.
Tells(report, n) == At(n) \subseteq report.knows /\ own[n] <= report.own

\* ReportCache.get asks once its report is too old.  The answer is stamped with
\* the time before it was asked for, so it may age as soon as it is kept.
Stale(n) == n \notin fresh
Keep(n, report) ==
  cache' = [cache EXCEPT ![n] = report] /\ fresh' = fresh \cup {n}

Ages(n) ==
  /\ n \in fresh /\ fresh' = fresh \ {n}
  /\ UNCHANGED <<place, started, own, link, cache, poll, loop, down, retry, repoVars, faults>>

\* _start_node_poller.
PollAsks(n) ==
  /\ poll = Idle /\ Stale(n)
  /\ poll' = [at |-> "answered", node |-> n, report |-> Report(n)]
  /\ UNCHANGED <<place, started, own, link, cache, fresh, loop, down, retry, repoVars, faults>>
PollKeeps ==
  /\ poll.at = "answered" /\ Keep(poll.node, poll.report) /\ poll' = Idle
  /\ UNCHANGED <<place, started, own, link, loop, down, retry, repoVars, faults>>

----------------------------------------------------------------------------
(* An offer, _choose_node and _start_remote.                                *)

\* _node_down_reason: our own failure, or the poller's.
SeenDown(n) == n \in down \/ (n \in fresh /\ ~cache[n].online)

\* _remote_admits, resources.admit with the readings of the node.
RemoteAdmits(j, report) == ~report.queued /\ report.load + Size[j] <= Room[loop.node]

Stay == loop' = Idle
Unreachable(n) == down' = down \cup {n}
Considers(j, n) == loop' = [at |-> "ready", job |-> j, node |-> n]
Offered(j, n)   == loop = Idle /\ place[j] = "queued" /\ <<j, n>> \notin retry

\* Mutant: a path that could not be resolved is kept as it was written.
Resolved_literal(n) ==
  IF path[n] # "unknown" THEN path[n] ELSE IF Reaches(n) THEN "real" ELSE "literal"
\* expand_remote and index_repos: an answer is kept for good, a failure is not.
Resolved(n) ==
  IF path[n] # "unknown" THEN path[n] ELSE IF Reaches(n) THEN "real" ELSE "unknown"

Answers(n, what) == ready' = [ready EXCEPT ![n] = what]
Suffers(mishap)  == /\ mishap => faults < MaxFaults
                    /\ faults' = IF mishap THEN faults + 1 ELSE faults

\* pushable_passthrough: all that is missing is small and may be copied.
Pushable(n) == n \in Small
\* push_passthrough: what is missing is sent to the clone, or the link breaks.
Pushed(n) == Pushable(n) /\ lacks' = lacks \ {n}
\* _push_missing: what can be sent is sent, and then it is there.
PushMissing(n) ==
  \/ Pushed(n) /\ Answers(n, "yes") /\ UNCHANGED faults
  \/ Suffers(Pushable(n)) /\ Answers(n, "no") /\ UNCHANGED lacks

\* inspect_repo, at the path that remote_repo_path gives.  A listing of the
\* clones that fails goes by our directory name, for this call alone.
Inspect(n) ==
  \/ /\ ~Reaches(n)
     /\ path' = [path EXCEPT ![n] = Resolved(n)] /\ Answers(n, "cut")
     /\ UNCHANGED <<lacks, faults>>
  \/ /\ Reaches(n) /\ path[n] = "unknown" /\ n \in Renamed
     /\ Suffers(TRUE) /\ Answers(n, "no")
     /\ UNCHANGED <<path, lacks>>
  \/ /\ Reaches(n)
     /\ path' = [path EXCEPT ![n] = Resolved(n)]
     /\ IF n \in lacks THEN PushMissing(n) ELSE Answers(n, "yes") /\ UNCHANGED <<lacks, faults>>

\* _repo_ready: the answer of the last minute, or a new one.
RepoReady(n) == IF ready[n] = "unknown" THEN Inspect(n) ELSE UNCHANGED <<repoVars, faults>>

\* _choose_node: a node that did not answer is left alone, also when it is a
\* minute's old answer that says so.
Offer(j, n) ==
  /\ Offered(j, n) /\ Pin[j] = Anywhere /\ ~SeenDown(n)
  /\ RepoReady(n)
  /\ IF ready'[n] = "yes" THEN Considers(j, n) ELSE Stay
  /\ IF ready'[n] = "cut" THEN Unreachable(n) ELSE UNCHANGED down
  /\ UNCHANGED <<place, started, own, link, cache, fresh, poll, retry>>

\* The pass offers a pinned job to its node and asks neither question.
OfferPinned(j, n) ==
  /\ Offered(j, n) /\ Pin[j] = n
  /\ Considers(j, n)
  /\ UNCHANGED <<place, started, own, link, cache, fresh, poll, down, retry, repoVars, faults>>

LoopAsks ==
  /\ loop.at = "ready" /\ Stale(loop.node)
  /\ loop' = [at |-> "answered", job |-> loop.job, node |-> loop.node,
              report |-> Report(loop.node)]
  /\ UNCHANGED <<place, started, own, link, cache, fresh, poll, down, retry, repoVars, faults>>

\* The report in hand is the one in the cache: what the poller stores while the
\* loop looks at it is not seen.
Judge(report) ==
  IF ~report.online
  THEN /\ IF Pin[loop.job] = Anywhere THEN Unreachable(loop.node) ELSE UNCHANGED down
       /\ Stay
  ELSE /\ UNCHANGED down
       /\ IF loop.node \in Compatible /\ RemoteAdmits(loop.job, report)
          THEN loop' = [at |-> "ship", job |-> loop.job, node |-> loop.node,
                        sure |-> Tells(report, loop.node)]
          ELSE Stay

LoopJudges ==
  /\ \/ /\ loop.at = "answered"
        /\ Keep(loop.node, loop.report) /\ Judge(loop.report)
     \/ /\ loop.at = "ready" /\ ~Stale(loop.node)
        /\ Judge(cache[loop.node]) /\ UNCHANGED <<cache, fresh>>
  /\ UNCHANGED <<place, started, own, link, poll, retry, repoVars, faults>>

\* ship_snapshot, sync_inputs, submit and claim_for_remote_start.  The path is in
\* the spec: the node refuses one it cannot resolve.
Ship ==
  /\ loop.at = "ship" /\ Reaches(loop.node) /\ Resolved(loop.node) = "real"
  /\ path' = [path EXCEPT ![loop.node] = Resolved(loop.node)]
  /\ place' = [place EXCEPT ![loop.job] = loop.node]
  /\ retry' = {r \in retry : r[1] # loop.job}
  /\ loop' = [loop EXCEPT !.at = "account"]
  /\ UNCHANGED <<started, own, link, cache, fresh, poll, down, lacks, ready, faults>>

\* Nothing of the kind: the link, the transfer, a name that is not ours, a refusal.
ShipFails ==
  /\ loop.at = "ship"
  /\ Suffers(Reaches(loop.node) /\ Resolved(loop.node) = "real")
  /\ path' = [path EXCEPT ![loop.node] = Resolved(loop.node)]
  /\ retry' = retry \cup {<<loop.job, loop.node>>} /\ Stay
  /\ UNCHANGED <<place, started, own, link, cache, fresh, poll, down, lacks, ready>>

\* Mutant: nothing is charged for the job just sent.
Charged_not(report, j) == report.load
Charged(report, j) == report.load + Size[j]

\* _account_remote_start, on the report that is in the cache by now.
Account ==
  /\ loop.at = "account" /\ Stay
  /\ cache' = IF ~cache[loop.node].online THEN cache
              ELSE [cache EXCEPT ![loop.node].load = Charged(cache[loop.node], loop.job),
                                 ![loop.node].knows = @ \cup {loop.job}]
  /\ UNCHANGED <<place, started, own, link, fresh, poll, down, retry, repoVars, faults>>

----------------------------------------------------------------------------
(* Time, the nodes and their links.                                         *)

\* Both delays double from a minute, to ten and fifteen.
DownExpires(n) ==
  /\ n \in down /\ down' = down \ {n}
  /\ UNCHANGED <<place, started, own, link, cache, fresh, poll, loop, retry, repoVars, faults>>
ReadyExpires(n) ==
  /\ ready[n] # "unknown" /\ ready' = [ready EXCEPT ![n] = "unknown"]
  /\ UNCHANGED <<place, started, own, link, cache, fresh, poll, loop, down, retry, path, lacks, faults>>
RetryExpires(r) ==
  /\ r \in retry /\ retry' = retry \ {r}
  /\ UNCHANGED <<place, started, own, link, cache, fresh, poll, loop, down, repoVars, faults>>

NodeStarts(n, j) ==
  /\ j \in Waiting(n)
  /\ SizeOf(At(n) \cap started) + own[n] + Size[j] <= Room[n]
  /\ started' = started \cup {j}
  /\ UNCHANGED <<place, own, link, cache, fresh, poll, loop, down, retry, repoVars, faults>>

\* The job ends there, and is reaped here.
NodeEnds(n, j) ==
  /\ j \in At(n) \cap started /\ ~(loop.at = "account" /\ loop.job = j)
  /\ place' = [place EXCEPT ![j] = "done"] /\ started' = started \ {j}
  /\ UNCHANGED <<own, link, cache, fresh, poll, loop, down, retry, repoVars, faults>>

OwnerWorks(n) ==
  \E load \in Own \ {own[n]} :
    /\ own' = [own EXCEPT ![n] = load]
    /\ loop' = IF loop.at = "ship" /\ loop.node = n /\ load > own[n]
               THEN [loop EXCEPT !.sure = FALSE] ELSE loop
    /\ UNCHANGED <<place, started, link, cache, fresh, poll, down, retry, repoVars, faults>>

LinkChanges(n) ==
  /\ link' = [link EXCEPT ![n] = ~@] /\ Suffers(link[n])
  /\ UNCHANGED <<place, started, own, cache, fresh, poll, loop, down, retry, repoVars>>

NodesNext ==
  \/ PollKeeps \/ LoopAsks \/ LoopJudges \/ Ship \/ ShipFails \/ Account
  \/ \E n \in Node :
       \/ Ages(n) \/ PollAsks(n) \/ DownExpires(n) \/ ReadyExpires(n) \/ OwnerWorks(n) \/ LinkChanges(n)
       \/ \E j \in Job :
            Offer(j, n) \/ OfferPinned(j, n) \/ NodeStarts(n, j) \/ NodeEnds(n, j)
  \/ \E r \in Job \X Node : RetryExpires(r)

NodesSpec == NodesInit /\ [][NodesNext]_nodesVars

\* The loop and the poller go round, delays run out, nodes start and end what
\* they can.  The loop offers every job again and again: in order of the queue,
\* to its nodes in order of the configuration.
NodesFairSpec ==
  /\ NodesSpec
  /\ WF_nodesVars(PollKeeps) /\ WF_nodesVars(LoopAsks \/ LoopJudges \/ Ship \/ ShipFails \/ Account)
  /\ \A n \in Node :
       /\ WF_nodesVars(Ages(n)) /\ WF_nodesVars(ReadyExpires(n))
       /\ SF_nodesVars(PollAsks(n)) /\ WF_nodesVars(DownExpires(n))
       /\ WF_nodesVars(LinkChanges(n) /\ link'[n])
       /\ WF_nodesVars(\E j \in Job : NodeStarts(n, j) \/ NodeEnds(n, j))
       /\ WF_nodesVars(\E j \in Job : RetryExpires(<<j, n>>))
       /\ \A j \in Job : SF_nodesVars(Offer(j, n) \/ OfferPinned(j, n))

----------------------------------------------------------------------------
(* Properties.                                                              *)

\* "Nodes never hold a backlog - work is pushed only in the tick the node is
\* expected to take it" (_remote_admits): a job is sent only where it fits beside
\* all that was sent there before, through reports that were taken before, after
\* and during those shipments; unless the owner of the node began something since,
\* or the poller stored a report it had asked for before a job was sent, and the
\* charge for that job is gone.
NoBacklog ==
  [][\A j \in Job, n \in Node :
       place[j] = "queued" /\ place'[j] = n => Carried(n)' <= Room[n] \/ ~loop.sure]_nodesVars

\* A job some node has room for leaves the queue of a machine that cannot take
\* it, however often links broke and shipments failed before, once they hold and
\* the owner of that node leaves it alone, if the node has its data or can be sent
\* it: nothing that was learned of a node while it was away stays in the way.
Placed ==
  \A j \in Job, n \in Compatible :
    Size[j] <= Room[n] /\ Pin[j] \in {Anywhere, n} /\ (n \in Bare => n \in Small) =>
      ((place[j] = "queued" /\ <>[](link[n] /\ own[n] = 0)) ~> place[j] # "queued")

\* The same as an invariant of what is known of the nodes, wherever it is kept.
\* A report of a node that has nothing queued adds up all the jobs it knows of,
\* those charged to it since it was taken included,
Payloads ==
  [online : {TRUE}, none : {FALSE}, load : Nat, queued : BOOLEAN, knows : SUBSET Job, own : Nat]
AddsUp(report) == report.queued \/ SizeOf(report.knows) + report.own <= report.load
Reports == {report \in Payloads : AddsUp(report)} \cup {None, Offline}

\* and the job in hand is still queued, and fits until it has been sent.
Offers ==
  {Idle} \cup [at : {"ready"}, job : Job, node : Node]
         \cup [at : {"answered"}, job : Job, node : Node, report : Reports]
         \cup [at : {"ship", "account"}, job : Job, node : Node, sure : BOOLEAN]
InHand ==
  /\ loop.at \in {"ready", "answered", "ship"} => place[loop.job] = "queued"
  /\ loop.at = "ship" /\ loop.sure => Carried(loop.node) + Size[loop.job] <= Room[loop.node]

NodesInv ==
  /\ place \in [Job -> Node \cup {"queued", "done"}] /\ own \in [Node -> Nat]
  /\ cache \in [Node -> Reports]
  /\ poll \in {Idle} \cup [at : {"answered"}, node : Node, report : Reports]
  /\ loop \in Offers /\ InHand

\* The docstring of _remote_admits, but for the owner of the node.
NeverABacklog ==
  [][\A j \in Job, n \in Node :
       place[j] = "queued" /\ place'[j] = n => SizeOf(At(n))' <= Room[n]]_nodesVars
=============================================================================
