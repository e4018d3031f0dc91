----------------------------- MODULE RemoteProofs -----------------------------
(****************************************************************************)
(* Type correctness of RemotePlacement, and that the rows of this machine   *)
(* and the tables of the nodes agree, for any number of jobs, machines,     *)
(* submissions and restarts.                                                *)
(****************************************************************************)
EXTENDS RemoteInvariants, FiniteSetTheorems, TLAPS

----------------------------------------------------------------------------
(* Types.                                                                   *)

\* A changed row is a row.
LEMMA RowType ==
  ASSUME TypeOK, NEW j \in Job, NEW r \in Row, row' = [row EXCEPT ![j] = r]
  PROVE  row' \in [Job -> Row]
  BY DEF TypeOK

\* A changed record of a node's table keeps the table.
LEMMA CopyType ==
  ASSUME TypeOK, NEW n \in Node, NEW id \in DOMAIN copy[n], NEW c \in Copy,
         copy' = [copy EXCEPT ![n][id] = c]
  PROVE  copy' \in [Node -> Seq(Copy)] /\ \A m \in Node : Len(copy'[m]) <= MaxCopies
<1>1. copy[n] \in Seq(Copy) /\ [copy[n] EXCEPT ![id] = c] \in Seq(Copy)
  BY DEF TypeOK
<1>2. Len([copy[n] EXCEPT ![id] = c]) = Len(copy[n])
  BY <1>1
<1>3. copy' = [copy EXCEPT ![n] = [copy[n] EXCEPT ![id] = c]]
  OBVIOUS
<1> QED
  BY <1>1, <1>2, <1>3 DEF TypeOK

\* Accepting a job appends to the table, within its bound.
LEMMA AcceptsType ==
  ASSUME TypeOK, NEW n \in Node, NEW job \in Job \cup {Own}, Accepts(n, job)
  PROVE  /\ copy' \in [Node -> Seq(Copy)]
         /\ \A m \in Node : Len(copy'[m]) <= MaxCopies
         /\ Len(copy[n]) + 1 \in 0..MaxCopies
<1> DEFINE c == [job |-> job, state |-> "QUEUED", code |-> NoCode, stop |-> FALSE]
<1>1. c \in Copy
  BY DEF Copy, JobState, ACTIVE_STATES
<1>2. copy[n] \in Seq(Copy) /\ Len(copy[n]) < MaxCopies
  BY DEF TypeOK, Accepts
<1>3. Append(copy[n], c) \in Seq(Copy) /\ Len(Append(copy[n], c)) = Len(copy[n]) + 1
  BY <1>1, <1>2
<1>4. copy' = [copy EXCEPT ![n] = Append(copy[n], c)]
  BY DEF Accepts
<1> QED
  BY <1>2, <1>3, <1>4, BoundAssumption DEF TypeOK

\* A cancelled record is a record of the same job; one that had ended is as it
\* was.
LEMMA CancelledType ==
  ASSUME NEW c \in Copy
  PROVE  /\ Cancelled(c) \in Copy /\ Cancelled(c).job = c.job
         /\ ~Live(c) => Cancelled(c) = c
         /\ ~Live(Cancelled(c)) \/ Cancelled(c).stop
         /\ Cancelled(c).state = "SUCCEEDED" => Cancelled(c) = c
<1>1. CASE c.state = "QUEUED"
  <2>1. Cancelled(c) = [c EXCEPT !.state = "CANCELLED"]
    BY <1>1 DEF Cancelled
  <2> QED
    BY <1>1, <2>1 DEF Copy, Live, JobState, ACTIVE_STATES, TERMINAL_STATES
<1>2. CASE c.state = "RUNNING"
  <2>1. Cancelled(c) = [c EXCEPT !.stop = TRUE]
    BY <1>2 DEF Cancelled
  <2> QED
    BY <1>2, <2>1 DEF Copy, Live, ACTIVE_STATES
<1>3. CASE c.state \notin {"QUEUED", "RUNNING"}
  <2>1. Cancelled(c) = c
    BY <1>3 DEF Cancelled
  <2> QED
    BY <1>3, <2>1 DEF Copy, Live, JobState, ACTIVE_STATES, TERMINAL_STATES
<1> QED
  BY <1>1, <1>2, <1>3

\* Asking a node to cancel keeps its table.
LEMMA CancelAtType ==
  ASSUME TypeOK, NEW n \in Node, NEW id \in Nat, CancelAt(n, id)
  PROVE  copy' \in [Node -> Seq(Copy)] /\ \A m \in Node : Len(copy'[m]) <= MaxCopies
<1>1. CASE id \in DOMAIN copy[n]
  <2>1. Cancelled(copy[n][id]) \in Copy
    BY <1>1, CancelledType DEF TypeOK
  <2>2. copy' = [copy EXCEPT ![n][id] = Cancelled(copy[n][id])]
    BY DEF CancelAt
  <2> QED
    BY <1>1, <2>1, <2>2, CopyType
<1>2. CASE id \notin DOMAIN copy[n]
  <2>1. copy[n] \in Seq(Copy)
    BY DEF TypeOK
  <2>2. [copy[n] EXCEPT ![id] = Cancelled(copy[n][id])] = copy[n]
    BY <1>2, <2>1
  <2>3. copy' = copy
    BY <2>2 DEF CancelAt, TypeOK
  <2> QED
    BY <2>3 DEF TypeOK
<1> QED
  BY <1>1, <1>2

\* History grows by known mishaps.
LEMMA HistType ==
  ASSUME TypeOK, NEW js \in SUBSET Job, NEW what \in Mishap, Happened(js, what)
  PROVE  /\ hist' \in [Job -> SUBSET Mishap]
         /\ \A j \in Job : hist[j] \subseteq hist'[j]
  BY DEF TypeOK, Happened

\* The initial state is well typed.
LEMMA InitType == Init => TypeOK
<1> SUFFICES ASSUME Init PROVE TypeOK
  OBVIOUS
<1>1. row \in [Job -> Row]
  BY BoundAssumption DEF Init, Row, BackendState, ExitCodes
<1>2. copy \in [Node -> Seq(Copy)] /\ \A n \in Node : Len(copy[n]) <= MaxCopies
  BY BoundAssumption DEF Init
<1>3. out \in [Node -> [Job -> SUBSET Place]]
  BY DEF Init
<1>4. spec \in [Submission -> SpecFile \cup {NoSpec}]
  BY DEF Init
<1>5. call \in Calls /\ restarts \in 0..MaxRestarts /\ registered \subseteq Node
  BY BoundAssumption DEF Init, Calls
<1>6. /\ tree \in [Node -> SUBSET Job] /\ recent \in [Node -> SUBSET Job]
      /\ hist \in [Job -> SUBSET Mishap]
      /\ here \subseteq Job /\ home \subseteq Job /\ asked \subseteq Job
  BY DEF Init
<1> QED
  BY <1>1, <1>2, <1>3, <1>4, <1>5, <1>6 DEF TypeOK

\* Placing a job.
LEMMA PlaceTypes ==
  ASSUME TypeOK, NEW j \in Job, NEW n \in Node, ShipFails(j, n) \/ SendSpec(j, n)
  PROVE  TypeOK'
<1>1. CASE ShipFails(j, n)
  BY <1>1 DEF ShipFails, TypeOK
<1>2. CASE SendSpec(j, n)
  <2>1. PICK s \in Submission :
          /\ spec' = [spec EXCEPT ![s] = [job |-> j, node |-> n, step |-> "check", id |-> 0]]
          /\ call' = Submitting(j, s)
    BY <1>2 DEF SendSpec
  <2>2. spec' \in [Submission -> SpecFile \cup {NoSpec}] /\ call' \in Calls
    BY <2>1, BoundAssumption DEF TypeOK, SpecFile, Calls
  <2>3. hist' \in [Job -> SUBSET Mishap]
    BY <1>2, HistType DEF SendSpec, Mishap
  <2>4. tree' \in [Node -> SUBSET Job]
    BY <1>2 DEF SendSpec, TypeOK
  <2> QED
    BY <1>2, <2>2, <2>3, <2>4 DEF SendSpec, TypeOK
<1> QED
  BY <1>1, <1>2

\* The answer of _submit-spec, or its absence.
LEMMA AnswerTypes ==
  ASSUME TypeOK, Answer
  PROVE  TypeOK'
<1>1. CASE SubmitFails
  <2>1. call.job \in Job
    BY <1>1 DEF SubmitFails, TypeOK, Calls, Idle, Submitting, Submitted, Settling
  <2>2. hist' \in [Job -> SUBSET Mishap]
    BY <1>1, <2>1, HistType DEF SubmitFails, Mishap
  <2> QED
    BY <1>1, <2>2 DEF SubmitFails, nodeVars, TypeOK, Calls
<1>2. ASSUME call.op = "claim"
      PROVE  call.job \in Job /\ call.node \in Node /\ call.id \in 0..MaxCopies
  BY <1>2 DEF TypeOK, Calls, Idle, Submitting, Submitted, Settling
<1>3. CASE ClaimRemote
  <2> DEFINE r == [row[call.job] EXCEPT !.state = "RUNNING", !.node = call.node, !.id = call.id]
  <2>1. r \in Row
    <3>1. row[call.job] \in Row /\ call.node \in Node /\ call.id \in 0..MaxCopies
      BY <1>2, <1>3, BoundAssumption DEF ClaimRemote, TypeOK
    <3> QED
      BY <3>1 DEF Row, BackendState
  <2>2. row' = [row EXCEPT ![call.job] = r]
    BY <1>3 DEF ClaimRemote
  <2>3. row' \in [Job -> Row]
    BY <1>2, <1>3, <2>1, <2>2, RowType DEF ClaimRemote
  <2>4. hist' \in [Job -> SUBSET Mishap]
    BY <1>2, <1>3, HistType DEF ClaimRemote, Mishap
  <2>5. recent' \in [Node -> SUBSET Job]
    BY <1>3 DEF ClaimRemote, TypeOK
  <2> QED
    BY <1>3, <2>3, <2>4, <2>5 DEF ClaimRemote, TypeOK, Calls
<1>4. CASE Withdraw
  <2>1. hist' \in [Job -> SUBSET Mishap]
    BY <1>2, <1>4, HistType DEF Withdraw, Mishap, TypeOK
  <2> QED
    <3>1. copy' \in [Node -> Seq(Copy)] /\ \A m \in Node : Len(copy'[m]) <= MaxCopies
      BY <1>2, <1>4, CancelAtType DEF Withdraw, TypeOK
    <3> QED
      BY <1>4, <2>1, <3>1 DEF Withdraw, TypeOK, Calls
<1> QED
  BY <1>1, <1>3, <1>4 DEF Answer

\* The processes of _submit-spec.
LEMMA SpecTypes ==
  ASSUME TypeOK, NEW s \in Submission,
         SpecChecks(s) \/ SpecInserts(s) \/ SpecRefuses(s) \/ SpecAnswers(s)
  PROVE  TypeOK'
<1> DEFINE p == spec[s]
<1>1. p.step # "none" => p \in SpecFile
  BY DEF TypeOK, SpecFile, NoSpec
<1>2. CASE SpecChecks(s)
  <2>1. p \in SpecFile
    BY <1>1, <1>2 DEF SpecChecks
  <2>2. \A id \in Earlier(p.job, p.node) : id \in 0..MaxCopies
    BY <2>1, BoundAssumption DEF Earlier, TypeOK, SpecFile
  <2>3. PICK q \in SpecFile : spec' = [spec EXCEPT ![s] = q]
    BY <1>2, <2>1, <2>2 DEF SpecChecks, Moves, SpecFile
  <2>4. hist' \in [Job -> SUBSET Mishap]
    <3>1. CASE UNCHANGED hist
      BY <3>1 DEF TypeOK
    <3>2. ASSUME NEW js \in SUBSET Job, Happened(js, "twice")
          PROVE  hist' \in [Job -> SUBSET Mishap]
      BY <3>2, HistType DEF Mishap
    <3> QED BY <1>2, <2>1, <3>1, <3>2 DEF SpecChecks, SpecFile
  <2> QED
    BY <1>2, <2>3, <2>4 DEF SpecChecks, TypeOK
<1>3. CASE SpecInserts(s)
  <2>1. p \in SpecFile /\ p.node \in Node /\ p.job \in Job \cup {Own}
    BY <1>1, <1>3 DEF SpecInserts, SpecFile
  <2>2. /\ copy' \in [Node -> Seq(Copy)]
        /\ \A m \in Node : Len(copy'[m]) <= MaxCopies
        /\ Len(copy[p.node]) + 1 \in 0..MaxCopies
    BY <1>3, <2>1, AcceptsType DEF SpecInserts
  <2>3. PICK q \in SpecFile : spec' = [spec EXCEPT ![s] = q]
    BY <1>3, <2>1, <2>2 DEF SpecInserts, Moves, SpecFile
  <2> QED
    BY <1>3, <2>2, <2>3 DEF SpecInserts, TypeOK
<1>4. CASE SpecRefuses(s)
  BY <1>4 DEF SpecRefuses, Moves, TypeOK, Calls
<1>5. CASE SpecAnswers(s)
  <2>1. p \in SpecFile
    BY <1>1, <1>5 DEF SpecAnswers
  <2> QED
    BY <1>5, <2>1 DEF SpecAnswers, Moves, TypeOK, Calls, SpecFile
<1> QED
  BY <1>2, <1>3, <1>4, <1>5

\* The node's own worker.
LEMMA WorkerTypes ==
  ASSUME TypeOK, NEW n \in Node, Worker(n)
  PROVE  TypeOK'
<1>1. CASE OwnSubmits(n)
  BY <1>1, AcceptsType DEF OwnSubmits, TypeOK
<1>2. ASSUME NEW id \in DOMAIN copy[n], NEW c \in Copy, copy' = [copy EXCEPT ![n][id] = c],
             UNCHANGED <<restarts, row, here, registered, call, asked, home, hist, spec, tree>>,
             out' \in [Node -> [Job -> SUBSET Place]], recent' \in [Node -> SUBSET Job]
      PROVE  TypeOK'
  BY <1>2, CopyType DEF TypeOK
<1>3. \A id \in DOMAIN copy[n] : copy[n][id] \in Copy
  BY DEF TypeOK
<1>4. ASSUME NEW id \in DOMAIN copy[n], CopyStarts(n, id)
      PROVE  TypeOK'
  <2>1. [copy[n][id] EXCEPT !.state = "RUNNING"] \in Copy
    BY <1>3 DEF Copy, JobState, ACTIVE_STATES
  <2> QED
    BY <1>2, <1>4, <2>1 DEF CopyStarts, TypeOK
<1>5. ASSUME NEW id \in DOMAIN copy[n], CopyEnds(n, id)
      PROVE  TypeOK'
  <2> DEFINE c(state, code) == [copy[n][id] EXCEPT !.state = state, !.code = code]
  <2>1. PICK code \in ExitCodes :
          \E state \in Outcomes(copy[n][id], code) : copy' = [copy EXCEPT ![n][id] = c(state, code)]
    BY <1>5 DEF CopyEnds
  <2>2. PICK state \in Outcomes(copy[n][id], code) : copy' = [copy EXCEPT ![n][id] = c(state, code)]
    BY <2>1
  <2>6. c(state, code) \in Copy
    BY <1>3 DEF Copy, Outcomes, JobState, TERMINAL_STATES, ACTIVE_STATES
  <2>3. copy[n][id].job \in Job
    BY <1>3, <1>5 DEF CopyEnds, Copy
  <2>4. out' \in [Node -> [Job -> SUBSET Place]]
    BY <1>5, <2>3 DEF CopyEnds, TypeOK, WritesTo, Place
  <2>5. recent' \in [Node -> SUBSET Job]
    BY <1>5, <2>3 DEF CopyEnds, TypeOK
  <2> QED
    BY <1>2, <1>5, <2>2, <2>4, <2>5, <2>6 DEF CopyEnds
<1>6. ASSUME NEW id \in DOMAIN copy[n], CopyDies(n, id) \/ OwnEnds(n, id)
      PROVE  TypeOK'
  <2>1. PICK state \in TERMINAL_STATES : copy' = [copy EXCEPT ![n][id].state = state]
    BY <1>6 DEF CopyDies, OwnEnds, TERMINAL_STATES
  <2>2. [copy[n][id] EXCEPT !.state = state] \in Copy
    BY <1>3 DEF Copy, JobState, TERMINAL_STATES
  <2> QED
    BY <1>2, <1>6, <2>1, <2>2 DEF CopyDies, OwnEnds, TypeOK
<1> QED
  BY <1>1, <1>4, <1>5, <1>6 DEF Worker

\* Bringing the results of a job home.
LEMMA SettleTypes ==
  ASSUME TypeOK, RemoteInv, NEW j \in Job, ReapLook(j) \/ Settle(j)
  PROVE  TypeOK'
<1>1. CASE ReapLook(j)
  BY <1>1 DEF ReapLook, nodeVars, TypeOK, Calls
<1>2. Settling("drop", j) \in Calls /\ Settling("finish", j) \in Calls /\ Idle \in Calls
  BY DEF Calls
<1>3. CASE CollectUnsent(j)
  <2>1. hist' \in [Job -> SUBSET Mishap]
    BY <1>3, HistType DEF CollectUnsent, Mishap
  <2> QED
    BY <1>2, <1>3, <2>1 DEF CollectUnsent, nodeVars, TypeOK
<1>4. ASSUME NEW S \in SUBSET Place, out' = [out EXCEPT ![row[j].node][j] = S]
      PROVE  out' \in [Node -> [Job -> SUBSET Place]]
  BY <1>4 DEF TypeOK
<1>5. j \in Job /\ row[j].node \in Node => out[row[j].node][j] \subseteq Place
  BY DEF TypeOK
<1>6. CASE CollectRuns(j)
  <2>1. hist' \in [Job -> SUBSET Mishap]
    BY <1>6, HistType DEF CollectRuns, Mishap, TypeOK
  <2>2. home' \subseteq Job
    BY <1>6 DEF CollectRuns, TypeOK
  <2>3. row[j].node \in Node
    BY <1>6 DEF CollectRuns, SettledIsOver, RemoteInv, Settling, Remote, TypeOK, Row
  <2> DEFINE places == out[row[j].node][j] \ {"stage"}
  <2>4. places \in SUBSET Place /\ places \cup {"stage"} \in SUBSET Place
    BY <1>5, <2>3 DEF Place
  <2>5. out' \in [Node -> [Job -> SUBSET Place]]
    BY <1>4, <1>6, <2>4 DEF CollectRuns
  <2> QED
    BY <1>2, <1>6, <2>1, <2>2, <2>5 DEF CollectRuns, TypeOK
<1>7. CASE DropTree(j)
  <2>1. row[j].node \in Node
    BY <1>7 DEF DropTree, RemoveTree, SettledIsOver, RemoteInv, Settling, Remote, TypeOK, Row
  <2>2. tree' \in [Node -> SUBSET Job]
    <3>1. tree' = tree \/ tree' = [tree EXCEPT ![row[j].node] = @ \ {j}]
      BY <1>7 DEF DropTree, RemoveTree
    <3>2. tree \in [Node -> SUBSET Job] /\ tree[row[j].node] \ {j} \in SUBSET Job
      BY <2>1 DEF TypeOK
    <3> QED
      BY <3>1, <3>2
  <2>3. out[row[j].node][j] \ {"tree"} \in SUBSET Place
    BY <1>5, <2>1
  <2>4. out' \in [Node -> [Job -> SUBSET Place]]
    BY <1>4, <1>7, <2>3 DEF DropTree, RemoveTree, TypeOK
  <2> QED
    BY <1>2, <1>7, <2>2, <2>4 DEF DropTree, RemoveTree, TypeOK
<1>8. CASE FinishRemote(j)
  <2> DEFINE r == [row[j] EXCEPT !.state = "FINISHED", !.code = Verdict(Entry(j))]
  <2>1. Remote(j)
    BY <1>8 DEF FinishRemote, SettledIsOver, RemoteInv, Settling
  <2>2. Entry(j) \in Copy
    BY <2>1 DEF RemoteInv, PlacedIsNamed, Names, Remote, Entry, TypeOK, Row
  <2>3. Verdict(Entry(j)) \in ExitCodes
    BY <2>2 DEF Verdict, Copy, ExitCodes
  <2>4. r \in Row
    <3>1. row[j] \in Row
      BY DEF TypeOK
    <3> QED
      BY <2>3, <3>1 DEF Row, BackendState
  <2>5. row' \in [Job -> Row]
    BY <1>8, <2>4, RowType DEF FinishRemote
  <2> QED
    BY <1>2, <1>8, <2>5 DEF FinishRemote, nodeVars, TypeOK
<1> QED
  BY <1>1, <1>3, <1>6, <1>7, <1>8 DEF Settle

\* Cancellation, what happens on this machine, and a restart.
LEMMA LocalTypes ==
  ASSUME TypeOK, NEW j \in Job,
         Cancel(j) \/ Abandon(j) \/ StartHere(j) \/ EndsHere(j) \/ ReapHere(j)
  PROVE  TypeOK'
<1>1. row[j] \in Row
  BY DEF TypeOK
<1>2. /\ [row[j] EXCEPT !.cancel = TRUE] \in Row
      /\ \A state \in BackendState : [row[j] EXCEPT !.state = state] \in Row
      /\ \A code \in ExitCodes : [row[j] EXCEPT !.state = "FINISHED", !.code = code] \in Row
  BY <1>1 DEF Row, BackendState
<1>3. CASE Cancel(j)
  <2>1. row' \in [Job -> Row]
    BY <1>2, <1>3, RowType DEF Cancel, BackendState
  <2> QED
    BY <1>3, <2>1 DEF Cancel, nodeVars, TypeOK
<1>4. CASE Abandon(j)
  <2>1. row' \in [Job -> Row]
    BY <1>2, <1>4, RowType DEF Abandon, ExitCodes
  <2> QED
    BY <1>4, <2>1 DEF Abandon, nodeVars, TypeOK, Mishap
<1>5. CASE StartHere(j)
  <2>1. row' \in [Job -> Row]
    BY <1>2, <1>5, RowType DEF StartHere, BackendState
  <2> QED
    BY <1>5, <2>1 DEF StartHere, nodeVars, TypeOK
<1>6. CASE EndsHere(j)
  BY <1>6 DEF EndsHere, nodeVars, TypeOK
<1>7. CASE ReapHere(j)
  <2>1. row' \in [Job -> Row]
    BY <1>2, <1>7, RowType DEF ReapHere
  <2> QED
    BY <1>7, <2>1 DEF ReapHere, nodeVars, TypeOK
<1> QED
  BY <1>3, <1>4, <1>5, <1>6, <1>7

\* A node that is asked to cancel, with or without an answer.
LEMMA AskTypes ==
  ASSUME TypeOK, NEW j \in Job, AskAnswered(j) \/ AskFails(j)
  PROVE  TypeOK'
<1>1. row[j].node \in Node /\ row[j].id \in Nat
  BY BoundAssumption DEF AskAnswered, AskFails, MustAsk, Remote, TypeOK, Row
<1>2. copy' \in [Node -> Seq(Copy)] /\ \A m \in Node : Len(copy'[m]) <= MaxCopies
  BY <1>1, CancelAtType DEF AskAnswered, AskFails
<1> QED
  BY <1>2 DEF AskAnswered, AskFails, TypeOK

\* A restart, and a change of the registry.
LEMMA RestartTypes ==
  ASSUME TypeOK, Restart \/ \E n \in Node : RefreshNodes(n)
  PROVE  TypeOK'
<1>1. CASE Restart
  <2>1. call.op \in {"submit", "claim"} => call.job \in Job
    BY DEF TypeOK, Calls, Idle, Submitting, Submitted, Settling
  <2>2. hist' \in [Job -> SUBSET Mishap]
    BY <1>1, <2>1, HistType DEF Restart, Mishap
  <2>3. restarts' \in 0..MaxRestarts
    BY <1>1, BoundAssumption DEF Restart, TypeOK
  <2> QED
    BY <1>1, <2>2, <2>3 DEF Restart, nodeVars, TypeOK, Calls
<1>2. CASE \E n \in Node : RefreshNodes(n)
  BY <1>2 DEF RefreshNodes, nodeVars, TypeOK
<1> QED
  BY <1>1, <1>2

\* Every step keeps the types; FinishRemote needs to know that the record it
\* reads the verdict from is there.
LEMMA TypeStep ==
  ASSUME TypeOK, RemoteInv, [Next]_vars
  PROVE  TypeOK'
<1>1. CASE UNCHANGED vars
  BY <1>1 DEF vars, nodeVars, TypeOK
<1>2. ASSUME NEW j \in Job, Dispatcher(j)
      PROVE  TypeOK'
  BY <1>2, PlaceTypes, SettleTypes, LocalTypes, AskTypes DEF Dispatcher
<1>3. CASE Next
  BY <1>2, <1>3, LocalTypes, SpecTypes, WorkerTypes, AnswerTypes, RestartTypes DEF Next
<1> QED
  BY <1>1, <1>3

----------------------------------------------------------------------------
(* What a step may do to the table of a node, to a row and to history.      *)

\* A record of a table keeps its job, stays told to stop, and does not change
\* any more once the job has ended.
Evolves(c, d) == /\ d.job = c.job
                 /\ c.stop => d.stop
                 /\ ~Live(c) => d = c
                 /\ d.job # Own /\ d.state = "SUCCEEDED" => d = c \/ d.code # NoCode

\* A step of the worker or a cancellation changes one record, and only so.
Touches(n, id, c) ==
  /\ n \in Node /\ id \in DOMAIN copy[n] /\ Evolves(copy[n][id], c)
  /\ copy' = [copy EXCEPT ![n][id] = c]

\* A cancellation only tells a job to stop, or ends one that is queued.
LEMMA CancelAtTouches ==
  ASSUME TypeOK, NEW n \in Node, NEW id \in DOMAIN copy[n], CancelAt(n, id)
  PROVE  Touches(n, id, Cancelled(copy[n][id]))
<1>1. copy[n][id] \in Copy
  BY DEF TypeOK
<1> DEFINE d == Cancelled(copy[n][id])
<1>2. /\ d.job = copy[n][id].job
      /\ ~Live(copy[n][id]) => d = copy[n][id]
      /\ ~Live(d) \/ d.stop
      /\ d.state = "SUCCEEDED" => d = copy[n][id]
  BY <1>1, CancelledType
<1>3. copy[n][id].stop => d.stop
  <2>1. CASE copy[n][id].state = "QUEUED"
    BY <1>1, <2>1 DEF Cancelled, Copy
  <2>2. CASE copy[n][id].state = "RUNNING"
    BY <1>1, <2>2 DEF Cancelled, Copy
  <2>3. CASE copy[n][id].state \notin {"QUEUED", "RUNNING"}
    BY <2>3 DEF Cancelled
  <2> QED
    BY <2>1, <2>2, <2>3
<1> HIDE DEF d
<1>4. copy' = [copy EXCEPT ![n][id] = d]
  BY DEF CancelAt, d
<1>5. Touches(n, id, d)
  BY <1>2, <1>3, <1>4 DEF Touches, Evolves
<1> QED
  BY <1>5 DEF d

\* The worker of the node moves one job on.
LEMMA WorkerTouches ==
  ASSUME TypeOK, NEW n \in Node, NEW id \in DOMAIN copy[n],
         CopyStarts(n, id) \/ CopyEnds(n, id) \/ CopyDies(n, id) \/ OwnEnds(n, id)
  PROVE  \E c : Touches(n, id, c)
<1>1. copy[n][id] \in Copy
  BY DEF TypeOK
<1>2. CASE CopyStarts(n, id)
  <2> DEFINE c == [copy[n][id] EXCEPT !.state = "RUNNING"]
  <2>1. Evolves(copy[n][id], c)
    BY <1>1, <1>2 DEF CopyStarts, Evolves, Copy, Live, ACTIVE_STATES
  <2> QED
    BY <1>2, <2>1 DEF CopyStarts, Touches
<1>3. CASE CopyEnds(n, id)
  <2> DEFINE c(state, code) == [copy[n][id] EXCEPT !.state = state, !.code = code]
  <2>1. PICK code \in ExitCodes :
          \E state \in Outcomes(copy[n][id], code) : copy' = [copy EXCEPT ![n][id] = c(state, code)]
    BY <1>3 DEF CopyEnds
  <2>2. PICK state \in Outcomes(copy[n][id], code) : copy' = [copy EXCEPT ![n][id] = c(state, code)]
    BY <2>1
  <2>3. Evolves(copy[n][id], c(state, code))
    BY <1>1, <1>3 DEF CopyEnds, Evolves, Copy, Live, ACTIVE_STATES, ExitCodes, NoCode
  <2> QED
    BY <2>2, <2>3 DEF Touches
<1>4. CASE CopyDies(n, id)
  <2> DEFINE c == [copy[n][id] EXCEPT !.state = "LOST"]
  <2>1. Evolves(copy[n][id], c)
    BY <1>1, <1>4 DEF CopyDies, Evolves, Copy, Live, ACTIVE_STATES
  <2> QED
    BY <1>4, <2>1 DEF CopyDies, Touches
<1>5. CASE OwnEnds(n, id)
  <2> DEFINE c == [copy[n][id] EXCEPT !.state = "SUCCEEDED"]
  <2>1. Evolves(copy[n][id], c)
    BY <1>1, <1>5 DEF OwnEnds, Evolves, Copy, Live, ACTIVE_STATES
  <2> QED
    BY <1>5, <2>1 DEF OwnEnds, Touches
<1> QED
  BY <1>2, <1>3, <1>4, <1>5

\* The table of a node changes in one of three ways: one record evolves, a job
\* of its own is appended, or the job of a spec that is being inserted.
LEMMA TableStep ==
  ASSUME TypeOK, RemoteInv, [Next]_vars
  PROVE  \/ UNCHANGED copy
         \/ \E n \in Node : \E id \in DOMAIN copy[n] : \E c : Touches(n, id, c)
         \/ \E n \in Node : OwnSubmits(n)
         \/ \E s \in Submission : SpecInserts(s)
<1>1. CASE UNCHANGED vars
  BY <1>1 DEF vars, nodeVars
<1>2. ASSUME NEW j \in Job, Dispatcher(j) \/ Cancel(j) \/ EndsHere(j)
      PROVE  UNCHANGED copy \/ \E n \in Node : \E id \in DOMAIN copy[n] : \E c : Touches(n, id, c)
  <2>1. CASE AskAnswered(j) \/ AskFails(j)
    <3>1. row[j].node \in Node /\ row[j].id \in DOMAIN copy[row[j].node]
      BY <2>1 DEF AskAnswered, AskFails, MustAsk, Remote, TypeOK, Row, RemoteInv,
         PlacedIsNamed, Names
    <3> QED
      BY <2>1, <3>1, CancelAtTouches DEF AskAnswered, AskFails
  <2>2. CASE ~(AskAnswered(j) \/ AskFails(j))
    BY <1>2, <2>2 DEF Dispatcher, ShipFails, SendSpec, ReapLook, Settle, CollectUnsent,
       CollectRuns, DropTree, RemoveTree, FinishRemote, Abandon, StartHere, ReapHere, Cancel,
       EndsHere, nodeVars
  <2> QED
    BY <2>1, <2>2
<1>3. ASSUME NEW s \in Submission, SpecChecks(s) \/ SpecRefuses(s) \/ SpecAnswers(s)
      PROVE  UNCHANGED copy
  BY <1>3 DEF SpecChecks, SpecRefuses, SpecAnswers
<1>4. ASSUME NEW n \in Node, Worker(n) \/ RefreshNodes(n)
      PROVE  UNCHANGED copy \/ OwnSubmits(n) \/ \E id \in DOMAIN copy[n] : \E c : Touches(n, id, c)
  BY <1>4, WorkerTouches DEF Worker, RefreshNodes, nodeVars
<1>5. CASE Answer \/ Restart
  <2>1. CASE Withdraw /\ CancelAt(call.node, call.id)
    <3>1. call.node \in Node /\ call.id \in DOMAIN copy[call.node]
      BY <2>1 DEF Withdraw, TypeOK, Calls, Idle, Submitting, Submitted, Settling,
           RemoteInv, AnswerIsNamed, Names
    <3> QED
      BY <2>1, <3>1, CancelAtTouches
  <2>2. CASE ~(Withdraw /\ CancelAt(call.node, call.id))
    BY <1>5, <2>2 DEF Answer, SubmitFails, ClaimRemote, Withdraw, Restart, nodeVars
  <2> QED
    BY <2>1, <2>2
<1> QED
  BY <1>1, <1>2, <1>3, <1>4, <1>5 DEF Next

\* A job is appended behind the records that are there.
LEMMA AcceptsAppends ==
  ASSUME TypeOK, NEW n \in Node, NEW job, Accepts(n, job)
  PROVE  /\ Len(copy[n]) + 1 \in DOMAIN copy'[n]
         /\ copy'[n][Len(copy[n]) + 1] =
              [job |-> job, state |-> "QUEUED", code |-> NoCode, stop |-> FALSE]
         /\ \A m \in Node : \A id \in DOMAIN copy[m] :
              id \in DOMAIN copy'[m] /\ copy'[m][id] = copy[m][id]
         /\ \A m \in Node : \A id \in DOMAIN copy'[m] :
              id \in DOMAIN copy[m] \/ (m = n /\ id = Len(copy[n]) + 1)
<1> DEFINE c == [job |-> job, state |-> "QUEUED", code |-> NoCode, stop |-> FALSE]
<1>1. \A m \in Node : copy[m] \in Seq(Copy) /\ Len(copy[m]) \in Nat /\ DOMAIN copy[m] = 1..Len(copy[m])
  BY DEF TypeOK
<1>2. copy \in [Node -> Seq(Copy)] /\ copy' = [copy EXCEPT ![n] = Append(copy[n], c)]
  BY DEF Accepts, TypeOK
<1> DEFINE t == Append(copy[n], c)
<1> HIDE DEF c
<1>3. /\ DOMAIN t = 1..Len(copy[n]) + 1 /\ t[Len(copy[n]) + 1] = c
      /\ \A id \in 1..Len(copy[n]) : t[id] = copy[n][id]
  BY <1>1
<1>4. copy'[n] = t /\ \A m \in Node : m # n => copy'[m] = copy[m]
  BY <1>2
<1> HIDE DEF t
<1>5. ASSUME NEW id \in DOMAIN copy[n]
      PROVE  id \in DOMAIN copy'[n] /\ copy'[n][id] = copy[n][id]
  BY <1>1, <1>3, <1>4
<1>6. ASSUME NEW id \in DOMAIN copy'[n]
      PROVE  id \in DOMAIN copy[n] \/ id = Len(copy[n]) + 1
  BY <1>1, <1>3, <1>4
<1>7. Len(copy[n]) + 1 \in DOMAIN copy'[n] /\ copy'[n][Len(copy[n]) + 1] = c
  BY <1>1, <1>3, <1>4
<1>8. ASSUME NEW m \in Node, NEW id \in DOMAIN copy[m]
      PROVE  id \in DOMAIN copy'[m] /\ copy'[m][id] = copy[m][id]
  BY <1>4, <1>5
<1>9. ASSUME NEW m \in Node, NEW id \in DOMAIN copy'[m]
      PROVE  id \in DOMAIN copy[m] \/ (m = n /\ id = Len(copy[n]) + 1)
  BY <1>4, <1>6
<1> QED
  BY <1>7, <1>8, <1>9 DEF c

\* So no record is lost, and each evolves.
LEMMA RecordStep ==
  ASSUME TypeOK, RemoteInv, [Next]_vars, NEW n \in Node, NEW id \in DOMAIN copy[n]
  PROVE  id \in DOMAIN copy'[n] /\ Evolves(copy[n][id], copy'[n][id])
<1>1. CASE UNCHANGED copy
  BY <1>1 DEF Evolves
<1>2. ASSUME NEW m \in Node, NEW k \in DOMAIN copy[m], NEW c, Touches(m, k, c)
      PROVE  id \in DOMAIN copy'[n] /\ Evolves(copy[n][id], copy'[n][id])
  BY <1>2 DEF Touches, TypeOK, Evolves
<1>3. ASSUME NEW m \in Node, NEW job, Accepts(m, job)
      PROVE  id \in DOMAIN copy'[n] /\ Evolves(copy[n][id], copy'[n][id])
  BY <1>3, AcceptsAppends DEF Evolves
<1>4. ASSUME NEW s \in Submission, SpecInserts(s)
      PROVE  spec[s].node \in Node /\ Accepts(spec[s].node, spec[s].job)
  BY <1>4 DEF SpecInserts, TypeOK, SpecFile, NoSpec
<1> QED
  BY <1>1, <1>2, <1>3, <1>4, TableStep DEF OwnSubmits

\* The record id of node n is the one that spec s is answered with.
Answers(s, n, id) ==
  /\ SpecInserts(s) /\ spec[s].node = n
  /\ copy'[n][id].job = spec[s].job /\ id = Len(copy[n]) + 1
\* A record that is new belongs to the node, or answers a spec.
LEMMA NewRecordStep ==
  ASSUME TypeOK, RemoteInv, [Next]_vars,
         NEW n \in Node, NEW id \in DOMAIN copy'[n], id \notin DOMAIN copy[n]
  PROVE  /\ copy'[n][id].state = "QUEUED" /\ copy'[n][id].code = NoCode
         /\ copy'[n][id].job = Own \/ \E s \in Submission : Answers(s, n, id)
<1>1. CASE UNCHANGED copy
  BY <1>1
<1>2. ASSUME NEW m \in Node, NEW k \in DOMAIN copy[m], NEW c, Touches(m, k, c)
      PROVE  FALSE
  BY <1>2 DEF Touches, TypeOK
<1>3. ASSUME NEW m \in Node, OwnSubmits(m)
      PROVE  copy'[n][id].state = "QUEUED" /\ copy'[n][id].code = NoCode /\ copy'[n][id].job = Own
  <2>1. Accepts(m, Own)
    BY <1>3 DEF OwnSubmits
  <2>2. m = n /\ id = Len(copy[n]) + 1
    BY <2>1, AcceptsAppends
  <2>3. copy'[n][id] = [job |-> Own, state |-> "QUEUED", code |-> NoCode, stop |-> FALSE]
    BY <2>1, <2>2, AcceptsAppends
  <2> QED
    BY <2>3
<1>4. ASSUME NEW s \in Submission, SpecInserts(s)
      PROVE  copy'[n][id].state = "QUEUED" /\ copy'[n][id].code = NoCode /\ Answers(s, n, id)
  <2>1. spec[s].node \in Node /\ Accepts(spec[s].node, spec[s].job)
    BY <1>4 DEF SpecInserts, TypeOK, SpecFile, NoSpec
  <2>2. spec[s].node = n /\ id = Len(copy[n]) + 1
    BY <2>1, AcceptsAppends
  <2>3. copy'[n][id] = [job |-> spec[s].job, state |-> "QUEUED", code |-> NoCode, stop |-> FALSE]
    BY <2>1, <2>2, AcceptsAppends
  <2> QED
    BY <1>4, <2>2, <2>3 DEF Answers
<1> QED
  BY <1>1, <1>2, <1>3, <1>4, TableStep

\* What is recorded as history stays recorded.
LEMMA HistStep ==
  ASSUME TypeOK, [Next]_vars, NEW j \in Job
  PROVE  hist[j] \subseteq hist'[j]
<1>1. CASE UNCHANGED vars
  BY <1>1 DEF vars
<1>2. ASSUME NEW js, NEW what, Happened(js, what)
      PROVE  hist[j] \subseteq hist'[j]
  BY <1>2 DEF Happened
<1>3. ASSUME NEW i \in Job, Dispatcher(i) \/ Cancel(i) \/ EndsHere(i)
      PROVE  hist[j] \subseteq hist'[j]
  <2>1. CASE Abandon(i)
    BY <2>1 DEF Abandon, TypeOK
  <2>2. CASE (\E n \in Node : SendSpec(i, n)) \/ CollectUnsent(i) \/ CollectRuns(i)
    BY <1>2, <2>2 DEF SendSpec, CollectUnsent, CollectRuns
  <2>3. CASE UNCHANGED hist
    BY <2>3
  <2> QED
    BY <1>3, <2>1, <2>2, <2>3 DEF Dispatcher, ShipFails, ReapLook, Settle, DropTree,
       RemoveTree, FinishRemote, AskAnswered, AskFails, StartHere, ReapHere, Cancel, EndsHere
<1>4. ASSUME NEW s \in Submission,
             SpecChecks(s) \/ SpecInserts(s) \/ SpecRefuses(s) \/ SpecAnswers(s)
      PROVE  hist[j] \subseteq hist'[j]
  BY <1>2, <1>4 DEF SpecChecks, SpecInserts, SpecRefuses, SpecAnswers
<1>5. ASSUME NEW n \in Node, Worker(n) \/ RefreshNodes(n)
      PROVE  UNCHANGED hist
  BY <1>5 DEF Worker, OwnSubmits, CopyStarts, CopyEnds, CopyDies, OwnEnds, RefreshNodes
<1>6. CASE Answer \/ Restart
  BY <1>2, <1>6 DEF Answer, SubmitFails, ClaimRemote, Withdraw, Restart
<1> QED
  BY <1>1, <1>3, <1>4, <1>5, <1>6 DEF Next

\* What a step may do to a row: it keeps its place, and then the state is one
\* that its place allows; or it is claimed for the answer that has arrived.
LEMMA RowStep ==
  ASSUME TypeOK, RemoteInv, [Next]_vars, NEW j \in Job
  PROVE  \/ /\ row'[j].node = row[j].node /\ row'[j].id = row[j].id
            /\ row[j].node # Local => row'[j].state \in {"RUNNING", "FINISHED"}
         \/ /\ call.op = "claim" /\ call.job = j /\ row[j].state = "QUEUED"
            /\ row'[j].node = call.node /\ row'[j].id = call.id /\ row'[j].state = "RUNNING"
<1>1. row[j] \in Row /\ (row[j].node # Local => row[j].state \in {"RUNNING", "FINISHED"})
  BY DEF TypeOK, RemoteInv, PlacedIsNamed
<1>2. CASE UNCHANGED row
  BY <1>1, <1>2
<1>3. ASSUME NEW i \in Job,
             Cancel(i) \/ Abandon(i) \/ StartHere(i) \/ ReapHere(i) \/ FinishRemote(i)
      PROVE  /\ row'[j].node = row[j].node /\ row'[j].id = row[j].id
             /\ row[j].node # Local => row'[j].state \in {"RUNNING", "FINISHED"}
  <2>1. CASE Cancel(i)
    <3>1. \/ row[i].state = "QUEUED" /\ row' = [row EXCEPT ![i].state = "REMOVED"]
          \/ row' = [row EXCEPT ![i].cancel = TRUE]
      BY <2>1 DEF Cancel
    <3>2. row[i].state = "QUEUED" => row[i].node = Local
      BY DEF RemoteInv, PlacedIsNamed
    <3>3. row \in [Job -> Row] /\ row[i] \in Row
      BY DEF TypeOK
    <3>4. CASE row[i].state = "QUEUED" /\ row' = [row EXCEPT ![i].state = "REMOVED"]
      BY <1>1, <3>2, <3>3, <3>4 DEF Row
    <3>5. CASE row' = [row EXCEPT ![i].cancel = TRUE]
      BY <1>1, <3>3, <3>5 DEF Row
    <3> QED
      BY <3>1, <3>4, <3>5
  <2>2. CASE Abandon(i)
    BY <1>1, <2>2 DEF Abandon, TypeOK, Row
  <2>3. CASE StartHere(i)
    BY <1>1, <2>3 DEF StartHere, TypeOK, Row
  <2>4. CASE ReapHere(i)
    BY <1>1, <2>4 DEF ReapHere, TypeOK, Row
  <2>5. CASE FinishRemote(i)
    BY <1>1, <2>5 DEF FinishRemote, TypeOK, Row
  <2> QED
    BY <1>3, <2>1, <2>2, <2>3, <2>4, <2>5
<1>4. CASE ClaimRemote
  BY <1>1, <1>4 DEF ClaimRemote, TypeOK, Row
<1>5. ASSUME NEW i \in Job, Dispatcher(i) \/ EndsHere(i)
      PROVE  UNCHANGED row \/ Abandon(i) \/ StartHere(i) \/ ReapHere(i) \/ FinishRemote(i)
  BY <1>5 DEF Dispatcher, ShipFails, SendSpec, ReapLook, Settle, CollectUnsent, CollectRuns,
       DropTree, RemoveTree, AskAnswered, AskFails, EndsHere
<1>6. ASSUME NEW s \in Submission,
             SpecChecks(s) \/ SpecInserts(s) \/ SpecRefuses(s) \/ SpecAnswers(s)
      PROVE  UNCHANGED row
  BY <1>6 DEF SpecChecks, SpecInserts, SpecRefuses, SpecAnswers
<1>7. ASSUME NEW n \in Node, Worker(n) \/ RefreshNodes(n)
      PROVE  UNCHANGED row
  BY <1>7 DEF Worker, OwnSubmits, CopyStarts, CopyEnds, CopyDies, OwnEnds, RefreshNodes
<1>8. CASE Answer \/ Restart
  BY <1>4, <1>8, <1>2 DEF Answer, SubmitFails, Withdraw, Restart
<1> QED
  BY <1>2, <1>3, <1>5, <1>6, <1>7, <1>8 DEF Next, vars

\* What a step may do to a process of _submit-spec, and to the call.
LEMMA SpecStep ==
  ASSUME TypeOK, [Next]_vars, NEW s \in Submission
  PROVE  \/ spec'[s] = spec[s]
         \/ spec'[s] = NoSpec /\ (SpecRefuses(s) \/ SpecAnswers(s))
         \/ SpecChecks(s) \/ SpecInserts(s)
         \/ \E j \in Job, n \in Node :
              /\ call = Idle /\ call' = Submitting(j, s)
              /\ spec'[s] = [job |-> j, node |-> n, step |-> "check", id |-> 0]
<1>1. CASE UNCHANGED spec
  BY <1>1
<1>2. ASSUME NEW j \in Job, NEW n \in Node, SendSpec(j, n)
      PROVE  \/ spec'[s] = spec[s]
             \/ /\ call = Idle /\ call' = Submitting(j, s)
                /\ spec'[s] = [job |-> j, node |-> n, step |-> "check", id |-> 0]
  BY <1>2 DEF SendSpec, MayPlace, TypeOK
<1>3. ASSUME NEW r \in Submission,
             SpecChecks(r) \/ SpecInserts(r) \/ SpecRefuses(r) \/ SpecAnswers(r)
      PROVE  \/ spec'[s] = spec[s] \/ SpecChecks(s) \/ SpecInserts(s)
             \/ spec'[s] = NoSpec /\ (SpecRefuses(s) \/ SpecAnswers(s))
  <2>1. CASE r = s
    BY <1>3, <2>1 DEF SpecRefuses, SpecAnswers, Moves, TypeOK
  <2>2. CASE r # s
    BY <1>3, <2>2 DEF SpecChecks, SpecInserts, SpecRefuses, SpecAnswers, Moves, TypeOK
  <2> QED
    BY <2>1, <2>2
<1>4. ASSUME NEW j \in Job, Dispatcher(j) \/ Cancel(j) \/ EndsHere(j)
      PROVE  UNCHANGED spec \/ \E n \in Node : SendSpec(j, n)
  BY <1>4 DEF Dispatcher, ShipFails, ReapLook, Settle, CollectUnsent, CollectRuns, DropTree,
     RemoveTree, FinishRemote, Abandon, AskAnswered, AskFails, StartHere, ReapHere, Cancel,
     EndsHere, nodeVars
<1>5. ASSUME NEW n \in Node, Worker(n) \/ RefreshNodes(n)
      PROVE  UNCHANGED spec
  BY <1>5 DEF Worker, OwnSubmits, CopyStarts, CopyEnds, CopyDies, OwnEnds, RefreshNodes,
     nodeVars
<1>6. CASE Answer \/ Restart
  BY <1>1, <1>6 DEF Answer, SubmitFails, ClaimRemote, Withdraw, Restart, nodeVars
<1> QED
  BY <1>1, <1>2, <1>3, <1>4, <1>5, <1>6 DEF Next, vars, nodeVars

\* The call is begun by the pass or the poll, and ended by its answer or a restart.
LEMMA CallStep ==
  ASSUME TypeOK, [Next]_vars
  PROVE  \/ call' = call
         \/ \E j \in Job, s \in Submission : call = Idle /\ call' = Submitting(j, s)
         \/ \E j \in Job : ReapLook(j) \/ Settle(j)
         \/ Answer \/ Restart
         \/ \E s \in Submission : Waited(s) /\ (SpecRefuses(s) \/ SpecAnswers(s))
<1>1. ASSUME NEW j \in Job, Dispatcher(j) \/ Cancel(j) \/ EndsHere(j)
      PROVE  \/ call' = call
             \/ \E s \in Submission : call = Idle /\ call' = Submitting(j, s)
             \/ ReapLook(j) \/ Settle(j)
  BY <1>1 DEF Dispatcher, ShipFails, SendSpec, MayPlace, Abandon, AskAnswered, AskFails,
       StartHere, ReapHere, Cancel, EndsHere
<1>2. ASSUME NEW s \in Submission,
             SpecChecks(s) \/ SpecInserts(s) \/ SpecRefuses(s) \/ SpecAnswers(s)
      PROVE  call' = call \/ (Waited(s) /\ (SpecRefuses(s) \/ SpecAnswers(s)))
  BY <1>2 DEF SpecChecks, SpecInserts, SpecRefuses, SpecAnswers
<1>3. ASSUME NEW n \in Node, Worker(n) \/ RefreshNodes(n)
      PROVE  call' = call
  BY <1>3 DEF Worker, OwnSubmits, CopyStarts, CopyEnds, CopyDies, OwnEnds, RefreshNodes
<1> QED
  BY <1>1, <1>2, <1>3 DEF Next, vars

----------------------------------------------------------------------------
(* The invariant, part by part.                                             *)

\* A job id goes on standing for its job.
LEMMA NamesStep ==
  ASSUME TypeOK, RemoteInv, [Next]_vars, NEW j, NEW n \in Node, NEW id, Names(j, n, id)
  PROVE  Names(j, n, id)'
  BY RecordStep DEF Names, Evolves

\* A placed row keeps naming its job; a claim names the one that was answered.
LEMMA PlacedStep ==
  ASSUME TypeOK, RemoteInv, [Next]_vars
  PROVE  PlacedIsNamed'
<1> SUFFICES ASSUME NEW j \in Job, row'[j].node # Local
             PROVE  /\ row'[j].state \in {"RUNNING", "FINISHED"}
                    /\ \E n, id : n = row'[j].node /\ id = row'[j].id /\ Names(j, n, id)'
  BY DEF PlacedIsNamed, Names
<1>1. CASE /\ row'[j].node = row[j].node /\ row'[j].id = row[j].id
           /\ row[j].node # Local => row'[j].state \in {"RUNNING", "FINISHED"}
  <2>1. row[j].node \in Node /\ Names(j, row[j].node, row[j].id)
    BY <1>1 DEF TypeOK, Row, RemoteInv, PlacedIsNamed
  <2> QED
    BY <1>1, <2>1, NamesStep
<1>2. CASE /\ call.op = "claim" /\ call.job = j
           /\ row'[j].node = call.node /\ row'[j].id = call.id /\ row'[j].state = "RUNNING"
  <2>1. call.node \in Node /\ Names(j, call.node, call.id)
    BY <1>2 DEF TypeOK, Calls, Idle, Submitting, Submitted, Settling, RemoteInv, AnswerIsNamed
  <2> QED
    BY <1>2, <2>1, NamesStep
<1> QED
  BY <1>1, <1>2, RowStep

\* Where an answer may come from.
LEMMA AnswerStep ==
  ASSUME TypeOK, RemoteInv, [Next]_vars
  PROVE  AnswerIsNamed'
<1>1. ASSUME NEW s \in Submission, spec[s].step # "none"
      PROVE  spec[s] \in SpecFile /\ spec[s].job \in Job /\ spec[s].node \in Node
  BY <1>1 DEF TypeOK, SpecFile, NoSpec
<1>2. ASSUME NEW s \in Submission, spec'[s].step = "reply"
      PROVE  \E j, n, id : /\ j = spec'[s].job /\ n = spec'[s].node /\ id = spec'[s].id
                           /\ Names(j, n, id)'
  <2>1. CASE spec'[s] = spec[s]
    <3>1. spec[s].node \in Node /\ Names(spec[s].job, spec[s].node, spec[s].id)
      BY <1>1, <1>2, <2>1 DEF RemoteInv, AnswerIsNamed
    <3> QED
      BY <2>1, <3>1, NamesStep
  <2>2. CASE SpecChecks(s)
    <3>1. spec[s] \in SpecFile /\ spec[s].node \in Node
      BY <1>1, <2>2 DEF SpecChecks
    <3>2. PICK id \in Earlier(spec[s].job, spec[s].node) :
            spec'[s] = [spec[s] EXCEPT !.step = "reply", !.id = id]
      <4>1. \A q : Moves(s, q) => spec'[s] = q
        BY DEF Moves, TypeOK
      <4>2. [spec[s] EXCEPT !.step = "insert"].step = "insert"
        BY <3>1 DEF SpecFile
      <4> QED
        BY <1>2, <2>2, <4>1, <4>2 DEF SpecChecks
    <3>3. Names(spec[s].job, spec[s].node, id)
      BY <3>2 DEF Earlier, Names
    <3>4. /\ spec'[s].job = spec[s].job /\ spec'[s].node = spec[s].node
          /\ spec'[s].id = id
      BY <3>1, <3>2 DEF SpecFile
    <3> QED
      BY <3>1, <3>3, <3>4, NamesStep
  <2>3. CASE SpecInserts(s)
    <3>1. spec[s] \in SpecFile /\ spec[s].node \in Node /\ Accepts(spec[s].node, spec[s].job)
      BY <1>1, <2>3 DEF SpecInserts
    <3>2. PICK j, n, id : j = spec[s].job /\ n = spec[s].node /\ id = Len(copy[n]) + 1
      OBVIOUS
    <3>3. spec'[s] = [spec[s] EXCEPT !.step = "reply", !.id = id]
      BY <2>3, <3>2 DEF SpecInserts, Moves, TypeOK
    <3>4. spec'[s].job = j /\ spec'[s].node = n /\ spec'[s].id = id
      BY <3>1, <3>2, <3>3 DEF SpecFile
    <3>5. id \in DOMAIN copy'[n] /\ copy'[n][id].job = j
      <4>1. n \in Node /\ Accepts(n, j)
        BY <3>1, <3>2
      <4>2. /\ Len(copy[n]) + 1 \in DOMAIN copy'[n]
            /\ copy'[n][Len(copy[n]) + 1] =
                 [job |-> j, state |-> "QUEUED", code |-> NoCode, stop |-> FALSE]
        BY <4>1, AcceptsAppends
      <4> QED
        BY <3>2, <4>2
    <3> QED
      BY <3>4, <3>5 DEF Names
  <2>4. CASE spec'[s] = NoSpec
    BY <1>2, <2>4 DEF NoSpec
  <2>5. ASSUME NEW j, NEW n,
               spec'[s] = [job |-> j, node |-> n, step |-> "check", id |-> 0]
        PROVE  FALSE
    BY <1>2, <2>5
  <2> QED
    BY <2>1, <2>2, <2>3, <2>4, <2>5, SpecStep
<1>3. ASSUME call'.op = "claim"
      PROVE  \E j, n, id : j = call'.job /\ n = call'.node /\ id = call'.id /\ Names(j, n, id)'
  <2>1. CASE call' = call
    <3>1. call.node \in Node /\ Names(call.job, call.node, call.id)
      BY <1>3, <2>1 DEF TypeOK, Calls, Idle, Submitting, Submitted, Settling, RemoteInv,
         AnswerIsNamed
    <3> QED
      BY <2>1, <3>1, NamesStep
  <2>2. ASSUME NEW s \in Submission, SpecAnswers(s), Waited(s)
        PROVE  \E j, n, id : j = call'.job /\ n = call'.node /\ id = call'.id /\ Names(j, n, id)'
    <3>1. /\ spec[s].node \in Node /\ Names(spec[s].job, spec[s].node, spec[s].id)
          /\ call' = Submitted(spec[s].job, spec[s].node, spec[s].id)
      BY <1>1, <2>2 DEF SpecAnswers, RemoteInv, AnswerIsNamed
    <3> QED
      BY <3>1, NamesStep DEF Submitted
  <2>3. CASE \E j \in Job : ReapLook(j) \/ Settle(j)
    BY <1>3, <2>3 DEF ReapLook, Settle, CollectUnsent, CollectRuns, DropTree, RemoveTree,
       FinishRemote, Settling, Idle
  <2>4. CASE Answer \/ Restart
    BY <1>3, <2>4 DEF Answer, SubmitFails, ClaimRemote, Withdraw, Restart, Idle
  <2>5. ASSUME NEW s \in Submission, SpecRefuses(s), Waited(s)
        PROVE  FALSE
    BY <1>3, <2>5 DEF SpecRefuses, Idle
  <2> QED
    BY <1>3, <2>1, <2>2, <2>3, <2>4, <2>5, CallStep DEF Submitting
<1> QED
  BY <1>2, <1>3 DEF AnswerIsNamed, Names

\* A row that was placed ends in two ways only.
LEMMA EndStep ==
  ASSUME TypeOK, RemoteInv, [Next]_vars, NEW j \in Job, row[j].node # Local
  PROVE  \/ row'[j].state = row[j].state /\ row'[j].code = row[j].code
         \/ FinishRemote(j) \/ Abandon(j)
<1>1. row \in [Job -> Row] /\ row[j] \in Row /\ row[j].state \in {"RUNNING", "FINISHED"}
  BY DEF TypeOK, RemoteInv, PlacedIsNamed
<1>2. CASE UNCHANGED row
  BY <1>2
<1>3. ASSUME NEW i \in Job, Cancel(i) \/ Dispatcher(i) \/ EndsHere(i)
      PROVE  \/ row'[j].state = row[j].state /\ row'[j].code = row[j].code
             \/ FinishRemote(j) \/ Abandon(j)
  <2>1. CASE i # j
    <3>1. \/ UNCHANGED row
          \/ \E r : row' = [row EXCEPT ![i] = r]
      BY <1>3 DEF Cancel, Dispatcher, ShipFails, SendSpec, ReapLook, Settle, CollectUnsent,
         CollectRuns, DropTree, RemoveTree, FinishRemote, Abandon, AskAnswered, AskFails,
         StartHere, ReapHere, EndsHere
    <3> QED
      BY <1>1, <2>1, <3>1
  <2>2. CASE i = j
    <3>1. CASE Cancel(j)
      BY <1>1, <3>1 DEF Cancel, Row
    <3>2. ~StartHere(j) /\ ~ReapHere(j)
      BY <1>1 DEF StartHere, ReapHere
    <3> QED
      BY <1>2, <1>3, <2>2, <3>1, <3>2 DEF Dispatcher, ShipFails, SendSpec, ReapLook, Settle,
         CollectUnsent, CollectRuns, DropTree, RemoveTree, AskAnswered, AskFails, EndsHere
  <2> QED
    BY <2>1, <2>2
<1>4. ASSUME NEW s \in Submission,
             SpecChecks(s) \/ SpecInserts(s) \/ SpecRefuses(s) \/ SpecAnswers(s)
      PROVE  UNCHANGED row
  BY <1>4 DEF SpecChecks, SpecInserts, SpecRefuses, SpecAnswers
<1>5. ASSUME NEW n \in Node, Worker(n) \/ RefreshNodes(n)
      PROVE  UNCHANGED row
  BY <1>5 DEF Worker, OwnSubmits, CopyStarts, CopyEnds, CopyDies, OwnEnds, RefreshNodes
<1>6. CASE Answer \/ Restart
  BY <1>1, <1>2, <1>6 DEF Answer, SubmitFails, ClaimRemote, Withdraw, Restart
<1> QED
  BY <1>2, <1>3, <1>4, <1>5, <1>6 DEF Next, vars

\* What has ended on its node stays as it is.
LEMMA OverStep ==
  ASSUME TypeOK, RemoteInv, [Next]_vars, NEW j \in Job, row[j].node # Local, ~Live(Entry(j))
  PROVE  /\ row'[j].node = row[j].node /\ row'[j].id = row[j].id
         /\ Entry(j)' = Entry(j)
<1>1. /\ row[j].node \in Node /\ row[j].id \in DOMAIN copy[row[j].node]
      /\ row[j].state \in {"RUNNING", "FINISHED"}
  BY DEF TypeOK, Row, RemoteInv, PlacedIsNamed, Names
<1>2. copy'[row[j].node][row[j].id] = copy[row[j].node][row[j].id]
  BY <1>1, RecordStep DEF Evolves, Entry
<1>3. row'[j].node = row[j].node /\ row'[j].id = row[j].id
  BY <1>1, RowStep
<1> QED
  BY <1>2, <1>3 DEF Entry

\* Nothing that ended comes back to life while its results are brought home.
LEMMA SettledStep ==
  ASSUME TypeOK, RemoteInv, [Next]_vars
  PROVE  SettledIsOver'
<1> SUFFICES ASSUME call'.op \in {"collect", "drop", "finish"}
             PROVE  \E j \in Job : call'.job = j /\ Remote(j)' /\ ~Live(Entry(j))'
  BY DEF SettledIsOver, Remote, Entry, Live
<1>1. ASSUME NEW j \in Job, Remote(j), ~Live(Entry(j)), ~FinishRemote(j), ~Abandon(j)
      PROVE  Remote(j)' /\ ~Live(Entry(j))'
  <2>1. row'[j].node = row[j].node /\ Entry(j)' = Entry(j)
    BY <1>1, OverStep DEF Remote
  <2>2. row'[j].state = row[j].state
    BY <1>1, EndStep DEF Remote
  <2> QED
    BY <1>1, <2>1, <2>2 DEF Remote, Live
<1>2. CASE call' = call
  <2>1. call.job \in Job /\ Remote(call.job) /\ ~Live(Entry(call.job))
    BY <1>2 DEF RemoteInv, SettledIsOver, TypeOK, Calls, Idle, Submitting, Submitted, Settling
  <2>2. ~FinishRemote(call.job) /\ ~Abandon(call.job)
    BY <1>2 DEF FinishRemote, Abandon, Idle
  <2> QED
    BY <1>1, <1>2, <2>1, <2>2
<1>3. ASSUME NEW j \in Job, ReapLook(j) \/ Settle(j)
      PROVE  call'.job = j /\ Remote(j)' /\ ~Live(Entry(j))'
  <2>1. Remote(j) /\ ~Live(Entry(j))
    BY <1>3 DEF ReapLook, Settle, CollectUnsent, CollectRuns, DropTree, RemoveTree,
       FinishRemote, Settling, RemoteInv, SettledIsOver
  <2>2. ~FinishRemote(j) /\ ~Abandon(j) /\ call'.job = j
    BY <1>3 DEF ReapLook, Settle, CollectUnsent, CollectRuns, DropTree, RemoveTree,
       FinishRemote, Abandon, Settling, Idle
  <2> QED
    BY <1>1, <2>1, <2>2
<1>4. CASE Answer \/ Restart
  BY <1>4 DEF Answer, SubmitFails, ClaimRemote, Withdraw, Restart, Idle
<1>5. ASSUME NEW s \in Submission, SpecRefuses(s) \/ SpecAnswers(s), Waited(s)
      PROVE  FALSE
  BY <1>5 DEF SpecRefuses, SpecAnswers, Idle, Submitted
<1> QED
  BY <1>2, <1>3, <1>4, <1>5, CallStep DEF Submitting

\* No job of ours is recorded as SUCCEEDED without a code.
LEMMA SuccessStep ==
  ASSUME TypeOK, RemoteInv, [Next]_vars
  PROVE  SuccessHasCode'
<1> SUFFICES ASSUME NEW n \in Node, NEW id \in DOMAIN copy'[n],
                    copy'[n][id].job # Own, copy'[n][id].state = "SUCCEEDED"
             PROVE  copy'[n][id].code # NoCode
  BY DEF SuccessHasCode
<1>1. CASE id \in DOMAIN copy[n]
  BY <1>1, RecordStep DEF Evolves, RemoteInv, SuccessHasCode
<1>2. CASE id \notin DOMAIN copy[n]
  BY <1>2, NewRecordStep
<1> QED
  BY <1>1, <1>2

\* A verdict is written from the record of the job itself, and both then stay.
LEMMA EndedStep ==
  ASSUME TypeOK, RemoteInv, [Next]_vars
  PROVE  EndedOnItsNode'
<1> SUFFICES ASSUME NEW j \in Job, row'[j].state = "FINISHED", row'[j].node # Local,
                    "abandoned" \notin hist'[j]
             PROVE  /\ (row[j].id \in DOMAIN copy[row[j].node])'
                    /\ Entry(j)'.job = j /\ ~Live(Entry(j))'
                    /\ row'[j].code = "zero" => Entry(j)'.code = "zero"
  BY DEF EndedOnItsNode, Entry, Live
<1>1. (row[j].id \in DOMAIN copy[row[j].node])' /\ Entry(j)'.job = j
  BY PlacedStep DEF PlacedIsNamed, Names, Entry
<1>2. row[j].node # Local /\ "abandoned" \notin hist[j] /\ ~Abandon(j)
  <2>1. ~Abandon(j)
    BY DEF Abandon, TypeOK
  <2> QED
    BY <2>1, RowStep, HistStep
<1>3. /\ row[j].id \in DOMAIN copy[row[j].node] /\ row[j].node \in Node
      /\ Entry(j).job = j
  BY <1>2 DEF RemoteInv, PlacedIsNamed, Names, Entry, TypeOK, Row
<1>4. CASE row'[j].state = row[j].state /\ row'[j].code = row[j].code
  <2>1. ~Live(Entry(j)) /\ (row[j].code = "zero" => Entry(j).code = "zero")
    BY <1>2, <1>4 DEF RemoteInv, EndedOnItsNode
  <2>2. Entry(j)' = Entry(j)
    BY <1>2, <2>1, OverStep
  <2> QED
    BY <1>1, <1>4, <2>1, <2>2 DEF Live
<1>5. CASE FinishRemote(j)
  <2>1. ~Live(Entry(j))
    BY <1>5 DEF FinishRemote, Settling, RemoteInv, SettledIsOver
  <2>2. Entry(j)' = Entry(j)
    BY <1>2, <2>1, OverStep
  <2>3. row'[j].code = Verdict(Entry(j))
    BY <1>5 DEF FinishRemote, TypeOK, Row
  <2>4. Entry(j).state = "SUCCEEDED" => Entry(j).code # NoCode
    BY <1>3, LocalAssumption DEF RemoteInv, SuccessHasCode, Entry
  <2>5. Verdict(Entry(j)) = "zero" => Entry(j).code = "zero"
    BY <2>4 DEF Verdict
  <2> QED
    BY <1>1, <2>1, <2>2, <2>3, <2>5 DEF Live
<1> QED
  BY <1>2, <1>4, <1>5, EndStep

\* Whoever stops waiting for a submission leaves a cut in the history of its job.
LEMMA AwaitedStep ==
  ASSUME TypeOK, RemoteInv, [Next]_vars
  PROVE  AwaitedOrCut'
<1> SUFFICES ASSUME NEW s \in Submission, spec'[s] # NoSpec
             PROVE  "cut" \in hist'[spec'[s].job] \/ call' = Submitting(spec'[s].job, s)
  BY DEF AwaitedOrCut, Submitting
<1>1. ASSUME spec[s] # NoSpec, spec'[s].job = spec[s].job
      PROVE  "cut" \in hist'[spec'[s].job] \/ call' = Submitting(spec'[s].job, s)
  <2>1. spec[s].job \in Job
    BY <1>1 DEF TypeOK, SpecFile
  <2>2. CASE "cut" \in hist[spec[s].job]
    BY <1>1, <2>1, <2>2, HistStep
  <2>3. CASE call = Submitting(spec[s].job, s)
    <3>1. call.op = "submit" /\ call.job = spec[s].job /\ call.slot = s
      BY <2>3 DEF Submitting
    <3>2. CASE call' = call
      BY <1>1, <2>3, <3>2
    <3>3. CASE SubmitFails \/ Restart
      BY <1>1, <2>1, <3>1, <3>3 DEF SubmitFails, Restart, Happened
    <3>4. ASSUME NEW r \in Submission, Waited(r), SpecRefuses(r) \/ SpecAnswers(r)
          PROVE  FALSE
      BY <3>1, <3>4 DEF Waited, SpecRefuses, SpecAnswers, Moves, TypeOK
    <3>5. ASSUME NEW j \in Job, ReapLook(j) \/ Settle(j)
          PROVE  FALSE
      BY <3>1, <3>5 DEF ReapLook, Settle, CollectUnsent, CollectRuns, DropTree, RemoveTree,
         FinishRemote, Settling, Idle
    <3>6. call # Idle /\ ~ClaimRemote /\ ~Withdraw
      BY <3>1 DEF Idle, ClaimRemote, Withdraw
    <3> QED
      BY <3>2, <3>3, <3>4, <3>5, <3>6, CallStep DEF Answer
  <2> QED
    BY <1>1, <2>2, <2>3 DEF RemoteInv, AwaitedOrCut
<1>2. CASE spec'[s] = spec[s]
  BY <1>1, <1>2
<1>3. CASE SpecChecks(s) \/ SpecInserts(s)
  <2>1. spec[s] \in SpecFile /\ spec[s] # NoSpec
    <3>1. spec[s].step \in {"check", "insert"} /\ spec[s] \in SpecFile \cup {NoSpec}
      BY <1>3 DEF SpecChecks, SpecInserts, TypeOK
    <3>2. NoSpec.step = "none"
      BY DEF NoSpec
    <3> QED
      BY <3>1, <3>2
  <2>2. \A q : Moves(s, q) => spec'[s] = q
    BY DEF Moves, TypeOK
  <2>3. \A id : /\ [spec[s] EXCEPT !.step = "reply", !.id = id].job = spec[s].job
                /\ [spec[s] EXCEPT !.step = "insert"].job = spec[s].job
    BY <2>1 DEF SpecFile
  <2>4. CASE SpecChecks(s)
    BY <1>1, <2>1, <2>2, <2>3, <2>4 DEF SpecChecks
  <2>5. CASE SpecInserts(s)
    BY <1>1, <2>1, <2>2, <2>3, <2>5 DEF SpecInserts
  <2> QED
    BY <1>3, <2>4, <2>5
<1>4. ASSUME NEW j \in Job, NEW n \in Node, call' = Submitting(j, s),
             spec'[s] = [job |-> j, node |-> n, step |-> "check", id |-> 0]
      PROVE  call' = Submitting(spec'[s].job, s)
  BY <1>4
<1> QED
  BY <1>2, <1>3, <1>4, SpecStep

\* An excuse holds for good.
LEMMA ExcusedStep ==
  ASSUME TypeOK, RemoteInv, [Next]_vars, NEW n \in Node, NEW id \in DOMAIN copy[n], Excused(n, id)
  PROVE  Excused(n, id)'
<1>1. id \in DOMAIN copy'[n] /\ Evolves(copy[n][id], copy'[n][id])
  BY RecordStep
<1>2. copy[n][id].job \in Job \cup {Own}
  <2>1. copy[n][id] \in Copy
    BY DEF TypeOK
  <2> QED
    BY <2>1 DEF Copy
<1>3. CASE copy[n][id].job # Own /\ "cut" \in hist[copy[n][id].job]
  <2>1. copy[n][id].job \in Job /\ copy'[n][id].job = copy[n][id].job
    BY <1>1, <1>2, <1>3 DEF Evolves
  <2>2. "cut" \in hist'[copy[n][id].job]
    BY <1>3, <2>1, HistStep
  <2> QED
    BY <2>1, <2>2 DEF Excused
<1> QED
  BY <1>1, <1>3 DEF Excused, Evolves, Live

\* Followed by a row: it keeps its place until the job has ended.
LEMMA RowFollows ==
  ASSUME TypeOK, RemoteInv, [Next]_vars, NEW n \in Node, NEW id \in DOMAIN copy[n],
         NEW j \in Job, copy[n][id].job = j,
         Remote(j), row[j].node = n, row[j].id = id
  PROVE  Excused(n, id)' \/ Followed(j, n, id)'
<1>1. row'[j].node = n /\ row'[j].id = id
  BY RowStep DEF Remote
<1>2. CASE row'[j].state = row[j].state
  BY <1>1, <1>2 DEF Followed, Remote
<1>3. CASE FinishRemote(j)
  <2>1. ~Live(copy[n][id])
    BY <1>3 DEF FinishRemote, Settling, RemoteInv, SettledIsOver, Entry
  <2> QED
    BY <2>1, ExcusedStep DEF Excused
<1>4. CASE Abandon(j)
  <2>1. "cut" \in hist'[j] /\ copy' = copy
    BY <1>4 DEF Abandon, TypeOK, nodeVars
  <2> QED
    BY <2>1 DEF Excused
<1> QED
  BY <1>2, <1>3, <1>4, EndStep DEF Remote

\* Followed by an answer that has arrived: it is claimed, or withdrawn.
LEMMA ClaimFollows ==
  ASSUME TypeOK, RemoteInv, [Next]_vars, NEW n \in Node, NEW id \in DOMAIN copy[n],
         NEW j \in Job, copy[n][id].job = j, call = Submitted(j, n, id)
  PROVE  Excused(n, id)' \/ Followed(j, n, id)'
<1>1. call.op = "claim" /\ call.job = j /\ call.node = n /\ call.id = id
  BY DEF Submitted
<1>2. CASE call' = call
  BY <1>2 DEF Followed, Submitted
<1>3. CASE ClaimRemote
  <2>1. row'[j].state = "RUNNING" /\ row'[j].node = n /\ row'[j].id = id
    BY <1>1, <1>3 DEF ClaimRemote, TypeOK, Row
  <2> QED
    BY <2>1, LocalAssumption DEF Followed, Remote
<1>4. CASE Withdraw \/ Restart
  <2>1. CASE Happened({j}, "cut") /\ copy' = copy
    BY <2>1 DEF Happened, Excused
  <2>2. CASE CancelAt(n, id)
    <3>1. copy[n][id] \in Copy /\ copy'[n][id] = Cancelled(copy[n][id])
      BY <2>2 DEF CancelAt, TypeOK
    <3>2. ~Live(Cancelled(copy[n][id])) \/ Cancelled(copy[n][id]).stop
      BY <3>1, CancelledType
    <3> QED
      BY <3>1, <3>2 DEF Excused, Live
  <2> QED
    BY <1>1, <1>4, <2>1, <2>2 DEF Withdraw, Restart, nodeVars
<1>5. ASSUME NEW i \in Job, ReapLook(i) \/ Settle(i)
      PROVE  FALSE
  BY <1>1, <1>5 DEF ReapLook, Settle, CollectUnsent, CollectRuns, DropTree, RemoveTree,
     FinishRemote, Settling, Idle
<1>6. call # Idle /\ ~SubmitFails /\ \A s \in Submission : ~Waited(s)
  BY <1>1 DEF Idle, SubmitFails, Waited
<1> QED
  BY <1>2, <1>3, <1>4, <1>5, <1>6, CallStep DEF Answer

\* Followed by an answer on its way: it arrives, or the caller has given up.
LEMMA AnswerFollows ==
  ASSUME TypeOK, RemoteInv, [Next]_vars, NEW n \in Node, NEW id \in DOMAIN copy[n],
         NEW j \in Job, copy[n][id].job = j,
         call.op = "submit", spec[call.slot] = AnswerOf(j, n, id)
  PROVE  Excused(n, id)' \/ Followed(j, n, id)'
<1>1. PICK s \in Submission : call.slot = s
  BY DEF TypeOK, Calls, Idle, Submitting, Submitted, Settling
<1>2. /\ spec[s].step = "reply" /\ spec[s].job = j /\ spec[s].node = n /\ spec[s].id = id
      /\ spec[s] # NoSpec
  BY <1>1 DEF AnswerOf, NoSpec
<1>3. CASE "cut" \in hist[j]
  BY <1>3, ExcusedStep DEF Excused
<1>4. CASE call = Submitting(j, s)
  <2>1. call.job = j
    BY <1>4 DEF Submitting
  <2>2. CASE SubmitFails \/ Restart
    <3>1. "cut" \in hist'[j] /\ copy' = copy
      BY <2>1, <2>2 DEF SubmitFails, Restart, Happened, nodeVars
    <3> QED
      BY <3>1 DEF Excused
  <2>3. CASE SpecAnswers(s)
    BY <1>1, <1>2, <2>3 DEF SpecAnswers, Waited, Followed
  <2>4. CASE call' = call /\ spec'[s] = spec[s]
    BY <1>1, <2>4 DEF Followed, AnswerOf
  <2>5. ~SpecRefuses(s) /\ ~SpecChecks(s) /\ ~SpecInserts(s)
    BY <1>2 DEF SpecRefuses, SpecChecks, SpecInserts
  <2>6. call' = call \/ SubmitFails \/ Restart \/ SpecAnswers(s)
    <3>1. ASSUME NEW i \in Job, ReapLook(i) \/ Settle(i)
          PROVE  FALSE
      BY <3>1 DEF ReapLook, Settle, CollectUnsent, CollectRuns, DropTree, RemoveTree,
         FinishRemote, Settling, Idle
    <3>2. call # Idle /\ ~ClaimRemote /\ ~Withdraw
      BY DEF Idle, ClaimRemote, Withdraw
    <3>3. \A r \in Submission : Waited(r) => r = s
      BY <1>1 DEF Waited
    <3> QED
      BY <2>5, <3>1, <3>2, <3>3, CallStep DEF Answer
  <2>7. spec'[s] = spec[s] \/ SpecAnswers(s)
    <3>1. call # Idle
      BY <1>4 DEF Idle, Submitting
    <3> QED
      BY <2>5, <3>1, SpecStep
  <2> QED
    BY <2>2, <2>3, <2>4, <2>6, <2>7
<1> QED
  BY <1>2, <1>3, <1>4 DEF RemoteInv, AwaitedOrCut

\* Every copy, old or just accepted, is followed or excused.
LEMMA FollowedStep ==
  ASSUME TypeOK, RemoteInv, [Next]_vars
  PROVE  LiveIsFollowed'
<1> SUFFICES ASSUME NEW n \in Node, NEW id \in DOMAIN copy'[n], ~Excused(n, id)'
             PROVE  Followed(copy[n][id].job, n, id)'
  BY DEF LiveIsFollowed
<1>0. ASSUME NEW j, copy'[n][id].job = j, Followed(j, n, id)'
      PROVE  Followed(copy[n][id].job, n, id)'
  BY <1>0 DEF Followed, Remote, AnswerOf, Submitted
<1>1. CASE id \in DOMAIN copy[n]
  <2>1. copy'[n][id].job = copy[n][id].job /\ copy[n][id].job \in Job \cup {Own}
    <3>1. copy[n][id] \in Copy
      BY <1>1 DEF TypeOK
    <3> QED
      BY <1>1, <3>1, RecordStep DEF Evolves, Copy
  <2>2. CASE Excused(n, id)
    BY <1>1, <2>2, ExcusedStep
  <2>3. CASE ~Excused(n, id)
    <3>1. PICK j \in Job : copy[n][id].job = j
      BY <2>1, <2>3 DEF Excused
    <3>2. Followed(j, n, id)
      BY <1>1, <2>3, <3>1 DEF RemoteInv, LiveIsFollowed, Excused
    <3>3. Excused(n, id)' \/ Followed(j, n, id)'
      BY <1>1, <3>1, <3>2, RowFollows, ClaimFollows, AnswerFollows DEF Followed
    <3> QED
      BY <1>0, <2>1, <3>1, <3>3
  <2> QED
    BY <2>2, <2>3
<1>2. CASE id \notin DOMAIN copy[n]
  <2>1. CASE copy'[n][id].job = Own
    BY <2>1 DEF Excused
  <2>2. ASSUME NEW s \in Submission, Answers(s, n, id)
        PROVE  Followed(copy[n][id].job, n, id)'
    <3>1. spec[s] \in SpecFile /\ spec[s] # NoSpec /\ spec[s].job \in Job
      <4>1. spec[s].step = "insert" /\ spec[s] \in SpecFile \cup {NoSpec} /\ NoSpec.step = "none"
        BY <2>2 DEF Answers, SpecInserts, TypeOK, NoSpec
      <4> QED
        BY <4>1 DEF SpecFile
    <3>2. spec'[s] = [spec[s] EXCEPT !.step = "reply", !.id = id] /\ call' = call
      BY <2>2 DEF Answers, SpecInserts, Moves, TypeOK
    <3>3. spec'[s] = AnswerOf(spec[s].job, n, id)
      BY <2>2, <3>1, <3>2 DEF AnswerOf, SpecFile, Answers
    <3>4. copy'[n][id].job = spec[s].job
      BY <2>2 DEF Answers
    <3>5. CASE "cut" \in hist[spec[s].job]
      BY <3>1, <3>4, <3>5, HistStep DEF Excused
    <3>6. CASE call = Submitting(spec[s].job, s)
      <4>1. PICK j : j = spec[s].job
        OBVIOUS
      <4>2. call'.op = "submit" /\ call'.slot = s
        BY <3>2, <3>6 DEF Submitting
      <4>3. Followed(j, n, id)'
        BY <3>3, <4>1, <4>2 DEF Followed, AnswerOf
      <4> QED
        BY <1>0, <3>4, <4>1, <4>3
    <3> QED
      BY <3>1, <3>5, <3>6 DEF RemoteInv, AwaitedOrCut
  <2> QED
    BY <1>2, <2>1, <2>2, NewRecordStep
<1> QED
  BY <1>1, <1>2

----------------------------------------------------------------------------
(* One copy at a time.                                                      *)

\* The live copies of a job only get fewer, but for the insert of a spec of it.
LEMMA LiveCopiesStep ==
  ASSUME TypeOK, RemoteInv, [Next]_vars, NEW j \in Job, NEW n \in Node
  PROVE  \/ LiveCopies(j, n)' \subseteq LiveCopies(j, n)
         \/ \E s \in Submission :
              /\ SpecInserts(s) /\ spec[s].job = j /\ spec[s].node = n
              /\ LiveCopies(j, n)' \subseteq LiveCopies(j, n) \cup {Len(copy[n]) + 1}
<1>1. ASSUME NEW id \in LiveCopies(j, n)', id \in DOMAIN copy[n]
      PROVE  id \in LiveCopies(j, n)
  <2>1. id \in DOMAIN copy'[n] /\ copy'[n][id].job = j /\ Live(copy'[n][id])
    BY <1>1 DEF LiveCopies, Live
  <2>2. copy[n][id].job = j /\ Live(copy[n][id])
    BY <1>1, <2>1, RecordStep DEF Evolves
  <2> QED BY <1>1, <2>2 DEF LiveCopies
<1>2. ASSUME NEW id \in LiveCopies(j, n)', id \notin DOMAIN copy[n]
      PROVE  \E s \in Submission : /\ SpecInserts(s) /\ spec[s].job = j /\ spec[s].node = n
                                   /\ id = Len(copy[n]) + 1
  <2>1. id \in DOMAIN copy'[n] /\ copy'[n][id].job = j
    BY <1>2 DEF LiveCopies
  <2>2. \E s \in Submission : Answers(s, n, id)
    BY <1>2, <2>1, NewRecordStep, LocalAssumption
  <2> QED BY <2>1, <2>2 DEF Answers
<1>3. CASE \A id \in LiveCopies(j, n)' : id \in DOMAIN copy[n]
  BY <1>1, <1>3
<1>4. CASE \E id \in LiveCopies(j, n)' : id \notin DOMAIN copy[n]
  <2>1. PICK s \in Submission : SpecInserts(s) /\ spec[s].job = j /\ spec[s].node = n
    BY <1>2, <1>4
  <2>2. LiveCopies(j, n)' \subseteq LiveCopies(j, n) \cup {Len(copy[n]) + 1}
    BY <1>1, <1>2
  <2> QED BY <2>1, <2>2
<1> QED BY <1>3, <1>4

\* A process goes on working for the same job on the same node.
LEMMA SpecKeeps ==
  ASSUME TypeOK, NEW s \in Submission, spec[s] \in SpecFile, SpecChecks(s) \/ SpecInserts(s)
  PROVE  /\ spec'[s] \in SpecFile
         /\ spec'[s].job = spec[s].job /\ spec'[s].node = spec[s].node
<1>1. \A id : /\ [spec[s] EXCEPT !.step = "reply", !.id = id].job = spec[s].job
              /\ [spec[s] EXCEPT !.step = "reply", !.id = id].node = spec[s].node
              /\ [spec[s] EXCEPT !.step = "insert"].job = spec[s].job
              /\ [spec[s] EXCEPT !.step = "insert"].node = spec[s].node
  BY DEF SpecFile
<1>2. \A q : Moves(s, q) => spec'[s] = q
  BY DEF Moves, TypeOK
<1>3. [spec[s] EXCEPT !.step = "insert"] \in SpecFile
  BY DEF SpecFile
<1>4. \A id \in 0..MaxCopies : [spec[s] EXCEPT !.step = "reply", !.id = id] \in SpecFile
  BY DEF SpecFile
<1>5. spec[s].node \in Node
  BY DEF SpecFile
<1>6. CASE SpecChecks(s)
  <2>1. Earlier(spec[s].job, spec[s].node) \subseteq 0..MaxCopies
    BY <1>5, BoundAssumption DEF Earlier, TypeOK
  <2> QED BY <1>1, <1>2, <1>3, <1>4, <1>6, <2>1 DEF SpecChecks
<1>7. CASE SpecInserts(s)
  <2>1. Len(copy[spec[s].node]) + 1 \in 0..MaxCopies
    BY <1>5, <1>7, BoundAssumption DEF SpecInserts, Accepts, TypeOK
  <2> QED BY <1>1, <1>2, <1>4, <1>7, <2>1 DEF SpecInserts
<1> QED BY <1>6, <1>7

\* A call to submit begins with a spec of its own.
LEMMA SendStep ==
  ASSUME TypeOK, [Next]_vars, NEW j \in Job, NEW s \in Submission,
         call = Idle, call' = Submitting(j, s)
  PROVE  \E n \in Node : SendSpec(j, n) /\ spec[s] = NoSpec /\ spec'[s].step = "check"
                        /\ spec'[s].job = j /\ spec'[s].node = n
                        /\ \A t \in Submission \ {s} : spec'[t] = spec[t]
<1>0. call' # call /\ call'.op = "submit"
  BY DEF Idle, Submitting
<1>1. ASSUME NEW i \in Job, Dispatcher(i) \/ Cancel(i) \/ EndsHere(i)
      PROVE  \E n \in Node : SendSpec(i, n)
  <2>1. ~ReapLook(i) /\ ~Settle(i)
    BY <1>0 DEF ReapLook, Settle, CollectUnsent, CollectRuns, DropTree, FinishRemote,
       Settling, Idle
  <2> QED
    BY <1>0, <1>1, <2>1 DEF Dispatcher, ShipFails, Abandon, AskAnswered, AskFails, StartHere,
       ReapHere, Cancel, EndsHere
<1>2. ASSUME NEW t \in Submission,
             SpecChecks(t) \/ SpecInserts(t) \/ SpecRefuses(t) \/ SpecAnswers(t)
      PROVE  FALSE
  <2>1. Idle.op # "submit" /\ \A i, n, id : Submitted(i, n, id).op # "submit"
    BY DEF Idle, Submitted
  <2> QED BY <1>0, <1>2, <2>1 DEF SpecChecks, SpecInserts, SpecRefuses, SpecAnswers
<1>3. ASSUME NEW n \in Node, Worker(n) \/ RefreshNodes(n)
      PROVE  FALSE
  BY <1>0, <1>3 DEF Worker, OwnSubmits, CopyStarts, CopyEnds, CopyDies, OwnEnds, RefreshNodes
<1>4. ~Answer /\ ~Restart /\ ~UNCHANGED vars
  BY <1>0 DEF Answer, SubmitFails, ClaimRemote, Withdraw, Restart, vars
<1>5. PICK i \in Job, n \in Node : SendSpec(i, n)
  BY <1>1, <1>2, <1>3, <1>4 DEF Next
<1>6. PICK r \in Submission :
        /\ spec[r] = NoSpec /\ call' = Submitting(i, r)
        /\ spec' = [spec EXCEPT ![r] = [job |-> i, node |-> n, step |-> "check", id |-> 0]]
  BY <1>5 DEF SendSpec
<1>7. r = s /\ i = j
  BY <1>6 DEF Submitting
<1> QED BY <1>5, <1>6, <1>7 DEF TypeOK

\* A spec that is new found no other at work for its job on that node.
LEMMA NoRivals ==
  ASSUME TypeOK, [Next]_vars, NEW j \in Job, NEW n \in Node, NEW s \in Submission,
         Pending(s, j, n)', ~Pending(s, j, n), "twice" \notin hist'[j]
  PROVE  /\ call = Idle /\ call' = Submitting(j, s) /\ row[j].state = "QUEUED"
         /\ spec'[s].step = "check" /\ copy' = copy /\ row' = row
         /\ \A t \in Submission \ {s} : spec'[t] = spec[t] /\ ~Pending(t, j, n)
<1>1. spec'[s].step \in {"check", "insert"} /\ spec'[s].job = j /\ spec'[s].node = n
  BY DEF Pending
<1>2. call = Idle /\ call' = Submitting(j, s)
  <2>1. spec'[s] # spec[s] /\ spec'[s] # NoSpec
    BY <1>1 DEF Pending, NoSpec
  <2>2. ~SpecInserts(s)
    <3> SUFFICES ASSUME SpecInserts(s) PROVE spec'[s].step = "reply"
      BY <1>1
    <3>1. spec[s] \in SpecFile  BY DEF TypeOK, SpecInserts, NoSpec
    <3>2. spec' = [spec EXCEPT ![s] = [spec[s] EXCEPT !.step = "reply",
                                                    !.id = Len(copy[spec[s].node]) + 1]]
      BY DEF SpecInserts, Moves
    <3> QED  BY <3>1, <3>2 DEF TypeOK, SpecFile
  <2>3. ~SpecChecks(s)
    <3> SUFFICES ASSUME SpecChecks(s) PROVE Pending(s, j, n)
      OBVIOUS
    <3>1. spec[s] \in SpecFile /\ spec[s].step = "check"
      <4>1. NoSpec.step = "none"
        BY DEF NoSpec
      <4> QED BY <4>1 DEF SpecChecks, TypeOK
    <3>2. spec'[s].job = spec[s].job /\ spec'[s].node = spec[s].node
      BY <3>1, SpecKeeps
    <3> QED BY <1>1, <3>1, <3>2 DEF Pending
  <2>4. PICK i \in Job, m \in Node :
          /\ call = Idle /\ call' = Submitting(i, s)
          /\ spec'[s] = [job |-> i, node |-> m, step |-> "check", id |-> 0]
    BY <2>1, <2>2, <2>3, SpecStep
  <2> QED BY <1>1, <2>4
<1>3. SendSpec(j, n) /\ spec[s] = NoSpec /\ spec'[s].step = "check"
      /\ \A t \in Submission \ {s} : spec'[t] = spec[t]
  BY <1>1, <1>2, SendStep
<1>4. \A t \in Submission : ~Pending(t, j, n)
  <2>1. SUFFICES ASSUME NEW t \in Submission, Pending(t, j, n) PROVE "twice" \in hist'[j]
    OBVIOUS
  <2> DEFINE rivals == {r \in Submission : /\ spec[r].step \in {"check", "insert"}
                                           /\ spec[r].job = j /\ spec[r].node = n}
  <2>2. rivals # {}
    BY <2>1 DEF Pending
  <2>3. Happened({j}, "twice")
    BY <1>3, <2>2 DEF SendSpec
  <2> QED BY <2>3 DEF Happened
<1> QED BY <1>2, <1>3, <1>4 DEF SendSpec, MayPlace

\* A call to submit is under way, or begins.
LEMMA CallBegins ==
  ASSUME TypeOK, [Next]_vars, call'.op = "submit", call' # call
  PROVE  \E j \in Job, s \in Submission : call = Idle /\ call' = Submitting(j, s)
<1>1. /\ Idle.op # "submit" /\ \A j, n, id : Submitted(j, n, id).op # "submit"
      /\ \A op, j : op # "submit" => Settling(op, j).op # "submit"
  BY DEF Idle, Submitted, Settling
<1>2. \A j \in Job : ~ReapLook(j) /\ ~Settle(j)
  BY <1>1 DEF ReapLook, Settle, CollectUnsent, CollectRuns, DropTree, FinishRemote
<1>3. ~Answer /\ ~Restart
  BY <1>1 DEF Answer, SubmitFails, ClaimRemote, Withdraw, Restart
<1>4. \A s \in Submission : ~(Waited(s) /\ (SpecRefuses(s) \/ SpecAnswers(s)))
  BY <1>1 DEF SpecRefuses, SpecAnswers
<1> QED BY <1>2, <1>3, <1>4, CallStep

\* What a step does to the spec the dispatcher waits for, while it waits.
LEMMA WaitedStep ==
  ASSUME TypeOK, WaitedIsOurs, [Next]_vars, call.op = "submit", call' = call
  PROVE  /\ call.slot \in Submission /\ spec[call.slot] \in SpecFile
         /\ \/ spec'[call.slot] = spec[call.slot]
            \/ SpecChecks(call.slot) \/ SpecInserts(call.slot)
         /\ spec'[call.slot] # NoSpec
         /\ spec'[call.slot].job = spec[call.slot].job
         /\ spec'[call.slot].node = spec[call.slot].node
<1> DEFINE s == call.slot
<1>1. s \in Submission
  BY DEF TypeOK, Calls, Idle, Submitting, Submitted, Settling
<1>2. spec[s] \in SpecFile
  BY <1>1 DEF TypeOK, WaitedIsOurs
<1>3. ~SpecRefuses(s) /\ ~SpecAnswers(s)
  BY DEF SpecRefuses, SpecAnswers, Waited, Submitted, Idle
<1>4. spec'[s] = spec[s] \/ SpecChecks(s) \/ SpecInserts(s)
  <2>1. call # Idle
    BY DEF Idle
  <2> QED BY <1>1, <1>3, <2>1, SpecStep
<1>5. spec'[s] \in SpecFile /\ spec'[s].job = spec[s].job /\ spec'[s].node = spec[s].node
  BY <1>1, <1>2, <1>4, SpecKeeps
<1>6. NoSpec \notin SpecFile
  BY DEF NoSpec, SpecFile
<1> QED BY <1>1, <1>2, <1>4, <1>5, <1>6

LEMMA WaitedOursStep ==
  ASSUME TypeOK, WaitedIsOurs, [Next]_vars
  PROVE  WaitedIsOurs'
<1> SUFFICES ASSUME call'.op = "submit"
             PROVE  spec'[call'.slot] # NoSpec /\ spec'[call'.slot].job = call'.job
  BY DEF WaitedIsOurs
<1>1. CASE call' = call
  BY <1>1, WaitedStep DEF WaitedIsOurs
<1>2. CASE call' # call
  <2>1. PICK j \in Job, s \in Submission : call = Idle /\ call' = Submitting(j, s)
    BY <1>2, CallBegins
  <2>2. spec'[s].step = "check" /\ spec'[s].job = j /\ call'.slot = s /\ call'.job = j
    BY <2>1, SendStep DEF Submitting
  <2> QED BY <2>2 DEF NoSpec
<1> QED BY <1>1, <1>2

\* A spec that is at work was so before, or has found no rival.
LEMMA PendingStep ==
  ASSUME TypeOK, WaitedIsOurs, [Next]_vars, NEW j \in Job, NEW n \in Node, AloneOn(j, n),
         "twice" \notin hist'[j]
  PROVE  /\ \A s, t \in Submission : Pending(s, j, n)' /\ Pending(t, j, n)' => s = t
         /\ call'.op = "submit" /\ call'.job = j /\ spec'[call'.slot].node = n =>
              \A s \in Submission \ {call'.slot} : ~Pending(s, j, n)'
<1>1. ASSUME NEW s \in Submission, NEW t \in Submission, Pending(s, j, n)', Pending(t, j, n)'
      PROVE  s = t
  <2>1. CASE Pending(s, j, n) /\ Pending(t, j, n)
    BY <2>1 DEF AloneOn
  <2>2. CASE ~Pending(s, j, n)
    BY <1>1, <2>2, NoRivals DEF Pending
  <2>3. CASE ~Pending(t, j, n)
    BY <1>1, <2>3, NoRivals DEF Pending
  <2> QED BY <2>1, <2>2, <2>3
<1>2. ASSUME call'.op = "submit", call'.job = j, spec'[call'.slot].node = n,
             NEW s \in Submission, s # call'.slot, Pending(s, j, n)'
      PROVE  FALSE
  <2>1. Pending(s, j, n)
    <3>1. call' # Submitting(j, s)
      BY <1>2 DEF Submitting
    <3> QED BY <1>2, <3>1, NoRivals
  <2>2. CASE call' = call
    BY <1>2, <2>1, <2>2, WaitedStep DEF AloneOn
  <2>3. CASE call' # call
    <3>1. PICK r \in Submission : call = Idle /\ call' = Submitting(j, r)
      BY <1>2, <2>3, CallBegins DEF Submitting
    <3>2. call'.slot = r /\ spec[r] = NoSpec /\ spec'[r].step = "check" /\ spec'[r].job = j
      BY <3>1, SendStep DEF Submitting
    <3>3. Pending(r, j, n)' /\ ~Pending(r, j, n)
      BY <1>2, <3>2 DEF Pending, NoSpec
    <3> QED BY <1>2, <2>1, <3>2, <3>3, NoRivals
  <2> QED BY <2>2, <2>3
<1> QED BY <1>1, <1>2

\* An insert is under way only where no copy lives.
LEMMA InsertStep ==
  ASSUME TypeOK, RemoteInv, [Next]_vars, NEW j \in Job, NEW n \in Node, AloneOn(j, n),
         "twice" \notin hist'[j],
         NEW s \in Submission, Pending(s, j, n)', spec'[s].step = "insert"
  PROVE  LiveCopies(j, n)' = {}
<1>1. Pending(s, j, n)
  BY NoRivals
<1>2. ~SpecInserts(s) /\ spec'[s] # NoSpec
  <2>1. NoSpec.step = "none"
    BY DEF NoSpec
  <2>2. spec[s] \in SpecFile
    BY <1>1, <2>1 DEF Pending, TypeOK
  <2>3. \A id : [spec[s] EXCEPT !.step = "reply", !.id = id].step = "reply"
    BY <2>2 DEF SpecFile
  <2> QED BY <2>1, <2>3 DEF SpecInserts, Moves, TypeOK
<1>3. CASE spec'[s] = spec[s]
  <2>1. LiveCopies(j, n) = {}
    BY <1>1, <1>3 DEF AloneOn
  <2>2. \A t \in Submission : SpecInserts(t) /\ spec[t].job = j /\ spec[t].node = n => t = s
    BY <1>1 DEF AloneOn, Pending, SpecInserts
  <2> QED BY <1>2, <2>1, <2>2, LiveCopiesStep
<1>4. CASE SpecChecks(s)
  <2>1. copy' = copy /\ spec[s].job = j /\ spec[s].node = n
    BY <1>1, <1>4 DEF SpecChecks, Pending
  <2>2. Happened(IF Earlier(j, n) = {} THEN {} ELSE {j}, "twice")
    <3>1. spec[s] \in SpecFile
      <4>1. NoSpec.step = "none"
        BY DEF NoSpec
      <4> QED BY <1>4, <4>1 DEF SpecChecks, TypeOK
    <3>2. \A id : [spec[s] EXCEPT !.step = "reply", !.id = id].step = "reply"
      BY <3>1 DEF SpecFile
    <3>3. \A q : Moves(s, q) => spec'[s] = q
      BY DEF Moves, TypeOK
    <3> QED BY <1>4, <2>1, <3>2, <3>3 DEF SpecChecks
  <2>3. Earlier(j, n) = {}
    BY <2>2 DEF Happened
  <2> QED BY <2>1, <2>3 DEF Earlier, LiveCopies, Live
<1>5. \A i, m : spec'[s] # [job |-> i, node |-> m, step |-> "check", id |-> 0]
  OBVIOUS
<1> QED BY <1>2, <1>3, <1>4, <1>5, SpecStep

\* A job that is followed at its new id was followed before, or its spec has just
\* found or made the copy.
LEMMA FollowedFrom ==
  ASSUME TypeOK, RemoteInv, WaitedIsOurs, [Next]_vars, NEW j \in Job, NEW n \in Node,
         NEW id \in 1..MaxCopies, Followed(j, n, id)'
  PROVE  \/ Followed(j, n, id)
         \/ /\ call' = call /\ call.op = "submit" /\ call.job = j
            /\ SpecChecks(call.slot) \/ SpecInserts(call.slot)
            /\ spec'[call.slot] = AnswerOf(j, n, id)
<1>1. CASE (Remote(j) /\ row[j].node = n /\ row[j].id = id)'
  <2>1. row'[j].state = "RUNNING" /\ row'[j].node = n /\ row'[j].id = id
    BY <1>1 DEF Remote
  <2>2. CASE row'[j].node = row[j].node /\ row'[j].id = row[j].id
    <3>1. row[j].node # Local
      BY <2>1, <2>2, LocalAssumption
    <3>2. ~FinishRemote(j) /\ ~Abandon(j)
      <4>1. row \in [Job -> Row] /\ row[j] \in Row
        BY DEF TypeOK
      <4>2. \A c : [row[j] EXCEPT !.state = "FINISHED", !.code = c].state = "FINISHED"
        BY <4>1 DEF Row
      <4> QED BY <2>1, <4>1, <4>2 DEF FinishRemote, Abandon
    <3> QED BY <2>1, <2>2, <3>1, <3>2, EndStep DEF Followed, Remote
  <2>3. CASE /\ call.op = "claim" /\ call.job = j
             /\ row'[j].node = call.node /\ row'[j].id = call.id
    <3>1. call = Submitted(j, n, id)
      BY <2>1, <2>3 DEF TypeOK, Calls, Idle, Submitting, Submitted, Settling
    <3> QED BY <3>1 DEF Followed
  <2> QED BY <2>2, <2>3, RowStep
<1>2. CASE call' = Submitted(j, n, id)
  <2>1. CASE call' = call
    BY <1>2, <2>1 DEF Followed
  <2>2. ASSUME NEW s \in Submission, Waited(s), SpecRefuses(s) \/ SpecAnswers(s)
        PROVE  Followed(j, n, id)
    <3>1. spec[s].step = "reply" /\ call' = Submitted(spec[s].job, spec[s].node, spec[s].id)
      BY <1>2, <2>2 DEF SpecRefuses, SpecAnswers, Submitted, Idle
    <3>2. spec[s] \in SpecFile
      BY <3>1 DEF TypeOK, NoSpec
    <3>3. spec[s] = AnswerOf(j, n, id)
      BY <1>2, <3>1, <3>2 DEF Submitted, SpecFile, AnswerOf
    <3> QED BY <2>2, <3>3 DEF Waited, Followed
  <2>3. ASSUME NEW i \in Job, ReapLook(i) \/ Settle(i)
        PROVE  call' = call
    BY <1>2, <2>3 DEF ReapLook, Settle, CollectUnsent, CollectRuns, DropTree, FinishRemote,
                      Settling, Idle, Submitted
  <2>4. ~Answer /\ ~Restart /\ \A i \in Job, s \in Submission : call' # Submitting(i, s)
    BY <1>2 DEF Answer, SubmitFails, ClaimRemote, Withdraw, Restart, Idle, Submitted, Submitting
  <2> QED BY <2>1, <2>2, <2>3, <2>4, CallStep
<1>3. CASE call'.op = "submit" /\ spec'[call'.slot] = AnswerOf(j, n, id)
  <2>1. call' = call
    <3> SUFFICES ASSUME call' # call PROVE FALSE
      OBVIOUS
    <3>1. PICK i \in Job, s \in Submission : call = Idle /\ call' = Submitting(i, s)
      BY <1>3, CallBegins
    <3>2. spec'[s].step = "check" /\ call'.slot = s
      BY <3>1, SendStep DEF Submitting
    <3> QED BY <1>3, <3>2 DEF AnswerOf
  <2>2. spec[call.slot].job = j
    BY <1>3, <2>1, WaitedStep DEF AnswerOf
  <2> QED BY <1>3, <2>1, <2>2, WaitedStep DEF Followed, WaitedIsOurs
<1> QED BY <1>1, <1>2, <1>3 DEF Followed

\* What is followed is named.
LEMMA FollowedIsNamed ==
  ASSUME TypeOK, RemoteInv, NEW j \in Job, NEW n \in Node, NEW id, Followed(j, n, id)
  PROVE  Names(j, n, id)
<1>1. CASE Remote(j) /\ row[j].node = n /\ row[j].id = id
  BY <1>1 DEF RemoteInv, PlacedIsNamed, Remote
<1>2. CASE call = Submitted(j, n, id)
  BY <1>2 DEF RemoteInv, AnswerIsNamed, Submitted
<1>3. CASE call.op = "submit" /\ spec[call.slot] = AnswerOf(j, n, id)
  <2>1. call.slot \in Submission
    BY <1>3 DEF TypeOK, Calls, Idle, Submitting, Submitted, Settling
  <2> QED BY <1>3, <2>1 DEF RemoteInv, AnswerIsNamed, AnswerOf
<1> QED BY <1>1, <1>2, <1>3 DEF Followed

\* What is settled stays so: no spec of a job that is followed is at work.
LEMMA SettledStays ==
  ASSUME TypeOK, RemoteInv, WaitedIsOurs, [Next]_vars, NEW j \in Job, NEW n \in Node,
         AloneOn(j, n), "twice" \notin hist'[j], NEW id \in 1..MaxCopies, Followed(j, n, id)'
  PROVE  Settled(j, n, id)'
<1>1. CASE Followed(j, n, id)
  <2>1. LiveCopies(j, n) \subseteq {id} /\ \A s \in Submission : ~Pending(s, j, n)
    BY <1>1 DEF AloneOn, Settled
  <2>2. LiveCopies(j, n)' \subseteq LiveCopies(j, n)
    <3>1. \A s \in Submission : ~(SpecInserts(s) /\ spec[s].job = j /\ spec[s].node = n)
      BY <2>1 DEF SpecInserts, Pending
    <3> QED BY <3>1, LiveCopiesStep
  <2>3. ASSUME NEW s \in Submission, Pending(s, j, n)' PROVE FALSE
    <3>1. call = Idle /\ row[j].state = "QUEUED"
      BY <2>1, <2>3, NoRivals
    <3> QED BY <1>1, <3>1 DEF Followed, Remote, Idle, Submitted
  <2> QED BY <2>1, <2>2, <2>3 DEF Settled
<1>2. CASE /\ call' = call /\ call.op = "submit" /\ call.job = j
           /\ SpecChecks(call.slot) \/ SpecInserts(call.slot)
           /\ spec'[call.slot] = AnswerOf(j, n, id)
  <2> DEFINE s == call.slot
  <2>1. /\ s \in Submission /\ spec[s] \in SpecFile
        /\ spec[s].job = j /\ spec[s].node = n
    BY <1>2, WaitedStep DEF AnswerOf
  <2>2. \A t \in Submission : ~Pending(t, j, n)'
    <3>1. ~Pending(s, j, n)'
      BY <1>2 DEF Pending, AnswerOf
    <3> QED BY <1>2, <2>1, <3>1, PendingStep DEF AnswerOf
  <2>3. CASE SpecChecks(s)
    <3>1. copy' = copy /\ LiveCopies(j, n)' = LiveCopies(j, n)
      BY <2>3 DEF SpecChecks, LiveCopies, Live
    <3>2. id \in LiveCopies(j, n)
      <4>1. [spec[s] EXCEPT !.step = "insert"].step = "insert"
        BY <2>1 DEF SpecFile
      <4>2. \A k : [spec[s] EXCEPT !.step = "reply", !.id = k].id = k
        BY <2>1 DEF SpecFile
      <4>3. spec'[s].step = "reply" /\ spec'[s].id = id
        BY <1>2 DEF AnswerOf
      <4>4. \A q : Moves(s, q) => spec'[s] = q
        BY <2>1 DEF Moves, TypeOK
      <4>5. ~Moves(s, [spec[s] EXCEPT !.step = "insert"])
        BY <4>1, <4>3, <4>4
      <4>6. PICK k \in Earlier(j, n) : Moves(s, [spec[s] EXCEPT !.step = "reply", !.id = k])
        BY <2>1, <2>3, <4>5 DEF SpecChecks
      <4>7. id \in Earlier(j, n)
        BY <4>2, <4>3, <4>4, <4>6
      <4> QED BY <4>7 DEF Earlier, LiveCopies
    <3> QED BY <2>2, <3>1, <3>2 DEF AloneOn, Settled
  <2>4. CASE SpecInserts(s)
    <3>1. Pending(s, j, n) /\ spec[s].step = "insert"
      BY <2>1, <2>4 DEF SpecInserts, Pending
    <3>2. LiveCopies(j, n) = {}
      BY <2>1, <3>1 DEF AloneOn
    <3>3. id = Len(copy[n]) + 1
      <4>1. \A k : [spec[s] EXCEPT !.step = "reply", !.id = k].id = k
        BY <2>1 DEF SpecFile
      <4>2. \A q : Moves(s, q) => spec'[s] = q
        BY <2>1 DEF Moves, TypeOK
      <4>3. spec'[s] = [spec[s] EXCEPT !.step = "reply", !.id = Len(copy[n]) + 1]
        BY <2>1, <2>4, <4>2 DEF SpecInserts
      <4>4. spec'[s].id = id
        BY <1>2 DEF AnswerOf
      <4> QED BY <4>1, <4>3, <4>4
    <3> QED BY <2>2, <3>2, <3>3, LiveCopiesStep DEF Settled
  <2> QED BY <1>2, <2>3, <2>4
<1> QED BY <1>1, <1>2, FollowedFrom

LEMMA AloneStep ==
  ASSUME TypeOK, RemoteInv, AloneInv, [Next]_vars
  PROVE  AloneInv'
<1>1. WaitedIsOurs /\ WaitedIsOurs'
  BY WaitedOursStep DEF AloneInv
<1>2. ASSUME NEW j \in Job, NEW n \in Node, "twice" \notin hist'[j]
      PROVE  AloneOn(j, n)'
  <2>1. AloneOn(j, n)
    BY <1>2, HistStep DEF AloneInv
  <2>2. \A a, b \in LiveCopies(j, n)' : a = b
    <3>1. CASE LiveCopies(j, n)' \subseteq LiveCopies(j, n)
      BY <2>1, <3>1 DEF AloneOn
    <3>2. ASSUME NEW s \in Submission, SpecInserts(s), spec[s].job = j, spec[s].node = n,
                 LiveCopies(j, n)' \subseteq LiveCopies(j, n) \cup {Len(copy[n]) + 1}
          PROVE  \A a, b \in LiveCopies(j, n)' : a = b
      <4>1. LiveCopies(j, n) = {}
        BY <2>1, <3>2 DEF AloneOn, SpecInserts, Pending
      <4> QED BY <3>2, <4>1
    <3> QED BY <3>1, <3>2, LiveCopiesStep
  <2>3. /\ \A s, t \in Submission : Pending(s, j, n)' /\ Pending(t, j, n)' => s = t
        /\ call'.op = "submit" /\ call'.job = j /\ spec'[call'.slot].node = n =>
              \A s \in Submission \ {call'.slot} : ~Pending(s, j, n)'
    BY <1>1, <1>2, <2>1, PendingStep
  <2>4. \A s \in Submission :
          Pending(s, j, n)' /\ spec'[s].step = "insert" => LiveCopies(j, n)' = {}
    BY <1>2, <2>1, InsertStep
  <2>5. \A id \in 1..MaxCopies : Followed(j, n, id)' => Settled(j, n, id)'
    BY <1>1, <1>2, <2>1, SettledStays
  <2> QED BY <2>2, <2>3, <2>4, <2>5 DEF AloneOn
<1> QED BY <1>1, <1>2 DEF AloneInv

LEMMA AloneInit == Init => AloneInv
<1> SUFFICES ASSUME Init PROVE AloneInv
  OBVIOUS
<1>1. call.op = "idle" /\ \A s \in Submission : spec[s].step = "none"
  BY DEF Init, Idle, NoSpec
<1>2. \A j \in Job, n \in Node : LiveCopies(j, n) = {}
  BY DEF Init, LiveCopies
<1>3. \A j \in Job, n \in Node, id \in 1..MaxCopies : ~Followed(j, n, id)
  BY <1>1 DEF Init, Followed, Remote, Submitted
<1> QED BY <1>1, <1>2, <1>3 DEF AloneInv, WaitedIsOurs, AloneOn, Pending

\* A row that has left the queue does not come back to it.
LEMMA LeavesQueue ==
  ASSUME TypeOK, [Next]_vars, NEW j \in Job, row[j].state # "QUEUED"
  PROVE  row'[j].state # "QUEUED"
<1>1. row \in [Job -> Row] /\ row[j] \in Row
  BY DEF TypeOK
<1>2. CASE UNCHANGED row
  BY <1>2
<1>3. ASSUME NEW i \in Job, Cancel(i) \/ Abandon(i) \/ StartHere(i) \/ ReapHere(i) \/ FinishRemote(i)
      PROVE  row'[j].state # "QUEUED"
  <2>1. CASE Cancel(i)
    BY <1>1, <2>1 DEF Cancel, Row
  <2>2. CASE Abandon(i)
    BY <1>1, <2>2 DEF Abandon, Row
  <2>3. CASE StartHere(i)
    BY <1>1, <2>3 DEF StartHere, Row
  <2>4. CASE ReapHere(i)
    BY <1>1, <2>4 DEF ReapHere, Row
  <2>5. CASE FinishRemote(i)
    BY <1>1, <2>5 DEF FinishRemote, Row
  <2> QED BY <1>3, <2>1, <2>2, <2>3, <2>4, <2>5
<1>4. CASE ClaimRemote
  BY <1>1, <1>4 DEF ClaimRemote, Row
<1>5. ASSUME NEW i \in Job, Dispatcher(i) \/ EndsHere(i)
      PROVE  UNCHANGED row \/ Abandon(i) \/ StartHere(i) \/ ReapHere(i) \/ FinishRemote(i)
  BY <1>5 DEF Dispatcher, ShipFails, SendSpec, ReapLook, Settle, CollectUnsent, CollectRuns,
       DropTree, RemoveTree, AskAnswered, AskFails, EndsHere
<1>6. ASSUME NEW s \in Submission,
             SpecChecks(s) \/ SpecInserts(s) \/ SpecRefuses(s) \/ SpecAnswers(s)
      PROVE  UNCHANGED row
  BY <1>6 DEF SpecChecks, SpecInserts, SpecRefuses, SpecAnswers
<1>7. ASSUME NEW n \in Node, Worker(n) \/ RefreshNodes(n)
      PROVE  UNCHANGED row
  BY <1>7 DEF Worker, OwnSubmits, CopyStarts, CopyEnds, CopyDies, OwnEnds, RefreshNodes
<1>8. CASE Answer \/ Restart
  BY <1>4, <1>8, <1>2 DEF Answer, SubmitFails, Withdraw, Restart
<1> QED
  BY <1>2, <1>3, <1>5, <1>6, <1>7, <1>8 DEF Next, vars

\* Only a copy whose row has left the queue is told to stop, and not while a
\* spec is on its way.
LEMMA StopStep ==
  ASSUME TypeOK, RemoteInv, [Next]_vars, NEW n \in Node, NEW id \in DOMAIN copy[n],
         copy'[n][id].stop, ~copy[n][id].stop
  PROVE  call' = Idle /\ row' = row /\ row[copy[n][id].job].state # "QUEUED"
<1> DEFINE Same == copy'[n][id].stop = copy[n][id].stop
<1>1. copy[n][id] \in Copy
  BY DEF TypeOK
<1>2. ASSUME NEW m \in Node, NEW k \in DOMAIN copy[m], CancelAt(m, k)
      PROVE  (m = n /\ k = id) \/ Same
  BY <1>2 DEF CancelAt, TypeOK
<1>3. ASSUME NEW m \in Node, NEW job, Accepts(m, job)
      PROVE  Same
  BY <1>3, AcceptsAppends
<1>4. ASSUME NEW j \in Job, AskAnswered(j) \/ AskFails(j)
      PROVE  Same \/ (call' = Idle /\ row' = row /\ row[copy[n][id].job].state # "QUEUED")
  <2>1. /\ Remote(j) /\ row[j].node \in Node /\ CancelAt(row[j].node, row[j].id)
        /\ call' = Idle /\ row' = row
    BY <1>4 DEF AskAnswered, AskFails, MustAsk, Remote, TypeOK, Row
  <2>2. row[j].id \in DOMAIN copy[row[j].node] /\ copy[row[j].node][row[j].id].job = j
    BY <2>1 DEF Remote, RemoteInv, PlacedIsNamed, Names
  <2> QED BY <1>2, <2>1, <2>2 DEF Remote
<1>5. CASE Withdraw
  <2>1. row[call.job].state # "QUEUED" /\ call.op = "claim" /\ call' = Idle /\ row' = row
    BY <1>5 DEF Withdraw
  <2>2. /\ call.node \in Node /\ call.id \in DOMAIN copy[call.node]
        /\ copy[call.node][call.id].job = call.job
    BY <2>1 DEF TypeOK, Calls, Idle, Submitting, Submitted, Settling, RemoteInv, AnswerIsNamed, Names
  <2>3. Same \/ CancelAt(call.node, call.id)
    BY <1>5 DEF Withdraw
  <2> QED BY <1>2, <2>1, <2>2, <2>3
<1>6. CASE UNCHANGED copy
  BY <1>6
<1>7. ASSUME NEW j \in Job, Dispatcher(j) \/ Cancel(j) \/ EndsHere(j)
      PROVE  UNCHANGED copy \/ AskAnswered(j) \/ AskFails(j)
  BY <1>7 DEF Dispatcher, ShipFails, SendSpec, ReapLook, Settle, CollectUnsent, CollectRuns,
       DropTree, RemoveTree, FinishRemote, Abandon, StartHere, ReapHere, Cancel, EndsHere, nodeVars
<1>8. ASSUME NEW s \in Submission,
             SpecChecks(s) \/ SpecInserts(s) \/ SpecRefuses(s) \/ SpecAnswers(s)
      PROVE  Same
  <2>1. SpecInserts(s) => spec[s].node \in Node /\ Accepts(spec[s].node, spec[s].job)
    BY DEF SpecInserts, TypeOK, SpecFile, NoSpec
  <2> QED BY <1>3, <1>8, <2>1 DEF SpecChecks, SpecRefuses, SpecAnswers
<1>9. ASSUME NEW m \in Node, Worker(m) \/ RefreshNodes(m)
      PROVE  Same
  <2>1. CASE OwnSubmits(m) \/ RefreshNodes(m)
    BY <1>3, <2>1 DEF OwnSubmits, RefreshNodes, nodeVars
  <2>2. ASSUME NEW k \in DOMAIN copy[m],
               CopyStarts(m, k) \/ CopyEnds(m, k) \/ CopyDies(m, k) \/ OwnEnds(m, k)
        PROVE  Same
    <3>1. copy[m][k] \in Copy /\ copy \in [Node -> Seq(Copy)]
      BY DEF TypeOK
    <3>2. ASSUME NEW c, copy' = [copy EXCEPT ![m][k] = c], c.stop = copy[m][k].stop
          PROVE  Same
      BY <3>1, <3>2
    <3>3. CASE CopyStarts(m, k) \/ CopyDies(m, k) \/ OwnEnds(m, k)
      <4>1. \A x : [copy[m][k] EXCEPT !.state = x].stop = copy[m][k].stop
        BY <3>1 DEF Copy
      <4>2. PICK x : copy' = [copy EXCEPT ![m][k] = [@ EXCEPT !.state = x]]
        BY <3>3 DEF CopyStarts, CopyDies, OwnEnds
      <4> QED BY <3>2, <4>1, <4>2
    <3>4. CASE CopyEnds(m, k)
      <4>1. \A x, y : [copy[m][k] EXCEPT !.state = x, !.code = y].stop = copy[m][k].stop
        BY <3>1 DEF Copy
      <4>2. PICK x, y : copy' = [copy EXCEPT ![m][k] = [@ EXCEPT !.state = x, !.code = y]]
        BY <3>4 DEF CopyEnds
      <4> QED BY <3>2, <4>1, <4>2
    <3> QED BY <2>2, <3>3, <3>4
  <2> QED BY <1>9, <2>1, <2>2 DEF Worker
<1>10. CASE Answer \/ Restart
  BY <1>5, <1>10 DEF Answer, SubmitFails, ClaimRemote, Restart, nodeVars
<1> QED
  BY <1>4, <1>6, <1>7, <1>8, <1>9, <1>10 DEF Next, vars, nodeVars

\* A call that is new is for a row of the queue, which has no place.
LEMMA SentStep ==
  ASSUME TypeOK, RemoteInv, [Next]_vars, call'.op = "submit"
  PROVE  /\ call'.job \in Job
         /\ call' = call \/ (row[call'.job].state = "QUEUED" /\ row' = row)
<1>1. CASE call' = call
  BY <1>1 DEF TypeOK, Calls, Idle, Submitting, Submitted, Settling
<1>2. CASE call' # call
  <2>1. PICK j \in Job, s \in Submission : call = Idle /\ call' = Submitting(j, s)
    BY <1>2, CallBegins
  <2>2. row[j].state = "QUEUED" /\ row' = row
    BY <2>1, SendStep DEF SendSpec, MayPlace
  <2> QED BY <2>1, <2>2 DEF Submitting
<1> QED BY <1>1, <1>2

LEMMA SentNewStep ==
  ASSUME TypeOK, RemoteInv, SentIsNew, [Next]_vars
  PROVE  SentIsNew'
<1> SUFFICES ASSUME call'.op = "submit" PROVE row'[call'.job].node = Local
  BY DEF SentIsNew
<1>1. CASE call' = call
  BY <1>1, SentStep, RowStep DEF SentIsNew
<1>2. CASE row[call'.job].state = "QUEUED" /\ row' = row
  BY <1>2, SentStep DEF RemoteInv, PlacedIsNamed
<1> QED BY <1>1, <1>2, SentStep

LEMMA StoppedStep ==
  ASSUME TypeOK, RemoteInv, StoppedIsNotSent, [Next]_vars
  PROVE  StoppedIsNotSent'
<1> SUFFICES ASSUME NEW n \in Node, NEW id \in DOMAIN copy'[n], NEW j, j = copy'[n][id].job,
                    j # Own, copy'[n][id].stop
             PROVE  row'[j].state # "QUEUED" /\ ~(call'.op = "submit" /\ call'.job = j)
  BY DEF StoppedIsNotSent
<1>1. id \in DOMAIN copy[n]
  <2> SUFFICES ASSUME id \notin DOMAIN copy[n] PROVE FALSE
    OBVIOUS
  <2>1. PICK s \in Submission : Answers(s, n, id)
    BY NewRecordStep
  <2>2. spec[s].node = n /\ Accepts(n, spec[s].job) /\ id = Len(copy[n]) + 1
    BY <2>1 DEF Answers, SpecInserts
  <2>3. copy'[n][id] = [job |-> spec[s].job, state |-> "QUEUED", code |-> NoCode, stop |-> FALSE]
    BY <2>2, AcceptsAppends
  <2> QED BY <2>3
<1>2. copy[n][id].job = j /\ j \in Job
  <2>1. copy[n][id] \in Copy
    BY <1>1 DEF TypeOK
  <2> QED BY <1>1, <2>1, RecordStep DEF Evolves, Copy
<1>3. CASE copy[n][id].stop
  <2>1. row[j].state # "QUEUED" /\ ~(call.op = "submit" /\ call.job = j)
    BY <1>1, <1>2, <1>3 DEF StoppedIsNotSent
  <2> QED BY <1>2, <2>1, LeavesQueue, SentStep
<1>4. CASE ~copy[n][id].stop
  BY <1>1, <1>2, <1>4, StopStep DEF Idle
<1> QED BY <1>3, <1>4

\* A live copy of a job whose spec the dispatcher waits for, and is still at
\* work, was left by an attempt whose answer was lost.
LEMMA LeftBehind ==
  ASSUME TypeOK, RemoteInv, SentIsNew, StoppedIsNotSent,
         NEW s \in Submission, spec[s].step = "check", Earlier(spec[s].job, spec[s].node) # {}
  PROVE  spec[s].job \in Job /\ "cut" \in hist[spec[s].job]
<1> DEFINE j == spec[s].job
           n == spec[s].node
<1>1. spec[s] # NoSpec /\ j \in Job /\ n \in Node
  BY DEF TypeOK, SpecFile, NoSpec
<1>2. PICK id \in DOMAIN copy[n] : copy[n][id].job = j /\ Live(copy[n][id])
  BY DEF Earlier
<1>3. SUFFICES ASSUME "cut" \notin hist[j] PROVE FALSE
  BY <1>1
<1>4. call.op = "submit" /\ call.job = j /\ call.slot = s
  BY <1>1, <1>3 DEF RemoteInv, AwaitedOrCut, Submitting
<1>5. ~copy[n][id].stop
  BY <1>1, <1>2, <1>4, LocalAssumption DEF StoppedIsNotSent
<1>6. Followed(j, n, id)
  BY <1>1, <1>2, <1>3, <1>5, LocalAssumption DEF RemoteInv, LiveIsFollowed, Excused
<1>7. ~Remote(j)
  BY <1>4 DEF SentIsNew, Remote
<1> QED BY <1>4, <1>6, <1>7 DEF Followed, Submitted, AnswerOf

LEMMA CutStep ==
  ASSUME TypeOK, RemoteInv, TwiceInv, [Next]_vars
  PROVE  TwiceIsCut'
<1> SUFFICES ASSUME NEW j \in Job, "twice" \in hist'[j] PROVE "cut" \in hist'[j]
  BY DEF TwiceIsCut
<1>1. SUFFICES ASSUME "twice" \notin hist[j] PROVE "cut" \in hist[j]
  BY HistStep DEF TwiceInv, TwiceIsCut
<1>2. ASSUME NEW js, NEW what, Happened(js, what), what # "twice"
      PROVE  FALSE
  BY <1>1, <1>2 DEF Happened
<1>3. ASSUME NEW js, Happened(js, "twice")
      PROVE  j \in js
  BY <1>1, <1>3 DEF Happened
<1>4. hist' # hist
  BY <1>1
<1>5. ASSUME NEW i \in Job, NEW n \in Node, SendSpec(i, n)
      PROVE  "cut" \in hist[j]
  <2>1. PICK s \in Submission : /\ spec[s].step \in {"check", "insert"}
                                /\ spec[s].job = i /\ spec[s].node = n
    BY <1>3, <1>5 DEF SendSpec
  <2>2. i = j
    BY <1>3, <1>5 DEF SendSpec
  <2>3. spec[s] # NoSpec /\ call = Idle
    BY <1>5, <2>1 DEF SendSpec, MayPlace, NoSpec
  <2>4. call # Submitting(i, s)
    BY <2>3 DEF Idle, Submitting
  <2> QED BY <2>1, <2>2, <2>3, <2>4 DEF RemoteInv, AwaitedOrCut
<1>6. ASSUME NEW i \in Job, Dispatcher(i) \/ Cancel(i) \/ EndsHere(i)
      PROVE  \E n \in Node : SendSpec(i, n)
  <2>1. ~Abandon(i)
    <3> SUFFICES ASSUME Abandon(i) PROVE "twice" \in hist[j]
      BY <1>1
    <3>1. hist' = [hist EXCEPT ![i] = @ \cup {"abandoned", "cut"}]
      BY DEF Abandon
    <3>2. hist \in [Job -> SUBSET Mishap]
      BY DEF TypeOK
    <3>3. hist'[j] \subseteq hist[j] \cup {"abandoned", "cut"}
      BY <3>1, <3>2
    <3> QED BY <3>3
  <2>2. ~CollectUnsent(i) /\ ~CollectRuns(i)
    BY <1>2, <1>4 DEF CollectUnsent, CollectRuns
  <2> QED
    BY <1>4, <1>6, <2>1, <2>2 DEF Dispatcher, ShipFails, ReapLook, Settle, DropTree,
       RemoveTree, FinishRemote, AskAnswered, AskFails, StartHere, ReapHere, Cancel, EndsHere
<1>7. ASSUME NEW s \in Submission,
             SpecChecks(s) \/ SpecInserts(s) \/ SpecRefuses(s) \/ SpecAnswers(s)
      PROVE  "cut" \in hist[j]
  <2>1. SpecChecks(s)
    BY <1>4, <1>7 DEF SpecInserts, SpecRefuses, SpecAnswers
  <2>2. Earlier(spec[s].job, spec[s].node) # {} /\ j = spec[s].job
    BY <1>3, <1>4, <2>1 DEF SpecChecks
  <2> QED BY <2>1, <2>2, LeftBehind DEF SpecChecks, TwiceInv
<1>8. ASSUME NEW n \in Node, Worker(n) \/ RefreshNodes(n)
      PROVE  FALSE
  BY <1>4, <1>8 DEF Worker, OwnSubmits, CopyStarts, CopyEnds, CopyDies, OwnEnds, RefreshNodes
<1>9. ~Answer /\ ~Restart /\ ~UNCHANGED vars
  BY <1>2, <1>4 DEF Answer, SubmitFails, ClaimRemote, Withdraw, Restart, vars
<1> QED
  BY <1>5, <1>6, <1>7, <1>8, <1>9 DEF Next

LEMMA TwiceStep ==
  ASSUME TypeOK, RemoteInv, TwiceInv, [Next]_vars
  PROVE  TwiceInv'
  BY SentNewStep, StoppedStep, CutStep DEF TwiceInv

LEMMA TwiceInit == Init => TwiceInv
<1>1. Init => call.op = "idle" /\ (\A n \in Node : DOMAIN copy[n] = {}) /\ \A j \in Job : hist[j] = {}
  BY DEF Init, Idle
<1> QED BY <1>1 DEF TwiceInv, SentIsNew, StoppedIsNotSent, TwiceIsCut

\* The dispatcher removes a worktree where it has placed the job, whose copy there
\* has ended.
LEMMA TreeStep ==
  ASSUME TypeOK, RemoteInv, [Next]_vars, NEW n \in Node, NEW j \in tree[n] \ tree'[n]
  PROVE  j \in Job /\ Remote(j) /\ row[j].node = n /\ ~Live(Entry(j)) /\ call.op = "drop"
<1>1. ASSUME NEW i \in Job, Dispatcher(i) \/ Cancel(i) \/ EndsHere(i)
      PROVE  DropTree(i)
  <2>1. ~(\E m \in Node : ShipFails(i, m) \/ SendSpec(i, m))
    <3> SUFFICES ASSUME NEW m \in Node, ShipFails(i, m) \/ SendSpec(i, m) PROVE j \in tree'[n]
      OBVIOUS
    <3>1. tree' = [tree EXCEPT ![m] = @ \cup {i}]  BY DEF ShipFails, SendSpec
    <3> QED  BY <3>1 DEF TypeOK
  <2>2. ~Abandon(i) /\ ~AskAnswered(i) /\ ~AskFails(i)
    BY DEF Abandon, AskAnswered, AskFails, nodeVars
  <2>3. ~ReapLook(i) /\ ~StartHere(i) /\ ~ReapHere(i) /\ ~Cancel(i) /\ ~EndsHere(i)
    BY DEF ReapLook, StartHere, ReapHere, Cancel, EndsHere, nodeVars
  <2>4. Settle(i) => DropTree(i)
    BY DEF Settle, CollectUnsent, CollectRuns, FinishRemote, nodeVars
  <2> QED  BY <1>1, <2>1, <2>2, <2>3, <2>4 DEF Dispatcher
<1>2. ASSUME NEW s \in Submission,
             SpecChecks(s) \/ SpecInserts(s) \/ SpecRefuses(s) \/ SpecAnswers(s)
      PROVE  FALSE
  BY <1>2 DEF SpecChecks, SpecInserts, SpecRefuses, SpecAnswers
<1>3. ASSUME NEW m \in Node, Worker(m) \/ RefreshNodes(m)
      PROVE  FALSE
  BY <1>3 DEF Worker, OwnSubmits, CopyStarts, CopyEnds, CopyDies, OwnEnds, RefreshNodes,
     nodeVars
<1>4. ~Answer /\ ~Restart /\ ~UNCHANGED vars
  BY DEF Answer, SubmitFails, ClaimRemote, Withdraw, Restart, vars, nodeVars
<1>5. PICK i \in Job : DropTree(i)
  BY <1>1, <1>2, <1>3, <1>4 DEF Next
<1>6. call.op = "drop" /\ call.job = i
  BY <1>5 DEF DropTree, Settling
<1>7. Remote(i) /\ ~Live(Entry(i))
  BY <1>6 DEF RemoteInv, SettledIsOver
<1>8. i = j /\ row[i].node = n
  <2>1. tree \in [Node -> SUBSET Job] /\ tree' # tree
    BY DEF TypeOK
  <2>2. tree' = [tree EXCEPT ![row[i].node] = tree[row[i].node] \ {i}]
    BY <1>5, <2>1 DEF DropTree, RemoveTree
  <2> QED BY <2>1, <2>2
<1> QED BY <1>6, <1>7, <1>8

----------------------------------------------------------------------------
(* Results are home before the job is recorded as ended.                    *)

\* A cancellation gives no code.
LEMMA CancelAtCode ==
  ASSUME TypeOK, NEW m \in Node, NEW k \in DOMAIN copy[m], CancelAt(m, k),
         NEW n \in Node, NEW id \in DOMAIN copy[n]
  PROVE  copy'[n][id].code = copy[n][id].code
<1>1. copy[m][k] \in Copy
  BY DEF TypeOK
<1>2. Cancelled(copy[m][k]).code = copy[m][k].code
  <2>1. CASE copy[m][k].state = "QUEUED"
    BY <1>1, <2>1 DEF Cancelled, Copy
  <2>2. CASE copy[m][k].state = "RUNNING"
    BY <1>1, <2>2 DEF Cancelled, Copy
  <2>3. CASE copy[m][k].state \notin {"QUEUED", "RUNNING"}
    BY <2>3 DEF Cancelled
  <2> QED BY <2>1, <2>2, <2>3
<1> DEFINE d == Cancelled(copy[m][k])
<1>3. copy' = [copy EXCEPT ![m][k] = d] /\ d.code = copy[m][k].code
  BY <1>2 DEF CancelAt
<1> HIDE DEF d
<1> QED BY <1>3 DEF TypeOK

\* A job of the node gets a code only where it ends by itself.
LEMMA CodeStep ==
  ASSUME TypeOK, RemoteInv, [Next]_vars, NEW n \in Node, NEW id \in DOMAIN copy[n],
         copy'[n][id].code # copy[n][id].code
  PROVE  CopyEnds(n, id)
<1>1. copy' # copy
  OBVIOUS
<1>2. ASSUME NEW j \in Job, Dispatcher(j) \/ Cancel(j) \/ EndsHere(j)
      PROVE  FALSE
  <2>1. CASE AskAnswered(j) \/ AskFails(j)
    <3>1. row[j].node \in Node /\ row[j].id \in DOMAIN copy[row[j].node]
      BY <2>1 DEF AskAnswered, AskFails, MustAsk, Remote, TypeOK, Row, RemoteInv,
         PlacedIsNamed, Names
    <3> QED BY <2>1, <3>1, CancelAtCode DEF AskAnswered, AskFails
  <2>2. CASE ~(AskAnswered(j) \/ AskFails(j))
    BY <1>1, <1>2, <2>2 DEF Dispatcher, ShipFails, SendSpec, ReapLook, Settle, CollectUnsent,
       CollectRuns, DropTree, FinishRemote, Abandon, StartHere, ReapHere, Cancel, EndsHere,
       nodeVars
  <2> QED BY <2>1, <2>2
<1>3. ASSUME NEW s \in Submission, SpecInserts(s)
      PROVE  FALSE
  <2>1. spec[s].node \in Node /\ Accepts(spec[s].node, spec[s].job)
    BY <1>3 DEF SpecInserts, TypeOK, SpecFile, NoSpec
  <2> QED BY <2>1, AcceptsAppends
<1>4. ASSUME NEW s \in Submission, SpecChecks(s) \/ SpecRefuses(s) \/ SpecAnswers(s)
      PROVE  FALSE
  BY <1>1, <1>4 DEF SpecChecks, SpecRefuses, SpecAnswers
<1>5. ASSUME NEW m \in Node, Worker(m) \/ RefreshNodes(m)
      PROVE  CopyEnds(n, id)
  <2>1. ~OwnSubmits(m)
    BY AcceptsAppends DEF OwnSubmits
  <2>2. ~RefreshNodes(m)
    BY <1>1 DEF RefreshNodes, nodeVars
  <2>3. ASSUME NEW k \in DOMAIN copy[m], NEW state, copy' = [copy EXCEPT ![m][k].state = state]
        PROVE  FALSE
    <3>1. copy[m][k] \in Copy
      BY DEF TypeOK
    <3> DEFINE d == [copy[m][k] EXCEPT !.state = state]
    <3>2. d.code = copy[m][k].code
      BY <3>1 DEF Copy
    <3>3. copy' = [copy EXCEPT ![m][k] = d]
      BY <2>3
    <3> HIDE DEF d
    <3> QED BY <3>2, <3>3 DEF TypeOK
  <2>4. PICK k \in DOMAIN copy[m] : CopyEnds(m, k)
    BY <1>5, <2>1, <2>2, <2>3 DEF Worker, CopyStarts, CopyDies, OwnEnds
  <2>5. \E d : copy' = [copy EXCEPT ![m][k] = d]
    BY <2>4 DEF CopyEnds
  <2>6. m = n /\ k = id
    BY <2>5 DEF TypeOK
  <2> QED BY <2>4, <2>6
<1>6. CASE Answer \/ Restart
  <2>1. CASE Withdraw /\ CancelAt(call.node, call.id)
    <3>1. call.node \in Node /\ call.id \in DOMAIN copy[call.node]
      BY <2>1 DEF Withdraw, TypeOK, Calls, Idle, Submitting, Submitted, Settling,
           RemoteInv, AnswerIsNamed, Names
    <3> QED BY <2>1, <3>1, CancelAtCode
  <2>2. CASE ~(Withdraw /\ CancelAt(call.node, call.id))
    BY <1>1, <1>6, <2>2 DEF Answer, SubmitFails, ClaimRemote, Withdraw, Restart, nodeVars
  <2> QED BY <2>1, <2>2
<1> QED BY <1>1, <1>2, <1>3, <1>4, <1>5, <1>6 DEF Next, vars, nodeVars

LEMMA NoCodeStep ==
  ASSUME TypeOK, RemoteInv, LiveHasNoCode, [Next]_vars
  PROVE  LiveHasNoCode'
<1> SUFFICES ASSUME NEW n \in Node, NEW id \in DOMAIN copy'[n], Live(copy'[n][id])
             PROVE  copy'[n][id].code = NoCode
  BY DEF LiveHasNoCode, Live
<1>1. CASE id \in DOMAIN copy[n]
  <2>1. Live(copy[n][id])
    BY <1>1, RecordStep DEF Evolves
  <2>2. copy'[n][id].code = copy[n][id].code
    <3> SUFFICES ASSUME CopyEnds(n, id) PROVE ~Live(copy'[n][id])
      BY <1>1, CodeStep
    <3>1. PICK code, state : /\ state \in Outcomes(copy[n][id], code)
                             /\ copy' = [copy EXCEPT ![n][id] = [@ EXCEPT !.state = state, !.code = code]]
      BY DEF CopyEnds
    <3>2. state \notin ACTIVE_STATES
      BY <3>1 DEF Outcomes, ACTIVE_STATES
    <3>3. copy[n][id] \in Copy
      BY <1>1 DEF TypeOK
    <3>4. [copy[n][id] EXCEPT !.state = state, !.code = code].state = state
      BY <3>3 DEF Copy
    <3>5. copy'[n][id] = [copy[n][id] EXCEPT !.state = state, !.code = code]
      BY <1>1, <3>1 DEF TypeOK
    <3> QED BY <3>2, <3>4, <3>5 DEF Live
  <2> QED BY <1>1, <2>1, <2>2 DEF LiveHasNoCode
<1>2. CASE id \notin DOMAIN copy[n]
  BY <1>2, NewRecordStep
<1> QED BY <1>1, <1>2

\* A worktree stays while a copy of its job is followed and alive.
LEMMA RunsInTreeStep ==
  ASSUME TypeOK, RemoteInv, WaitedIsOurs, RunsInTree, [Next]_vars
  PROVE  RunsInTree'
<1>1. ASSUME NEW j \in Job, NEW n \in Node, NEW id \in DOMAIN copy'[n],
             Followed(j, n, id)', Live(copy'[n][id])
      PROVE  j \in tree'[n]
  <2>1. id \in 1..MaxCopies
    BY TypeStep, BoundAssumption DEF TypeOK
  <2>2. CASE Followed(j, n, id)
    <3>1. id \in DOMAIN copy[n]
      BY <2>2, FollowedIsNamed DEF Names
    <3>2. j \in tree[n]
      BY <1>1, <2>2, <3>1, RecordStep DEF RunsInTree, Evolves
    <3> SUFFICES ASSUME j \notin tree'[n] PROVE FALSE
      OBVIOUS
    <3>3. Remote(j) /\ row[j].node = n /\ ~Live(Entry(j)) /\ call.op = "drop"
      BY <3>2, TreeStep
    <3>4. row[j].id = id
      BY <2>2, <3>3 DEF Followed, Submitted
    <3> QED BY <1>1, <3>1, <3>3, <3>4, RecordStep DEF Evolves, Entry
  <2>3. CASE /\ call' = call /\ call.op = "submit"
             /\ SpecChecks(call.slot) \/ SpecInserts(call.slot)
             /\ spec'[call.slot] = AnswerOf(j, n, id)
    <3>1. spec[call.slot].job = j /\ spec[call.slot].node = n
      BY <2>3, WaitedStep DEF AnswerOf
    <3> QED BY <2>3, <3>1 DEF SpecChecks, SpecInserts, RunsInTree
  <2> QED BY <1>1, <2>1, <2>2, <2>3, FollowedFrom
<1>2. ASSUME call'.op = "submit", spec'[call'.slot].step = "insert"
      PROVE  spec'[call'.slot].job \in tree'[spec'[call'.slot].node]
  <2>1. call' = call
    <3> SUFFICES ASSUME call' # call PROVE FALSE
      OBVIOUS
    <3>1. PICK i \in Job, s \in Submission : call = Idle /\ call' = Submitting(i, s)
      BY <1>2, CallBegins
    <3> QED BY <1>2, <3>1, SendStep DEF Submitting
  <2> DEFINE s == call.slot
  <2>2. /\ s \in Submission /\ spec[s] \in SpecFile
        /\ spec'[s].job = spec[s].job /\ spec'[s].node = spec[s].node
        /\ spec'[s] = spec[s] \/ SpecChecks(s) \/ SpecInserts(s)
    BY <1>2, <2>1, WaitedStep
  <2>3. CASE SpecChecks(s)
    BY <2>1, <2>2, <2>3 DEF SpecChecks
  <2>4. CASE spec'[s] = spec[s]
    <3>1. spec[s].job \in tree[spec[s].node] /\ spec[s].node \in Node
      BY <1>2, <2>1, <2>2, <2>4 DEF RunsInTree, SpecFile
    <3> QED BY <1>2, <2>1, <2>2, <3>1, TreeStep
  <2>5. ~SpecInserts(s)
    <3>1. \A id : [spec[s] EXCEPT !.step = "reply", !.id = id].step = "reply"
      BY <2>2 DEF SpecFile
    <3> QED BY <1>2, <2>1, <2>2, <3>1 DEF SpecInserts, Moves, TypeOK
  <2> QED BY <2>1, <2>2, <2>3, <2>4, <2>5
<1> QED BY <1>1, <1>2 DEF RunsInTree, Live

\* A row is given its place by the claim only.
LEMMA PlacedBy ==
  ASSUME TypeOK, RemoteInv, [Next]_vars, NEW j \in Job,
         row[j].node = Local, row'[j].node # Local
  PROVE  ClaimRemote /\ call.job = j
<1>1. call.op = "claim" /\ call.job = j
  BY RowStep
<1>2. call # Idle /\ \A op, i : op # "claim" => call # Settling(op, i)
  BY <1>1 DEF Idle, Settling
<1>3. ASSUME NEW i \in Job, Dispatcher(i)
      PROVE  FALSE
  BY <1>2, <1>3 DEF Dispatcher, ShipFails, SendSpec, MayPlace, ReapLook, Settle,
     CollectUnsent, CollectRuns, DropTree, FinishRemote, Abandon, AskAnswered, AskFails,
     MustAsk, StartHere, ReapHere
<1>4. ASSUME NEW i \in Job, Cancel(i) \/ EndsHere(i)
      PROVE  FALSE
  <2>1. row \in [Job -> Row] /\ row[i] \in Row
    BY DEF TypeOK
  <2>2. CASE row' = [row EXCEPT ![i].state = "REMOVED"]
    BY <2>1, <2>2 DEF Row
  <2>3. CASE row' = [row EXCEPT ![i].cancel = TRUE]
    BY <2>1, <2>3 DEF Row
  <2> QED BY <1>4, <2>2, <2>3 DEF Cancel, EndsHere
<1>5. ASSUME NEW s \in Submission,
             SpecChecks(s) \/ SpecInserts(s) \/ SpecRefuses(s) \/ SpecAnswers(s)
      PROVE  FALSE
  BY <1>5 DEF SpecChecks, SpecInserts, SpecRefuses, SpecAnswers
<1>6. ASSUME NEW n \in Node, Worker(n) \/ RefreshNodes(n)
      PROVE  FALSE
  BY <1>6 DEF Worker, OwnSubmits, CopyStarts, CopyEnds, CopyDies, OwnEnds, RefreshNodes
<1>7. ~Restart /\ ~SubmitFails /\ ~Withdraw /\ ~UNCHANGED vars
  BY DEF SubmitFails, Withdraw, Restart, vars
<1> QED BY <1>1, <1>3, <1>4, <1>5, <1>6, <1>7 DEF Next, Answer

\* Results that are home stay there, and what went wrong stays recorded.
LEMMA AccountedStep ==
  ASSUME TypeOK, [Next]_vars, NEW j \in Job, Accounted(j)
  PROVE  Accounted(j)'
<1>1. home \subseteq home'
  <2>1. ASSUME NEW i \in Job, Dispatcher(i) \/ Cancel(i) \/ EndsHere(i)
        PROVE  home \subseteq home'
    BY <2>1 DEF Dispatcher, ShipFails, SendSpec, ReapLook, Settle, CollectUnsent, CollectRuns,
       DropTree, FinishRemote, Abandon, AskAnswered, AskFails, StartHere, ReapHere, Cancel,
       EndsHere
  <2>2. ASSUME NEW s \in Submission,
               SpecChecks(s) \/ SpecInserts(s) \/ SpecRefuses(s) \/ SpecAnswers(s)
        PROVE  UNCHANGED home
    BY <2>2 DEF SpecChecks, SpecInserts, SpecRefuses, SpecAnswers
  <2>3. ASSUME NEW n \in Node, Worker(n) \/ RefreshNodes(n)
        PROVE  UNCHANGED home
    BY <2>3 DEF Worker, OwnSubmits, CopyStarts, CopyEnds, CopyDies, OwnEnds, RefreshNodes
  <2>4. CASE Answer \/ Restart \/ UNCHANGED vars
    BY <2>4 DEF Answer, SubmitFails, ClaimRemote, Withdraw, Restart, vars
  <2> QED BY <2>1, <2>2, <2>3, <2>4 DEF Next
<1>2. hist[j] \subseteq hist'[j]
  BY HistStep
<1> QED BY <1>1, <1>2 DEF Accounted

\* Results on a node stay there, and stay recent, until they were asked for.
LEMMA FreshStep ==
  ASSUME TypeOK, RemoteInv, [Next]_vars, NEW j \in Job, Remote(j), Fresh(j),
         ~(call.op = "drop" /\ call.job = j)
  PROVE  Fresh(j)'
<1> DEFINE n == row[j].node
<1>1. n \in Node /\ row'[j].node = n /\ row[j].state = "RUNNING"
  BY RowStep DEF Remote, TypeOK, Row
<1>2. /\ out \in [Node -> [Job -> SUBSET Place]] /\ recent \in [Node -> SUBSET Job]
  BY DEF TypeOK
<1> DEFINE Kept == j \in recent'[n] /\ out[n][j] \ {"stage"} \subseteq out'[n][j]
<1>3. j \in recent[n]
  BY DEF Fresh
<1>4. SUFFICES Kept
  BY <1>1 DEF Fresh
<1>5. CASE UNCHANGED <<out, recent>>
  BY <1>3, <1>5
<1>6. ASSUME NEW i \in Job, Dispatcher(i) \/ Cancel(i) \/ EndsHere(i)
      PROVE  Kept
  <2>1. CASE CollectRuns(i)
    <3>1. recent' = recent
      BY <2>1 DEF CollectRuns
    <3>2. \E places : /\ out[row[i].node][i] \ {"stage"} \subseteq places
                      /\ out' = [out EXCEPT ![row[i].node][i] = places]
      BY <2>1 DEF CollectRuns
    <3> QED BY <1>1, <1>2, <1>3, <3>1, <3>2
  <2>2. CASE DropTree(i)
    <3>1. i # j
      BY <2>2 DEF DropTree, Settling
    <3> QED BY <1>1, <1>2, <1>3, <2>2, <3>1 DEF DropTree, RemoveTree
  <2> QED
    BY <1>5, <1>6, <2>1, <2>2 DEF Dispatcher, ShipFails, SendSpec, ReapLook, Settle,
       CollectUnsent, FinishRemote, Abandon, AskAnswered, AskFails, StartHere, ReapHere,
       Cancel, EndsHere, nodeVars
<1>7. ASSUME NEW s \in Submission,
             SpecChecks(s) \/ SpecInserts(s) \/ SpecRefuses(s) \/ SpecAnswers(s)
      PROVE  Kept
  BY <1>5, <1>7 DEF SpecChecks, SpecInserts, SpecRefuses, SpecAnswers
<1>8. ASSUME NEW m \in Node, Worker(m) \/ RefreshNodes(m)
      PROVE  Kept
  <2>1. ASSUME NEW id \in DOMAIN copy[m], CopyEnds(m, id)
        PROVE  Kept
    <3> DEFINE i == copy[m][id].job
    <3>1. out' = out \/ out' = [out EXCEPT ![m][i] = out[m][i] \cup {WritesTo(i)}]
      BY <2>1 DEF CopyEnds
    <3>2. recent' = recent \/ recent' = [recent EXCEPT ![m] = recent[m] \cup {i}]
      BY <2>1 DEF CopyEnds
    <3> HIDE DEF i
    <3> QED BY <1>1, <1>2, <1>3, <3>1, <3>2
  <2> QED
    BY <1>5, <1>8, <2>1 DEF Worker, OwnSubmits, CopyStarts, CopyDies, OwnEnds, RefreshNodes,
       nodeVars
<1>9. CASE Answer \/ Restart
  <2>1. CASE ClaimRemote
    <3>1. call.job # j
      BY <1>1, <2>1 DEF ClaimRemote
    <3> QED BY <1>1, <1>2, <1>3, <2>1, <3>1 DEF ClaimRemote
  <2> QED BY <1>5, <1>9, <2>1 DEF Answer, SubmitFails, Withdraw, Restart, nodeVars
<1> QED BY <1>5, <1>6, <1>7, <1>8, <1>9 DEF Next, vars, nodeVars

\* What ended with a code where its row followed it has left its results there.
LEMMA ZeroStep ==
  ASSUME TypeOK, RemoteInv, HomeInv, [Next]_vars, NEW j \in Job, Remote(j)', Zero(j)'
  PROVE  Accounted(j)' \/ Fresh(j)'
<1>1. CASE row[j].node = Local
  <2>1. ClaimRemote /\ call.job = j
    BY <1>1, PlacedBy DEF Remote
  <2>2. row'[j].node = call.node /\ row'[j].id = call.id
    BY <2>1 DEF ClaimRemote, TypeOK, Row
  <2>3. copy' = copy
    BY <2>1 DEF ClaimRemote
  <2>4. ~Live(copy[call.node][call.id])
    BY <2>2, <2>3 DEF Zero, Entry, Live
  <2>5. Happened({j}, "early")
    BY <2>1, <2>4 DEF ClaimRemote
  <2> QED BY <2>5 DEF Happened, Accounted
<1>2. CASE row[j].node # Local
  <2>1. ~FinishRemote(j) /\ ~Abandon(j)
    <3>1. row \in [Job -> Row] /\ row[j] \in Row
      BY DEF TypeOK
    <3>2. \A c : [row[j] EXCEPT !.state = "FINISHED", !.code = c].state = "FINISHED"
      BY <3>1 DEF Row
    <3>3. row'[j].state = "RUNNING"
      BY DEF Remote
    <3> QED BY <3>1, <3>2, <3>3 DEF FinishRemote, Abandon
  <2>2. Remote(j)
    BY <1>2, <2>1, EndStep DEF Remote
  <2> DEFINE n == row[j].node
             id == row[j].id
  <2>3. /\ n \in Node /\ id \in DOMAIN copy[n] /\ copy[n][id].job = j
        /\ row'[j].node = n /\ row'[j].id = id
    BY <2>2, RowStep DEF Remote, TypeOK, Row, RemoteInv, PlacedIsNamed, Names
  <2>4. CASE ~Live(Entry(j))
    <3>1. Zero(j)
      BY <1>2, <2>4, OverStep DEF Zero, Live
    <3>2. CASE Accounted(j)
      BY <3>2, AccountedStep
    <3>3. CASE ~Accounted(j)
      <4>1. Fresh(j) /\ ~(call.op = "drop" /\ call.job = j)
        BY <2>2, <3>1, <3>3 DEF HomeInv
      <4> QED BY <2>2, <4>1, FreshStep
    <3> QED BY <3>2, <3>3
  <2>5. CASE Live(Entry(j))
    <3>1. copy'[n][id].code = "zero" /\ copy[n][id].code # "zero"
      BY <2>3, <2>5 DEF Zero, Entry, HomeInv, LiveHasNoCode, NoCode
    <3>2. CopyEnds(n, id)
      BY <2>3, <3>1, CodeStep
    <3>3. j \in tree[n]
      BY <2>2, <2>3, <2>5 DEF HomeInv, RunsInTree, Followed, Entry
    <3>4. out' = [out EXCEPT ![n][j] = out[n][j] \cup {WritesTo(j)}]
      BY <2>3, <3>2, <3>3 DEF CopyEnds
    <3>5. recent' = [recent EXCEPT ![n] = recent[n] \cup {j}]
      BY <2>2, <2>3, <3>2 DEF CopyEnds
    <3>6. j \in recent'[n] /\ WritesTo(j) \in out'[n][j]
      BY <2>3, <3>4, <3>5 DEF TypeOK
    <3> QED BY <2>3, <3>6 DEF Fresh, WritesTo
  <2> QED BY <2>4, <2>5
<1> QED BY <1>1, <1>2

\* When its worktree goes, the results are home or their loss is recorded.
LEMMA BroughtStep ==
  ASSUME TypeOK, RemoteInv, HomeInv, [Next]_vars,
         NEW j \in Job, call'.op \in {"drop", "finish"}, call'.job = j, Zero(j)'
  PROVE  Accounted(j)'
<1>1. ASSUME Remote(j), ~Live(Entry(j))
      PROVE  Zero(j)
  BY <1>1, OverStep, LocalAssumption DEF Zero, Live, Remote
<1>2. CASE call' = call
  <2>1. Remote(j) /\ ~Live(Entry(j))
    BY <1>2 DEF RemoteInv, SettledIsOver
  <2>2. Accounted(j)
    BY <1>1, <1>2, <2>1 DEF HomeInv
  <2> QED BY <2>2, AccountedStep
<1>3. CASE call' # call
  <2>1. /\ Idle.op = "idle" /\ \A i, n, id : Submitted(i, n, id).op = "claim"
        /\ \A i, s : Submitting(i, s).op = "submit"
        /\ \A op, i : Settling(op, i).op = op /\ Settling(op, i).job = i
    BY DEF Idle, Submitting, Submitted, Settling
  <2>2. PICK i \in Job : CollectUnsent(i) \/ CollectRuns(i) \/ DropTree(i)
    <3>0. call' # Idle /\ \A i : call' # Settling("collect", i)
      BY <2>1
    <3>1. ~Answer /\ ~Restart /\ \A i \in Job : ~ReapLook(i) /\ ~FinishRemote(i)
      BY <3>0 DEF Answer, SubmitFails, ClaimRemote, Withdraw, Restart, ReapLook, FinishRemote
    <3>2. \A s \in Submission : Waited(s) => ~SpecRefuses(s) /\ ~SpecAnswers(s)
      BY <2>1 DEF SpecRefuses, SpecAnswers
    <3>3. \A i \in Job, s \in Submission : call' # Submitting(i, s)
      BY <2>1
    <3> QED BY <1>3, <3>1, <3>2, <3>3, CallStep DEF Settle
  <2>3. /\ call.op \in {"collect", "drop"} /\ call.job = j
        /\ call.op = "drop" \/ CollectUnsent(j) \/ CollectRuns(j)
    <3>1. call' \in {Settling("drop", i), Settling("finish", i)}
      BY <2>2 DEF CollectUnsent, CollectRuns, DropTree
    <3>2. i = j
      BY <2>1, <3>1
    <3>3. call = Settling("drop", i) \/ (call = Settling("collect", i) /\ ~DropTree(i))
      BY <2>1, <2>2 DEF CollectUnsent, CollectRuns, DropTree
    <3> QED BY <2>1, <2>2, <3>2, <3>3
  <2>4. Remote(j) /\ ~Live(Entry(j))
    BY <2>3 DEF RemoteInv, SettledIsOver
  <2>5. Zero(j)
    BY <1>1, <2>4
  <2>6. CASE Accounted(j)
    BY <2>6, AccountedStep
  <2>7. CASE CollectUnsent(j)
    BY <2>7 DEF CollectUnsent, Happened, Accounted
  <2>8. CASE CollectRuns(j) /\ Fresh(j)
    BY <2>8 DEF CollectRuns, Happened, Accounted, Fresh
  <2> QED BY <2>3, <2>4, <2>5, <2>6, <2>7, <2>8 DEF HomeInv
<1> QED BY <1>2, <1>3

LEMMA FinishStep ==
  ASSUME TypeOK, RemoteInv, HomeInv, [Next]_vars
  PROVE  HomeBeforeFinish'
<1> SUFFICES ASSUME NEW j \in Job, row'[j].state = "FINISHED", row'[j].node # Local,
                    row'[j].code = "zero"
             PROVE  Accounted(j)'
  BY DEF HomeBeforeFinish, Accounted
<1>1. row \in [Job -> Row] /\ row[j] \in Row
  BY DEF TypeOK
<1>2. row[j].node # Local
  <2> SUFFICES ASSUME ClaimRemote, call.job = j PROVE FALSE
    BY PlacedBy
  <2>1. \A n, id : [row[j] EXCEPT !.state = "RUNNING", !.node = n, !.id = id].state = "RUNNING"
    BY <1>1 DEF Row
  <2> QED BY <1>1, <2>1 DEF ClaimRemote
<1>3. CASE row'[j].state = row[j].state /\ row'[j].code = row[j].code
  BY <1>2, <1>3, AccountedStep DEF HomeInv, HomeBeforeFinish, Accounted
<1>4. CASE FinishRemote(j)
  <2>1. call.op = "finish" /\ call.job = j
    BY <1>4 DEF FinishRemote, Settling
  <2>2. Remote(j) /\ ~Live(Entry(j))
    BY <2>1 DEF RemoteInv, SettledIsOver
  <2>3. Verdict(Entry(j)) = "zero"
    <3>1. \A c : [row[j] EXCEPT !.state = "FINISHED", !.code = c].code = c
      BY <1>1 DEF Row
    <3> QED BY <1>1, <1>4, <3>1 DEF FinishRemote
  <2>4. row[j].node \in Node /\ Names(j, row[j].node, row[j].id)
    BY <1>1, <2>2 DEF Remote, Row, RemoteInv, PlacedIsNamed
  <2>5. Entry(j).code = "zero"
    BY <2>3, <2>4, LocalAssumption DEF Verdict, RemoteInv, SuccessHasCode, Names, Entry
  <2>6. Accounted(j)
    BY <2>1, <2>2, <2>5 DEF HomeInv, Zero
  <2> QED BY <2>6, AccountedStep
<1>5. ~Abandon(j)
  <2>1. \A c : [row[j] EXCEPT !.state = "FINISHED", !.code = c].code = c
    BY <1>1 DEF Row
  <2> QED BY <1>1, <2>1 DEF Abandon
<1> QED BY <1>2, <1>3, <1>4, <1>5, EndStep

LEMMA HomeStep ==
  ASSUME TypeOK, RemoteInv, WaitedIsOurs, HomeInv, [Next]_vars
  PROVE  HomeInv'
<1>1. RunsInTree' /\ LiveHasNoCode'
  BY RunsInTreeStep, NoCodeStep DEF HomeInv
<1>2. call'.op \in {"drop", "finish"} => call'.job \in Job
  BY TypeStep DEF TypeOK, Calls, Idle, Submitting, Submitted, Settling
<1>3. call'.op \in {"drop", "finish"} => \A j \in Job : call'.job = j /\ Zero(j)' => Accounted(j)'
  BY BroughtStep
<1>4. (call.op \in {"drop", "finish"} /\ Zero(call.job) => Accounted(call.job))'
  BY <1>2, <1>3 DEF Zero, Accounted, Entry, Live
<1> QED BY <1>1, <1>4, ZeroStep, FinishStep DEF HomeInv

LEMMA HomeInit == Init => HomeInv
<1> SUFFICES ASSUME Init PROVE HomeInv
  OBVIOUS
<1>1. /\ call.op = "idle" /\ \A n \in Node : DOMAIN copy[n] = {}
      /\ \A j \in Job : row[j].state = "QUEUED"
  BY DEF Init, Idle
<1> QED BY <1>1 DEF HomeInv, RunsInTree, LiveHasNoCode, HomeBeforeFinish, Remote

----------------------------------------------------------------------------
(* The theorems.                                                            *)

\* At first nothing is placed, called or accepted.
LEMMA InvInit == Init => RemoteInv
<1> SUFFICES ASSUME Init PROVE RemoteInv
  OBVIOUS
<1>1. \A j \in Job : row[j].node = Local /\ row[j].state = "QUEUED"
  BY DEF Init
<1>2. \A s \in Submission : spec[s] = NoSpec
  BY DEF Init
<1>3. call.op = "idle" /\ \A n \in Node : DOMAIN copy[n] = {}
  BY DEF Init, Idle
<1>4. PlacedIsNamed /\ EndedOnItsNode
  BY <1>1 DEF PlacedIsNamed, EndedOnItsNode
<1>5. AnswerIsNamed /\ SettledIsOver /\ AwaitedOrCut
  BY <1>2, <1>3 DEF AnswerIsNamed, SettledIsOver, AwaitedOrCut, NoSpec
<1>6. SuccessHasCode /\ LiveIsFollowed
  BY <1>3 DEF SuccessHasCode, LiveIsFollowed
<1> QED
  BY <1>4, <1>5, <1>6 DEF RemoteInv

\* Both invariants, which need each other.
LEMMA Invariants == Spec => [](TypeOK /\ RemoteInv)
<1>1. Init => TypeOK /\ RemoteInv
  BY InitType, InvInit
<1>2. TypeOK /\ RemoteInv /\ [Next]_vars => TypeOK' /\ RemoteInv'
  BY TypeStep, PlacedStep, AnswerStep, SettledStep, SuccessStep, EndedStep, AwaitedStep,
     FollowedStep DEF RemoteInv
<1> QED
  BY <1>1, <1>2, PTL DEF Spec

\* Every variable keeps its type.
THEOREM RemoteTypes == Spec => []TypeOK
  BY Invariants, PTL

\* The rows, the call, the answers and the tables of the nodes agree.
THEOREM RemoteAgrees == Spec => []RemoteInv
  BY Invariants, PTL

\* A row that ended on a node ended with its own job there, and with the code
\* of that job, whatever answers were lost and however often the dispatcher or
\* the registry changed; only a cancellation without its node is an exception.
THEOREM VerdictIsItsOwn == Spec => []EndedOnItsNode
<1>1. RemoteInv => EndedOnItsNode
  BY DEF RemoteInv
<1> QED
  BY <1>1, Invariants, PTL

\* A live copy that nobody told to stop has its row, or the call that is about
\* to make one, unless an answer about the job was lost.
THEOREM NobodyIsLeftBehind == Spec => []NoOrphan
<1>1. TypeOK /\ RemoteInv => NoOrphan
  <2> SUFFICES ASSUME TypeOK, RemoteInv, NEW n \in Node, NEW id \in DOMAIN copy[n], ~Excused(n, id)
               PROVE  \/ /\ Remote(copy[n][id].job) /\ row[copy[n][id].job].node = n
                         /\ row[copy[n][id].job].id = id
                      \/ call.op \in {"submit", "claim"} /\ call.job = copy[n][id].job
    BY DEF NoOrphan, Excused
  <2> DEFINE j == copy[n][id].job
  <2>1. Followed(j, n, id)
    BY DEF RemoteInv, LiveIsFollowed
  <2>2. CASE call = Submitted(j, n, id)
    BY <2>2 DEF Submitted
  <2>3. CASE call.op = "submit" /\ spec[call.slot] = AnswerOf(j, n, id)
    <3>1. PICK s \in Submission : call.slot = s
      BY <2>3 DEF TypeOK, Calls, Idle, Submitting, Submitted, Settling
    <3>2. spec[s] # NoSpec /\ spec[s].job = j
      BY <2>3, <3>1 DEF AnswerOf, NoSpec
    <3>3. call = Submitting(j, s)
      BY <3>2 DEF RemoteInv, AwaitedOrCut, Excused
    <3> QED
      BY <2>3, <3>3 DEF Submitting
  <2> QED
    BY <2>1, <2>2, <2>3 DEF Followed
<1> QED
  BY <1>1, Invariants, PTL

\* The inductive invariants behind the two theorems that follow.
LEMMA AloneCorrect == Spec => [](AloneInv /\ TwiceInv)
<1>1. AloneInv => WaitedIsOurs
  BY DEF AloneInv
<1> QED BY <1>1, Invariants, AloneInit, AloneStep, TwiceInit, TwiceStep, PTL DEF Spec

\* A node has one live copy of a job, whatever answers are lost and specs sent again,
\* unless two submissions of the job were at work there at once or one did not see
\* the job of an earlier one; and in any case while no answer about it was lost.
THEOREM OneCopyEach == Spec => []OneCopyPerNode
<1>1. TypeOK /\ AloneInv /\ TwiceInv => OneCopyPerNode
  <2> SUFFICES ASSUME TypeOK, AloneInv, NEW n \in Node, NEW j \in Job, "twice" \notin hist[j]
               PROVE  Cardinality(LiveCopies(j, n)) <= 1
    BY DEF OneCopyPerNode, Twice, TwiceInv, TwiceIsCut
  <2>1. \A a, b \in LiveCopies(j, n) : a = b
    BY DEF AloneInv, AloneOn
  <2>2. CASE LiveCopies(j, n) = {}
    BY <2>2, FS_EmptySet
  <2>3. ASSUME NEW a \in LiveCopies(j, n) PROVE Cardinality(LiveCopies(j, n)) <= 1
    <3>1. LiveCopies(j, n) = {a}
      BY <2>1, <2>3
    <3>2. Cardinality({a}) = 1
      BY FS_Singleton
    <3> QED BY <3>1, <3>2
  <2> QED BY <2>2, <2>3
<1> QED BY <1>1, Invariants, AloneCorrect, PTL

\* A worktree is never removed on a node under a live copy of its job, unless that
\* may be a second one: the exception is that of OneCopyEach.
THEOREM TreeIsLastToGo == Spec => TreeOutlivesCopy
<1> DEFINE Outlived == \A n \in Node : \A j \in tree[n] \ tree'[n] :
                         LiveCopies(j, n) = {} \/ Twice(j)
<1>1. ASSUME TypeOK, RemoteInv, AloneInv, TwiceInv, [Next]_vars PROVE [Outlived]_vars
  <2> SUFFICES ASSUME NEW n \in Node, NEW j \in tree[n] \ tree'[n], "twice" \notin hist[j]
               PROVE  LiveCopies(j, n) = {}
    BY <1>1, TreeStep DEF Twice, TwiceInv, TwiceIsCut
  <2>1. j \in Job /\ Remote(j) /\ row[j].node = n /\ ~Live(Entry(j))
    BY <1>1, TreeStep
  <2>2. row[j].id \in 1..MaxCopies
    BY <1>1, <2>1 DEF Remote, TypeOK, Row, RemoteInv, PlacedIsNamed, Names
  <2>3. Settled(j, n, row[j].id)
    BY <1>1, <2>1, <2>2 DEF AloneInv, AloneOn, Followed
  <2>4. row[j].id \notin LiveCopies(j, n)
    BY <2>1 DEF LiveCopies, Entry
  <2> QED BY <2>3, <2>4 DEF Settled
<1> QED BY <1>1, Invariants, AloneCorrect, PTL DEF Spec, TreeOutlivesCopy

\* The results of a job that succeeded on a node are home before its row says so,
\* unless their collection failed and was logged, or they are older than the claim.
THEOREM ResultsComeFirst == Spec => []HomeBeforeFinish
<1>1. Spec => []HomeInv
  <2>1. AloneInv => WaitedIsOurs
    BY DEF AloneInv
  <2> QED BY <2>1, Invariants, AloneCorrect, HomeInit, HomeStep, PTL DEF Spec
<1>2. HomeInv => HomeBeforeFinish
  BY DEF HomeInv
<1> QED BY <1>1, <1>2, PTL
=============================================================================
