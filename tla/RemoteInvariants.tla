-------------------------- MODULE RemoteInvariants --------------------------
(****************************************************************************)
(* The inductive invariants behind the theorems of RemotePlacement: what a  *)
(* row, a call or an answer may take for granted about the node's table.    *)
(****************************************************************************)
EXTENDS RemotePlacement

\* The job id on node n stands for job j.
Names(j, n, id) == id \in DOMAIN copy[n] /\ copy[n][id].job = j

\* A row that was placed was claimed for a job of that label, and stays with it.
PlacedIsNamed ==
  \A j \in Job : row[j].node # Local =>
    /\ row[j].state \in {"RUNNING", "FINISHED"}
    /\ Names(j, row[j].node, row[j].id)

\* So does the answer on its way, and the one that has arrived.
AnswerIsNamed ==
  /\ \A s \in Submission : spec[s].step = "reply" => Names(spec[s].job, spec[s].node, spec[s].id)
  /\ call.op = "claim" => Names(call.job, call.node, call.id)

\* What is brought home has ended on its node, and its row is still running.
SettledIsOver ==
  call.op \in {"collect", "drop", "finish"} => Remote(call.job) /\ ~Live(Entry(call.job))

\* Without an exit code a job of ours has not succeeded.
SuccessHasCode ==
  \A n \in Node : \A id \in DOMAIN copy[n] :
    copy[n][id].job # Own /\ copy[n][id].state = "SUCCEEDED" => copy[n][id].code # NoCode

\* A process of _submit-spec is waited for, or its caller has given up.
AwaitedOrCut ==
  \A s \in Submission : spec[s] # NoSpec =>
    "cut" \in hist[spec[s].job] \/ call = Submitting(spec[s].job, s)

\* A live copy that was not told to stop is followed: by its row, or by the
\* answer that is about to become one.  This is NoOrphan, made precise.
AnswerOf(j, n, id) == [job |-> j, node |-> n, step |-> "reply", id |-> id]
Followed(j, n, id) ==
  \/ Remote(j) /\ row[j].node = n /\ row[j].id = id
  \/ call = Submitted(j, n, id)
  \/ call.op = "submit" /\ spec[call.slot] = AnswerOf(j, n, id)
Excused(n, id) ==
  LET c == copy[n][id] IN c.job = Own \/ ~Live(c) \/ c.stop \/ "cut" \in hist[c.job]
LiveIsFollowed ==
  \A n \in Node : \A id \in DOMAIN copy[n] : Excused(n, id) \/ Followed(copy[n][id].job, n, id)

\* The row, the call, the answers and the table of a node agree; this is what
\* makes a verdict that of the right job, and leaves no copy without a row.
RemoteInv == /\ PlacedIsNamed  /\ AnswerIsNamed  /\ SettledIsOver /\ SuccessHasCode
             /\ EndedOnItsNode /\ AwaitedOrCut   /\ LiveIsFollowed

----------------------------------------------------------------------------
(* One copy at a time, unless two submissions of a job were at work on the  *)
(* node at once, or one did not see what was there; and neither of these    *)
(* comes about before an answer was lost.                                   *)

\* A process that may still give node n another copy of job j.
Pending(s, j, n) == spec[s].step \in {"check", "insert"} /\ spec[s].job = j /\ spec[s].node = n

\* The dispatcher waits for a process that works for the job it thinks of.
WaitedIsOurs ==
  call.op = "submit" => spec[call.slot] # NoSpec /\ spec[call.slot].job = call.job

\* Once an id was answered it is the only copy that lives there, and none comes.
Settled(j, n, id) ==
  /\ LiveCopies(j, n) \subseteq {id}
  /\ \A s \in Submission : ~Pending(s, j, n)

AloneOn(j, n) ==
  /\ \A a, b \in LiveCopies(j, n) : a = b
  /\ \A s, t \in Submission : Pending(s, j, n) /\ Pending(t, j, n) => s = t
  /\ \A s \in Submission : Pending(s, j, n) /\ spec[s].step = "insert" => LiveCopies(j, n) = {}
  /\ call.op = "submit" /\ call.job = j /\ spec[call.slot].node = n =>
       \A s \in Submission \ {call.slot} : ~Pending(s, j, n)
  /\ \A id \in 1..MaxCopies : Followed(j, n, id) => Settled(j, n, id)

AloneInv ==
  /\ WaitedIsOurs
  /\ \A j \in Job, n \in Node : "twice" \in hist[j] \/ AloneOn(j, n)

\* A job whose spec is on its way has no place yet, and none of its copies was
\* told to stop: that is for a row that has left the queue.
SentIsNew == call.op = "submit" => row[call.job].node = Local
StoppedIsNotSent ==
  \A n \in Node : \A id \in DOMAIN copy[n] : LET j == copy[n][id].job IN
    j # Own /\ copy[n][id].stop =>
      row[j].state # "QUEUED" /\ ~(call.op = "submit" /\ call.job = j)
TwiceIsCut == \A j \in Job : "twice" \in hist[j] => "cut" \in hist[j]
TwiceInv == SentIsNew /\ StoppedIsNotSent /\ TwiceIsCut

----------------------------------------------------------------------------
(* Results are home before the job is recorded as ended.                    *)

Zero(j)      == ~Live(Entry(j)) /\ Entry(j).code = "zero"
Accounted(j) == j \in home \/ hist[j] \cap {"uncollected", "early"} # {}
Fresh(j)     == j \in recent[row[j].node] /\ out[row[j].node][j] \cap {"tree", "clone"} # {}

\* Whoever is about to live on the node, or lives there, has a worktree to write to.
RunsInTree ==
  /\ \A j \in Job, n \in Node : \A id \in DOMAIN copy[n] :
       Followed(j, n, id) /\ Live(copy[n][id]) => j \in tree[n]
  /\ call.op = "submit" /\ spec[call.slot].step = "insert" =>
       spec[call.slot].job \in tree[spec[call.slot].node]

\* Only an end on the node gives a code.
LiveHasNoCode ==
  \A n \in Node : \A id \in DOMAIN copy[n] : Live(copy[n][id]) => copy[n][id].code = NoCode

HomeInv ==
  /\ RunsInTree /\ LiveHasNoCode
  /\ \A j \in Job : Remote(j) /\ Zero(j) => Accounted(j) \/ Fresh(j)
  /\ call.op \in {"drop", "finish"} /\ Zero(call.job) => Accounted(call.job)
  /\ HomeBeforeFinish
=============================================================================
