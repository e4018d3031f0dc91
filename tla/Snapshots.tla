------------------------------ MODULE Snapshots ------------------------------
(****************************************************************************)
(* The frozen source of a job, from its submission to its removal: a commit *)
(* kept by a ref, a worktree under the state directory, and junctions in it *)
(* that lead to the user's own data (snapshot.py, GPUQService.submit).  The *)
(* dispatcher's cleaner thread and `workerq cleanup' list what may go       *)
(* (build_plan) and remove it afterwards, entry by entry (execute_plan),    *)
(* while jobs are submitted, run, end and are given up (cleanup.py).        *)
(*                                                                          *)
(* Time is the age of a job since it ended, in ticks longer than a process  *)
(* takes to die once it was told to.  Git removes a commit that neither a   *)
(* ref nor a worktree holds whenever it likes, and a recursive removal may  *)
(* walk through a junction, as staging.py:576 records.  Links, removals and *)
(* refs are best effort: most of these steps may fail without a word, and   *)
(* the next one runs all the same.  Jobs that failed, were cancelled or     *)
(* were lost are all FAILED here: retention treats them alike, and none of  *)
(* them is ever queued again.                                               *)
(****************************************************************************)
EXTENDS JobStates, Naturals, FiniteSets

CONSTANTS Jobs,       \* how many jobs are submitted: their ids are 1..Jobs
          Cleaner,    \* the cleaner threads and the processes of `workerq cleanup'
          Linked,     \* jobs whose passthrough has a directory of live data
          Refusable,  \* those of them with a later entry that may be refused
          Unlucky,    \* jobs a mishap may befall: a step of their submission or of a
                      \* removal fails, its process is killed, or they are given up
          RetainOk,   \* cleanup_successful_snapshots_after_days, in ticks
          RetainBad,  \* cleanup_failed_snapshots_after_days
          Grace,      \* COUNT_CAP_GRACE_SECONDS
          Keep,       \* keep_recent_snapshots
          OlderThan,  \* values given to --older-than
          Horizon,    \* bound: ages are counted up to here
          MaxMishaps  \* bound: cleaners that die, and kinds of failures that nobody
                      \* hears of, in one behaviour

Job == 1..Jobs
NoJob == 0
Never == "never"      \* no row in the jobs table yet

ASSUME SnapshotsAssumption ==
  /\ Jobs \in Nat /\ Keep \in Nat /\ Horizon \in Nat /\ MaxMishaps \in Nat
  /\ Refusable \subseteq Linked /\ Linked \subseteq Job /\ Unlucky \subseteq Job
  /\ Cleaner \cap Job = {}
  /\ {RetainOk, RetainBad} \subseteq 0..Horizon /\ Grace \in 1..Horizon
  /\ OlderThan \subseteq Nat

VARIABLES
  row,     \* jobs.state
  known,   \* the jobs whose snapshot_path is recorded
  age,     \* ticks since finished_at
  submit,  \* where the submission of each job is
  commit,  \* the snapshot commits the repository has
  ref,     \* refs/gpuq/snapshots/<id>
  tree,    \* the worktree: absent, part of it, whole
  links,   \* the jobs with a junction in their worktree
  alive,   \* the jobs with a process in their worktree
  todo,    \* what each cleaner has still to remove
  remove,  \* remove_snapshot: who is at which step with which job
  deaths,
  hist     \* history: jobs whose live data went, those with a process that a
           \* user, or its own failing submission, forced out, and the slips

rowVars  == <<row, known, age>>
repoVars == <<commit, ref>>
treeVars == <<tree, links>>
cleanVars == <<todo, remove, deaths>>
vars == <<rowVars, submit, repoVars, treeVars, alive, cleanVars, hist>>

\* A submission that fails removes what it made; so do cleaners.
Remover == Job \cup Cleaner
SubmitPc == {"idle", "commit", "anchor", "add", "link", "more", "record", "queue", "queued",
             "undo", "unref", "fail", "reject", "tidy", "failed", "done", "crashed"}
RemoveStep == {"idle", "detach", "git", "rest", "unref"}
NoRemoval  == [step |-> "idle", job |-> NoJob]

\* What failed without a word: to make a junction, to detach it, to remove a
\* worktree, to delete a ref.
Slip == Job \X {"link", "detach", "tree", "ref"}
Slipped(j, what) == <<j, what>> \in hist.slips
MaySlip(j, what) ==
  j \in Unlucky /\ deaths + Cardinality(hist.slips \cup {<<j, what>>}) <= MaxMishaps
Slips(j, what) ==
  MaySlip(j, what) /\ hist' = [hist EXCEPT !.slips = @ \cup {<<j, what>>}]

Init ==
  /\ row = [j \in Job |-> Never] /\ known = {} /\ age = [j \in Job |-> 0]
  /\ submit = [j \in Job |-> "idle"]
  /\ commit = {} /\ ref = {}
  /\ tree = [j \in Job |-> "absent"] /\ links = {}
  /\ alive = {}
  /\ todo = [c \in Cleaner |-> {}]
  /\ remove = [r \in Remover |-> NoRemoval]
  /\ deaths = 0
  /\ hist = [wiped |-> {}, forced |-> {}, slips |-> {}]

Ended(j) == row[j] \in TERMINAL_STATES

\* Finished snapshots that are still there.  Mutants: of any job; only those
\* that no removal has begun on.
Finished_or_not == {j \in known : tree[j] # "absent"}
Finished_whole  == {j \in known : Ended(j) /\ tree[j] = "whole"}
Finished == {j \in known : Ended(j) /\ tree[j] # "absent"}

----------------------------------------------------------------------------
(* GPUQService.submit and create_git_snapshot.                              *)

At(j, pc) == submit[j] = pc
Go(j, pc) == submit' = [submit EXCEPT ![j] = pc]

Insert(j) ==
  /\ At(j, "idle") /\ Go(j, "commit")
  /\ row' = [row EXCEPT ![j] = "PREPARING"]
  /\ UNCHANGED <<known, age, repoVars, treeVars, alive, cleanVars, hist>>

\* read-tree, add -A, write-tree and commit-tree on a temporary index.
Commit(j) ==
  /\ At(j, "commit")
  /\ \/ Go(j, "anchor") /\ commit' = commit \cup {j}
     \/ j \in Unlucky /\ Go(j, "undo") /\ UNCHANGED commit
  /\ UNCHANGED <<rowVars, ref, treeVars, alive, cleanVars, hist>>

Anchor(j) ==
  /\ At(j, "anchor")
  /\ IF j \in commit THEN Go(j, "add") /\ ref' = ref \cup {j}
                     ELSE Go(j, "undo") /\ UNCHANGED ref
  /\ UNCHANGED <<rowVars, commit, treeVars, alive, cleanVars, hist>>

\* _add_worktree: after some retries there is a worktree, or an error and
\* perhaps a part of one.
AddWorktree(j) ==
  /\ At(j, "add")
  /\ \/ /\ j \in commit /\ Go(j, "link")
        /\ tree' = [tree EXCEPT ![j] = "whole"]
     \/ /\ j \in Unlucky \/ j \notin commit
        /\ Go(j, "undo")
        /\ \E left \in {"absent", "part"} : tree' = [tree EXCEPT ![j] = left]
  /\ UNCHANGED <<rowVars, repoVars, links, alive, cleanVars, hist>>

\* apply_passthrough: the entries in their order.  One that cannot be linked is
\* skipped, and is missing from what the row records.
Link(j) ==
  /\ At(j, "link") /\ Go(j, "more")
  /\ \/ links' = links \cup ({j} \cap Linked) /\ UNCHANGED hist
     \/ j \in Linked /\ Slips(j, "link") /\ UNCHANGED links
  /\ UNCHANGED <<rowVars, repoVars, tree, alive, cleanVars>>
LinkMore(j) ==
  /\ At(j, "more")
  /\ \/ Go(j, "record")
     \/ j \in Refusable /\ Go(j, "undo")
  /\ UNCHANGED <<rowVars, repoVars, treeVars, alive, cleanVars, hist>>

\* What a recursive removal may take with it: the data behind a junction.
Wiped(j) == IF tree[j] = "absent" THEN {} ELSE links \cap {j}

\* A directory a process works in cannot be removed as a whole.
Removed(j) == IF tree[j] = "absent" THEN "absent" ELSE IF j \in alive THEN "part" ELSE "absent"

\* A recursive removal, and one that breaks off, perhaps before it has come to
\* the junction.
Clears(j) ==
  /\ tree' = [tree EXCEPT ![j] = Removed(j)] /\ links' = links \ {j}
  /\ \E gone \in SUBSET Wiped(j) : hist' = [hist EXCEPT !.wiped = @ \cup gone]
BreaksOff(j) ==
  /\ MaySlip(j, "tree") /\ tree[j] # "absent"
  /\ \E left \in {tree[j], "part"} : tree' = [tree EXCEPT ![j] = left]
  /\ \E met \in SUBSET Wiped(j) : \E gone \in SUBSET met :
       /\ links' = links \ met
       /\ hist' = [hist EXCEPT !.wiped = @ \cup gone, !.slips = @ \cup {<<j, "tree">>}]

\* Mutant: what was half built is left.
Undo_nothing(j) ==
  /\ At(j, "undo") /\ Go(j, "unref")
  /\ UNCHANGED <<rowVars, repoVars, treeVars, alive, cleanVars, hist>>

\* The except branch of create_git_snapshot: git and rmtree, and then the ref.
\* A git that takes too long leaves rmtree out; no error of either is heard of.
Undo(j) ==
  /\ At(j, "undo") /\ Go(j, "unref")
  /\ Clears(j) \/ BreaksOff(j)
  /\ UNCHANGED <<rowVars, repoVars, alive, cleanVars>>
UndoRef(j) ==
  /\ At(j, "unref") /\ Go(j, "fail")
  /\ \/ ref' = ref \ {j} /\ UNCHANGED hist
     \/ Slips(j, "ref") /\ UNCHANGED ref
  /\ UNCHANGED <<rowVars, commit, treeVars, alive, cleanVars>>
Fail(j) ==
  /\ At(j, "fail") /\ Go(j, "failed")
  /\ row' = [row EXCEPT ![j] = TryUpdate(@, "FAILED")]
  /\ UNCHANGED <<known, age, repoVars, treeVars, alive, cleanVars, hist>>

\* snapshot_path is written whatever the state of the row; the preflight
\* check may refuse the command before that.
Record(j) ==
  /\ At(j, "record")
  /\ \/ Go(j, "queue") /\ known' = known \cup {j}
     \/ j \in Unlucky /\ Go(j, "reject") /\ UNCHANGED known
  /\ UNCHANGED <<row, age, repoVars, treeVars, alive, cleanVars, hist>>

\* The backend refuses the job, or the row has been given up, or it is queued.
Queue(j) ==
  /\ At(j, "queue")
  /\ \/ /\ can_transition(row[j], "QUEUED") /\ Go(j, IF j \in Unlucky THEN "queued" ELSE "done")
        /\ row' = [row EXCEPT ![j] = "QUEUED"]
     \/ /\ j \in Unlucky \/ ~can_transition(row[j], "QUEUED")
        /\ Go(j, "reject") /\ UNCHANGED row
  /\ UNCHANGED <<known, age, repoVars, treeVars, alive, cleanVars, hist>>

\* The manifest is written, and the job is submitted.
Submitted(j) ==
  /\ At(j, "queued") /\ Go(j, "done")
  /\ UNCHANGED <<rowVars, repoVars, treeVars, alive, cleanVars, hist>>

\* The except branch of submit; a job that is queued already may have started.
Reject(j) ==
  /\ submit[j] \in {"reject", "queued"} /\ Go(j, "tidy")
  /\ hist' = [hist EXCEPT !.forced = @ \cup ({j} \cap alive)]
  /\ row' = [row EXCEPT ![j] = TryUpdate(@, "FAILED")]
  /\ remove' = [remove EXCEPT ![j] =
       [step |-> IF tree[j] = "absent" THEN "unref" ELSE "detach", job |-> j]]
  /\ UNCHANGED <<known, age, repoVars, treeVars, alive, todo, deaths>>

\* The submitting process is killed; once the job is queued that is as good as
\* the end of the submission.
SubmitDies(j) ==
  /\ j \in Unlucky
  /\ submit[j] \notin {"idle", "queued", "done", "failed", "crashed"} /\ Go(j, "crashed")
  /\ remove' = [remove EXCEPT ![j] = NoRemoval]
  /\ UNCHANGED <<rowVars, repoVars, treeVars, alive, todo, deaths, hist>>

----------------------------------------------------------------------------
(* The job: what happens to its row and its process (see Lifecycle).        *)

Writes(j, s) == row' = [row EXCEPT ![j] = s]

Starts(j) ==
  /\ row[j] = "QUEUED" /\ Writes(j, "RUNNING") /\ alive' = alive \cup {j}
  /\ UNCHANGED <<known, age, submit, repoVars, treeVars, cleanVars, hist>>
Displaced(j) ==
  /\ row[j] = "RUNNING" /\ Writes(j, "QUEUED") /\ alive' = alive \ {j}
  /\ UNCHANGED <<known, age, submit, repoVars, treeVars, cleanVars, hist>>
Ends(j) ==
  /\ row[j] = "RUNNING"
  /\ \E s \in {"SUCCEEDED", "FAILED"} : Writes(j, s)
  /\ alive' = alive \ {j}
  /\ UNCHANGED <<known, age, submit, repoVars, treeVars, cleanVars, hist>>
\* Cancelled or lost: the row is terminal, its process not yet gone.
GivenUp(j) ==
  /\ j \in Unlucky /\ row[j] \in {"QUEUED", "RUNNING"} /\ Writes(j, "FAILED")
  /\ UNCHANGED <<known, age, submit, repoVars, treeVars, alive, cleanVars, hist>>
Gone(j) ==
  /\ j \in alive /\ Ended(j) /\ alive' = alive \ {j}
  /\ UNCHANGED <<rowVars, submit, repoVars, treeVars, cleanVars, hist>>
\* _reconcile_job: a submission that takes longer than five minutes.
StalePreparing(j) ==
  /\ j \in Unlucky /\ row[j] = "PREPARING" /\ Writes(j, "FAILED")
  /\ UNCHANGED <<known, age, submit, repoVars, treeVars, alive, cleanVars, hist>>

\* Ages matter for as long as there is, or may be, something to remove.
Ages(j) == /\ Ended(j) /\ age[j] < Horizon
           /\ tree[j] # "absent" \/ submit[j] \notin {"done", "failed", "crashed"}
Tick ==
  /\ \A j \in alive : ~Ended(j)
  /\ age' = [j \in Job |-> IF Ages(j) THEN age[j] + 1 ELSE age[j]]
  /\ age' # age
  /\ UNCHANGED <<row, known, submit, repoVars, treeVars, alive, cleanVars, hist>>

\* git gc, in the user's repository, while somebody may still want the commit.
Gc(j) ==
  /\ ~Ended(j) \/ At(j, "anchor")
  /\ j \in commit \ ref /\ tree[j] = "absent"
  /\ commit' = commit \ {j}
  /\ UNCHANGED <<rowVars, submit, ref, treeVars, alive, cleanVars, hist>>

----------------------------------------------------------------------------
(* build_plan.                                                              *)

Retention(j) == IF row[j] = "FAILED" THEN RetainBad ELSE RetainOk

\* The age limit: --older-than in place of the retention of the outcome.
Limit(j, older) == IF older = {} THEN Retention(j) ELSE CHOOSE t \in older : TRUE
Expired(older)  == {j \in Finished : age[j] >= Limit(j, older)}

\* The count cap, over the jobs the age limit keeps: sorted by age, in the
\* order of list_jobs (newest id first) where ages are equal.
Younger(j, older) ==
  {k \in Finished \ Expired(older) : age[k] < age[j] \/ (age[k] = age[j] /\ k > j)}
\* Mutant: the grace period is forgotten.
Surplus_at_once(older) ==
  {j \in Finished \ Expired(older) : Cardinality(Younger(j, older)) >= Keep}
Surplus(older) ==
  {j \in Finished \ Expired(older) : Cardinality(Younger(j, older)) >= Keep /\ age[j] >= Grace}

\* A directory no row names; its age is that of a submission in flight.
OrphanDirs == {j \in Job : row[j] = Never /\ tree[j] # "absent"}

Proposed(older) == Expired(older) \cup Surplus(older) \cup OrphanDirs

Plan(c) ==
  /\ todo[c] = {} /\ remove[c] = NoRemoval
  /\ \E older \in SUBSET OlderThan :
       /\ Cardinality(older) <= 1 /\ Proposed(older) # {}
       /\ todo' = [todo EXCEPT ![c] = Proposed(older)]
       /\ hist' = IF older = {} THEN hist
                  ELSE [hist EXCEPT !.forced = @ \cup (Proposed(older) \cap alive)]
  /\ UNCHANGED <<rowVars, submit, repoVars, treeVars, alive, remove, deaths>>

----------------------------------------------------------------------------
(* execute_plan, and remove_snapshot step by step.  A git that takes too    *)
(* long ends the removal of that job: no different from steps that are      *)
(* taken and fail.                                                          *)

Execute(c) ==
  /\ remove[c] = NoRemoval
  /\ \E j \in todo[c] :
       /\ todo' = [todo EXCEPT ![c] = @ \ {j}]
       /\ remove' = [remove EXCEPT ![c] =
            [step |-> IF tree[j] = "absent" THEN "unref" ELSE "detach", job |-> j]]
  /\ UNCHANGED <<rowVars, submit, repoVars, treeVars, alive, deaths, hist>>

Doing(r, step) == remove[r].step = step
Then(r, step)  == remove' = [remove EXCEPT ![r].step = step]
Of(r) == remove[r].job

\* Mutant: git is left to deal with the junctions.
Detach_not(r) ==
  /\ Doing(r, "detach") /\ Then(r, "git")
  /\ UNCHANGED <<rowVars, submit, repoVars, treeVars, alive, todo, deaths, hist>>

\* unlink_reparse_points, which passes over what it cannot list or unlink.
Detach(r) ==
  /\ Doing(r, "detach") /\ Then(r, "git")
  /\ \/ links' = links \ {Of(r)} /\ UNCHANGED hist
     \/ Of(r) \in links /\ Slips(Of(r), "detach") /\ UNCHANGED links
  /\ UNCHANGED <<rowVars, submit, repoVars, tree, alive, todo, deaths>>

\* git worktree remove --force, which may fail, with its status ignored.
GitRemove(r) ==
  /\ Doing(r, "git") /\ Then(r, "rest")
  /\ Clears(Of(r)) \/ BreaksOff(Of(r)) \/ UNCHANGED <<treeVars, hist>>
  /\ UNCHANGED <<rowVars, submit, repoVars, alive, todo, deaths>>

\* _rmtree_no_follow detaches once more, or cannot, and removes what is left,
\* or a part of it; then the worktrees are pruned.
RemoveRest(r) ==
  /\ Doing(r, "rest") /\ Then(r, "unref")
  /\ Clears(Of(r)) \/ BreaksOff(Of(r))
  /\ UNCHANGED <<rowVars, submit, repoVars, alive, todo, deaths>>

DropRef(r) ==
  /\ Doing(r, "unref")
  /\ \/ ref' = ref \ {Of(r)} /\ UNCHANGED hist
     \/ Slips(Of(r), "ref") /\ UNCHANGED ref
  /\ remove' = [remove EXCEPT ![r] = NoRemoval]
  /\ IF r \in Job THEN Go(r, "failed") ELSE UNCHANGED submit
  /\ UNCHANGED <<rowVars, commit, treeVars, alive, todo, deaths>>

\* The dispatcher exits under its cleaner thread, or the command is stopped.
CleanerDies(c) ==
  /\ todo[c] # {} \/ remove[c] # NoRemoval
  /\ deaths + Cardinality(hist.slips) < MaxMishaps /\ deaths' = deaths + 1
  /\ todo' = [todo EXCEPT ![c] = {}] /\ remove' = [remove EXCEPT ![c] = NoRemoval]
  /\ UNCHANGED <<rowVars, submit, repoVars, treeVars, alive, hist>>

----------------------------------------------------------------------------
Submits(j) == \/ Insert(j) \/ Commit(j) \/ Anchor(j) \/ AddWorktree(j) \/ Link(j) \/ LinkMore(j)
              \/ Undo(j) \/ UndoRef(j) \/ Fail(j) \/ Record(j) \/ Queue(j)
              \/ Submitted(j) \/ Reject(j) \/ SubmitDies(j)
Lives(j)   == \/ Starts(j) \/ Displaced(j) \/ Ends(j) \/ GivenUp(j) \/ Gone(j)
              \/ StalePreparing(j) \/ Gc(j)
Removes(r) == Detach(r) \/ GitRemove(r) \/ RemoveRest(r) \/ DropRef(r)
Cleans(c)  == Plan(c) \/ Execute(c) \/ CleanerDies(c)

Next == \/ \E j \in Job : Submits(j) \/ Lives(j)
        \/ \E r \in Remover : Removes(r)
        \/ \E c \in Cleaner : Cleans(c)
        \/ Tick

Spec == Init /\ [][Next]_vars

\* The cleaner thread comes round every ten minutes for as long as there is a
\* dispatcher, and a removal once begun goes on; what git cannot remove today,
\* because a file is open or the disk is slow, it can remove one day; time
\* passes; a process that was told to stop is gone within the grace period of
\* the cancellation.
GitClears(j) == \E c \in Cleaner : Of(c) = j /\ Clears(j) /\ GitRemove(c)
FairSpec ==
  /\ Spec
  /\ \A c \in Cleaner : WF_vars(Plan(c) \/ Execute(c) \/ Removes(c))
  /\ \A j \in Job : SF_vars(GitClears(j)) /\ WF_vars(Gone(j))
  /\ WF_vars(Tick)

----------------------------------------------------------------------------
(* Properties.                                                              *)

\* Every variable keeps its type.
TypeOK ==
  /\ row \in [Job -> JobState \cup {Never}] /\ known \subseteq Job
  /\ age \in [Job -> 0..Horizon] /\ submit \in [Job -> SubmitPc]
  /\ commit \subseteq Job /\ ref \subseteq Job /\ links \subseteq Job /\ alive \subseteq Job
  /\ tree \in [Job -> {"absent", "part", "whole"}]
  /\ todo \in [Cleaner -> SUBSET Job] /\ deaths \in Nat
  /\ remove \in [Remover -> [step : RemoveStep, job : Job \cup {NoJob}]]
  /\ hist \in [wiped : SUBSET Job, forced : SUBSET Job, slips : SUBSET Slip]

\* "A job submitted at source state S runs S" (snapshot.py): from the moment a
\* job is queued until it has ended, displacements included, its worktree is
\* whole, the links that could be made are in place, and its commit is there and
\* kept by its ref, whatever list a cleaner works off and whatever git collects.
Built(j) ==
  /\ tree[j] = "whole" /\ j \in ref \cap commit
  /\ j \in links \/ j \notin Linked \/ Slipped(j, "link")
SourceReady == \A j \in Job : row[j] \in {"QUEUED", "RUNNING"} => Built(j)

\* A worktree is not taken from under a process of its job, although the row
\* is terminal before the process is gone, unless a user forced it out with
\* --older-than, or the submission failed after the job was queued, or the
\* configuration retains nothing of a job that ended like this one.
AtOnce(j) == Ended(j) /\ Retention(j) = 0
TreeOutlivesProcess ==
  \A j \in alive : tree[j] = "whole" \/ j \in hist.forced \/ AtOnce(j)

\* A submission that failed and lived to say so leaves neither a worktree nor
\* a ref, a cleaner at work on the same job or not, unless the job had started
\* or a removal of the worktree broke off, or the deletion of the ref failed.
NothingHalfBuilt ==
  \A j \in Job : submit[j] = "failed" =>
    /\ j \notin ref \/ Slipped(j, "ref")
    /\ tree[j] = "absent" \/ j \in hist.forced \/ Slipped(j, "tree")

\* Removing a snapshot never removes the data its junctions lead to, on any path
\* but two: of a submission whose passthrough was refused half-way, and with a
\* junction that could not be detached, which does not stop the removal.
DataSafe == \A j \in hist.wiped : j \in Refusable \/ Slipped(j, "detach")

\* snapshot.py:419: junctions "must be unlinked *before* anything recursive
\* runs - including git's own removal".
DetachedFirst == hist.wiped = {}

\* What SourceReady, TreeOutlivesProcess, NothingHalfBuilt and DataSafe rest on:
\* what is there at each step of a submission, and that whatever a cleaner or a
\* failed submission removes has ended, is recorded or its own, and has no
\* process unless that may be.
Freed(j) == j \in hist.forced \/ AtOnce(j)
Making == {"idle", "commit", "anchor", "add", "link", "more", "record", "undo", "unref", "fail"}
Through == {"queued", "done"}
SubmitInv(j) ==
  /\ row[j] = Never <=> submit[j] = "idle"
  /\ j \in known => submit[j] \notin Making
  /\ submit[j] \in {"idle", "commit", "anchor"} => tree[j] = "absent"
  /\ submit[j] \in {"unref", "fail"} => tree[j] = "absent" \/ Slipped(j, "tree")
  /\ submit[j] = "failed" => tree[j] = "absent" \/ j \in hist.forced \/ Slipped(j, "tree")
  /\ submit[j] \in {"add", "link", "more", "record"} => j \in ref \cap commit
  /\ submit[j] \in {"link", "more", "record"} => tree[j] = "whole"
  /\ submit[j] \in {"more", "record"} => Built(j)
  /\ submit[j] = "queue" /\ row[j] = "PREPARING" => Built(j)
  /\ submit[j] = "tidy" => Ended(j)
  /\ submit[j] \in {"fail", "failed"} => j \notin ref \/ Slipped(j, "ref")
LinkInv(j) ==
  j \in links => /\ submit[j] \notin {"idle", "commit", "anchor", "add", "link"}
                 /\ submit[j] = "undo" => j \in Refusable
RunInv(j) ==
  /\ row[j] \in {"QUEUED", "RUNNING"} => submit[j] \in Through /\ Built(j)
  /\ ~Ended(j) => age[j] = 0
  /\ j \in alive => /\ age[j] = 0
                    /\ submit[j] \in Through \/ (j \in hist.forced /\ submit[j] \in {"tidy", "failed", "crashed"})
                    /\ Ended(j) \/ row[j] = "RUNNING"
                    /\ tree[j] = "whole" \/ Freed(j)
MayRemove(j) == Ended(j) /\ j \in known /\ (j \in alive => Freed(j))
RemoveInv ==
  /\ \A r \in Remover : remove[r].step # "idle" => remove[r].job \in Job
  /\ \A c \in Cleaner, j \in Job :
       j \in todo[c] \/ (remove[c].step # "idle" /\ remove[c].job = j) => MayRemove(j)
  /\ \A j \in Job : remove[j].step # "idle" =>
       /\ submit[j] = "tidy" /\ remove[j].job = j
       /\ remove[j].step = "unref" => tree[j] = "absent" \/ j \in hist.forced \/ Slipped(j, "tree")
  /\ \A r \in Remover, j \in Job : remove[r].step \in {"git", "rest"} /\ remove[r].job = j =>
       j \notin links \/ Slipped(j, "detach")
SnapInv ==
  /\ TypeOK
  /\ \A j \in Job : SubmitInv(j) /\ LinkInv(j) /\ RunInv(j)
  /\ RemoveInv
  /\ DataSafe

\* Retention reaches every recorded snapshot of a job that ended: its worktree
\* is gone in the end, although cleaners die half-way.
Reclaimed == \A j \in Job : (j \in known /\ Ended(j)) ~> tree[j] = "absent"
=============================================================================
