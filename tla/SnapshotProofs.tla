--------------------------- MODULE SnapshotProofs ---------------------------
(****************************************************************************)
(* Snapshots for any number of jobs and cleaners: what a queued or running  *)
(* job needs of its snapshot stays in place, worktrees outlive the          *)
(* processes in them, failed submissions leave nothing, and user data       *)
(* survives the removals, each with the exceptions that its property names. *)
(****************************************************************************)
EXTENDS Snapshots, TLAPS

LEMMA IdsAreNotCleaners == /\ Job \cap Cleaner = {} /\ Job \subseteq Nat /\ NoJob \notin Job
BY SnapshotsAssumption DEF Job, NoJob

\* What a plan lists has ended and was recorded; a process in it means that a
\* user named an age, or that nothing is retained of such a job.
LEMMA ProposedMayGo ==
  ASSUME SnapInv, NEW older \in SUBSET OlderThan, NEW j \in Proposed(older)
  PROVE  /\ j \in Job /\ Ended(j) /\ j \in known
         /\ j \in alive => older # {} \/ AtOnce(j)
<1>1. j \in Finished /\ (j \in Expired(older) \/ age[j] >= Grace)
  BY DEF SnapInv, SubmitInv, Proposed, Expired, Surplus, OrphanDirs, Finished
<1>2. j \in Job /\ Ended(j) /\ j \in known  BY <1>1 DEF SnapInv, TypeOK, Finished
<1>3. ASSUME j \in alive, older = {} PROVE AtOnce(j)
  <2>1. age[j] = 0  BY <1>2, <1>3 DEF SnapInv, RunInv
  <2>2. age[j] >= Retention(j)
    BY <1>1, <1>3, <2>1, SnapshotsAssumption DEF Expired, Limit
  <2> QED  BY <1>2, <2>1, <2>2, SnapshotsAssumption DEF AtOnce, Retention
<1> QED  BY <1>2, <1>3

\* Whatever is being removed has ended and was recorded, or is removed by its
\* own submission; no process is in it unless that may be.
LEMMA RemovalTarget ==
  ASSUME SnapInv, NEW r \in Remover, remove[r].step # "idle"
  PROVE  /\ Of(r) \in Job /\ Ended(Of(r)) /\ submit[Of(r)] \notin Making
         /\ Of(r) \in alive => Freed(Of(r))
         /\ r \in Job => /\ Of(r) = r /\ submit[r] = "tidy"
                         /\ r \in alive => r \in hist.forced
<1>1. CASE r \in Job
  <2>1. submit[r] = "tidy" /\ Of(r) = r  BY <1>1 DEF SnapInv, RemoveInv, Of
  <2>2. Ended(r) /\ (r \in alive => r \in hist.forced)
    BY <1>1, <2>1 DEF SnapInv, SubmitInv, RunInv, Through
  <2> QED  BY <1>1, <2>1, <2>2 DEF Making, Freed
<1>2. CASE r \in Cleaner
  <2>1. MayRemove(Of(r))  BY <1>2 DEF SnapInv, RemoveInv, Of
  <2>2. Of(r) \in Job  BY <2>1 DEF SnapInv, TypeOK, MayRemove
  <2>3. submit[Of(r)] \notin Making  BY <2>1, <2>2 DEF SnapInv, SubmitInv, MayRemove
  <2> QED  BY <1>2, <2>1, <2>2, <2>3, IdsAreNotCleaners DEF MayRemove
<1> QED  BY <1>1, <1>2 DEF Remover


----------------------------------------------------------------------------
(* Frames.  Every step is about one job at most: it leaves the others as    *)
(* they are, and what a history records stays recorded.                     *)

SlipKind == {"link", "detach", "tree", "ref"}
HistGrows == /\ hist.forced \subseteq hist'.forced
             /\ \A k \in Job, w \in SlipKind : Slipped(k, w) => Slipped(k, w)'
Same(k) == /\ row'[k] = row[k] /\ age'[k] = age[k]
           /\ submit'[k] = submit[k] /\ tree'[k] = tree[k]
           /\ (k \in known') = (k \in known) /\ (k \in commit') = (k \in commit)
           /\ (k \in ref') = (k \in ref) /\ (k \in links') = (k \in links)
           /\ (k \in alive') = (k \in alive)
OnlyAbout(j) == \A k \in Job \ {j} : Same(k)

\* A step that makes, links and runs, and removes nothing of what a removal is
\* at work on.
Mild(j) == /\ todo' = todo /\ remove' = remove
           /\ known \subseteq known' /\ hist'.wiped \subseteq hist.wiped \cup Refusable
           /\ Ended(j) => row'[j] = row[j]
           /\ j \in alive' => j \in alive \/ ~Ended(j)
           /\ j \in links' => j \in links \/ submit[j] \in Making
           /\ remove[j].step = "idle" \/ (submit'[j] = submit[j] /\ tree'[j] = tree[j])

LEMMA SameKeeps ==
  ASSUME SnapInv, HistGrows, NEW k \in Job, Same(k)
  PROVE  /\ SubmitInv(k)' /\ LinkInv(k)' /\ RunInv(k)'
         /\ MayRemove(k) => MayRemove(k)'
<1>1. SubmitInv(k) /\ LinkInv(k) /\ RunInv(k)  BY DEF SnapInv
<1>2. SubmitInv(k)'
  BY <1>1 DEF SubmitInv, Same, HistGrows, SlipKind, Built, Ended
<1>3. LinkInv(k)'
  BY <1>1 DEF LinkInv, Same
<1>4. Freed(k) => Freed(k)'
  BY DEF Freed, AtOnce, Retention, Ended, Same, HistGrows
<1>5. RunInv(k)'
  BY <1>1, <1>4 DEF RunInv, Same, HistGrows, SlipKind, Built, Ended
<1>6. MayRemove(k) => MayRemove(k)'
  BY <1>4 DEF MayRemove, Ended, Same
<1> QED  BY <1>2, <1>3, <1>5, <1>6

LEMMA OthersKeep ==
  ASSUME SnapInv, HistGrows, NEW j \in Job, OnlyAbout(j),
         SubmitInv(j)', LinkInv(j)', RunInv(j)', TypeOK', RemoveInv', DataSafe'
  PROVE  SnapInv'
<1>1. ASSUME NEW k \in Job PROVE SubmitInv(k)' /\ LinkInv(k)' /\ RunInv(k)'
  BY SameKeeps DEF OnlyAbout
<1> QED  BY <1>1 DEF SnapInv

\* What a removal may be about stays so when the job's terminal state does.
LEMMA MayRemoveStays ==
  ASSUME HistGrows, NEW j \in Job, MayRemove(j), row'[j] = row[j], known \subseteq known',
         j \in alive' => j \in alive
  PROVE  MayRemove(j)'
BY DEF HistGrows, MayRemove, Freed, AtOnce, Retention, Ended

LEMMA MildKeeps ==
  ASSUME SnapInv, HistGrows, NEW j \in Job, OnlyAbout(j), Mild(j),
         SubmitInv(j)', LinkInv(j)', RunInv(j)', TypeOK'
  PROVE  SnapInv'
<1>1. ASSUME NEW k \in Job, MayRemove(k) PROVE MayRemove(k)'
  <2>1. CASE k = j  BY <1>1, <2>1, MayRemoveStays DEF Mild, MayRemove
  <2>2. CASE k # j  BY <1>1, <2>2, SameKeeps DEF OnlyAbout
  <2> QED  BY <2>1, <2>2
<1>2. ASSUME NEW c \in Cleaner, NEW k \in Job,
             k \in todo'[c] \/ (remove'[c].step # "idle" /\ remove'[c].job = k)
      PROVE  MayRemove(k)'
  BY <1>1, <1>2 DEF SnapInv, RemoveInv, Mild
<1>3. ASSUME NEW k \in Job, remove'[k].step # "idle"
      PROVE  /\ submit'[k] = "tidy" /\ remove'[k].job = k
             /\ remove'[k].step = "unref" =>
                  tree'[k] = "absent" \/ k \in hist'.forced \/ Slipped(k, "tree")'
  BY <1>3 DEF SnapInv, RemoveInv, Mild, OnlyAbout, Same, HistGrows, SlipKind
<1>4. ASSUME NEW r \in Remover, NEW k \in Job,
             remove'[r].step \in {"git", "rest"}, remove'[r].job = k
      PROVE  k \notin links' \/ Slipped(k, "detach")'
  <2>1. remove[r].step \in {"git", "rest"} /\ Of(r) = k  BY <1>4 DEF Mild, Of
  <2>2. submit[k] \notin Making  BY <2>1, RemovalTarget
  <2>3. k \notin links \/ Slipped(k, "detach")  BY <2>1 DEF SnapInv, RemoveInv, Of
  <2> QED  BY <2>2, <2>3 DEF Mild, OnlyAbout, Same, HistGrows, SlipKind
<1>5. RemoveInv'  BY <1>2, <1>3, <1>4 DEF SnapInv, RemoveInv, Mild
<1>6. DataSafe'
  <2> SUFFICES ASSUME NEW k \in hist'.wiped PROVE k \in Refusable \/ Slipped(k, "detach")'
    BY DEF DataSafe
  <2> QED  BY DEF SnapInv, TypeOK, DataSafe, Mild, HistGrows, SlipKind
<1> QED  BY <1>5, <1>6, OthersKeep

\* A failure nobody hears of.
LEMMA SlipsGrow ==
  ASSUME TypeOK, NEW j \in Job, NEW w \in SlipKind, Slips(j, w)
  PROVE  /\ hist' \in [wiped : SUBSET Job, forced : SUBSET Job, slips : SUBSET Slip]
         /\ hist'.wiped = hist.wiped /\ hist'.forced = hist.forced
         /\ Slipped(j, w)' /\ HistGrows
<1>1. hist' = [hist EXCEPT !.slips = @ \cup {<<j, w>>}]  BY DEF Slips
<1>2. <<j, w>> \in Slip  BY DEF Slip, SlipKind
<1> QED  BY <1>1, <1>2 DEF TypeOK, Slipped, HistGrows

\* A recursive removal of the worktree of job j, complete or not.
LEMMA RemovalTakes ==
  ASSUME TypeOK, NEW j \in Job, Clears(j) \/ BreaksOff(j)
  PROVE  /\ tree' \in [Job -> {"absent", "part", "whole"}]
         /\ \A k \in Job \ {j} : tree'[k] = tree[k]
         /\ tree[j] = "absent" => tree'[j] = "absent"
         /\ tree'[j] = "absent" \/ j \in alive \/ Slipped(j, "tree")'
         /\ links' \subseteq links /\ links \subseteq links' \cup {j}
         /\ hist' \in [wiped : SUBSET Job, forced : SUBSET Job, slips : SUBSET Slip]
         /\ hist'.forced = hist.forced /\ HistGrows
         /\ hist.wiped \subseteq hist'.wiped
         /\ hist'.wiped \subseteq hist.wiped \cup (links \cap {j})
<1>1. Wiped(j) \subseteq links \cap {j}  BY DEF Wiped
<1>2. CASE Clears(j)
  <2>1. PICK gone \in SUBSET Wiped(j) : hist' = [hist EXCEPT !.wiped = @ \cup gone]
    BY <1>2 DEF Clears
  <2>2. /\ hist' \in [wiped : SUBSET Job, forced : SUBSET Job, slips : SUBSET Slip]
        /\ hist'.wiped = hist.wiped \cup gone /\ hist'.forced = hist.forced
        /\ hist'.slips = hist.slips
    BY <1>1, <2>1 DEF TypeOK
  <2>3. tree' = [tree EXCEPT ![j] = Removed(j)] /\ links' = links \ {j}  BY <1>2 DEF Clears
  <2>4. /\ tree' \in [Job -> {"absent", "part", "whole"}]
        /\ \A k \in Job \ {j} : tree'[k] = tree[k]
        /\ tree[j] = "absent" => tree'[j] = "absent"
        /\ tree'[j] = "absent" \/ j \in alive
    BY <2>3 DEF TypeOK, Removed
  <2>5. HistGrows  BY <2>2 DEF HistGrows, Slipped
  <2> QED  BY <1>1, <2>2, <2>3, <2>4, <2>5
<1>3. CASE BreaksOff(j)
  <2>1. PICK left \in {tree[j], "part"} : tree' = [tree EXCEPT ![j] = left]
    BY <1>3 DEF BreaksOff
  <2>2. PICK met \in SUBSET Wiped(j) : \E gone \in SUBSET met :
          /\ links' = links \ met
          /\ hist' = [hist EXCEPT !.wiped = @ \cup gone, !.slips = @ \cup {<<j, "tree">>}]
    BY <1>3 DEF BreaksOff
  <2>3. PICK gone \in SUBSET met :
          hist' = [hist EXCEPT !.wiped = @ \cup gone, !.slips = @ \cup {<<j, "tree">>}]
    BY <2>2
  <2>4. <<j, "tree">> \in Slip  BY DEF Slip
  <2>5. /\ hist' \in [wiped : SUBSET Job, forced : SUBSET Job, slips : SUBSET Slip]
        /\ hist'.wiped = hist.wiped \cup gone /\ hist'.forced = hist.forced
        /\ hist'.slips = hist.slips \cup {<<j, "tree">>}
    <3>1. gone \subseteq Job  BY <1>1, <2>2, <2>3
    <3>2. /\ hist.wiped \cup gone \in SUBSET Job
          /\ hist.slips \cup {<<j, "tree">>} \in SUBSET Slip
      BY <2>4, <3>1 DEF TypeOK
    <3>3. hist' = [wiped |-> hist.wiped \cup gone, forced |-> hist.forced,
                   slips |-> hist.slips \cup {<<j, "tree">>}]
      BY <2>3 DEF TypeOK
    <3> QED  BY <3>2, <3>3 DEF TypeOK
  <2>6. /\ tree' \in [Job -> {"absent", "part", "whole"}]
        /\ \A k \in Job \ {j} : tree'[k] = tree[k]
        /\ tree[j] # "absent"
    BY <1>3, <2>1 DEF TypeOK, BreaksOff
  <2>7. HistGrows /\ Slipped(j, "tree")'  BY <2>5 DEF HistGrows, Slipped
  <2>8. links' = links \ met /\ met \subseteq {j}  BY <1>1, <2>2
  <2> QED  BY <1>1, <2>2, <2>3, <2>5, <2>6, <2>7, <2>8
<1> QED  BY <1>2, <1>3

----------------------------------------------------------------------------
(* Submissions.                                                             *)

LEMMA InsertKeeps ==
  ASSUME SnapInv, NEW j \in Job, Insert(j)
  PROVE  SnapInv'
<1>1. TypeOK'
  BY DEF SnapInv, TypeOK, SubmitPc, RemoveStep, NoRemoval, Insert, At, Go, rowVars,
     repoVars, treeVars, cleanVars, JobState, TERMINAL_STATES, ACTIVE_STATES, Never
<1>2. OnlyAbout(j) /\ HistGrows
  BY DEF SnapInv, TypeOK, OnlyAbout, Same, HistGrows, Slipped, Insert, At, Go, rowVars,
     repoVars, treeVars, cleanVars
<1>3. SubmitInv(j)'
  BY <1>2 DEF SnapInv, TypeOK, SubmitInv, RunInv, HistGrows, SlipKind, Making, Built,
     Through, Ended, Insert, At, Go, rowVars, repoVars, treeVars, cleanVars, JobState,
     TERMINAL_STATES, ACTIVE_STATES, Never
<1>4. LinkInv(j)'
  BY DEF SnapInv, TypeOK, SubmitInv, LinkInv, RunInv, Through, Insert, At, Go, rowVars,
     repoVars, treeVars, cleanVars
<1>5. RunInv(j)'
  BY <1>2 DEF SnapInv, TypeOK, SubmitInv, RunInv, HistGrows, SlipKind, Built, Through,
     Freed, AtOnce, Retention, Ended, Insert, At, Go, rowVars, repoVars, treeVars, cleanVars,
     JobState, TERMINAL_STATES, ACTIVE_STATES, Never
<1>6. Mild(j)
  BY DEF SnapInv, TypeOK, SubmitInv, RunInv, RemoveInv, Mild, Making, Through, Ended,
     Insert, At, Go, rowVars, repoVars, treeVars, cleanVars, JobState, TERMINAL_STATES,
     ACTIVE_STATES, Never
<1> QED  BY <1>1, <1>2, <1>3, <1>4, <1>5, <1>6, MildKeeps

LEMMA CommitKeeps ==
  ASSUME SnapInv, NEW j \in Job, Commit(j)
  PROVE  SnapInv'
<1>1. TypeOK'
  BY DEF SnapInv, TypeOK, SubmitPc, RemoveStep, NoRemoval, Commit, At, Go, rowVars,
     repoVars, treeVars, cleanVars, JobState, TERMINAL_STATES, ACTIVE_STATES, Never
<1>2. OnlyAbout(j) /\ HistGrows
  BY DEF SnapInv, TypeOK, OnlyAbout, Same, HistGrows, Slipped, Commit, At, Go, rowVars,
     repoVars, treeVars, cleanVars
<1>3. SubmitInv(j)'
  BY <1>2 DEF SnapInv, TypeOK, SubmitInv, RunInv, HistGrows, SlipKind, Making, Built,
     Through, Ended, Commit, At, Go, rowVars, repoVars, treeVars, cleanVars, JobState,
     TERMINAL_STATES, ACTIVE_STATES, Never
<1>4. LinkInv(j)'
  BY DEF SnapInv, TypeOK, SubmitInv, LinkInv, RunInv, Through, Commit, At, Go, rowVars,
     repoVars, treeVars, cleanVars
<1>5. RunInv(j)'
  BY <1>2 DEF SnapInv, TypeOK, SubmitInv, RunInv, HistGrows, SlipKind, Built, Through,
     Freed, AtOnce, Retention, Ended, Commit, At, Go, rowVars, repoVars, treeVars, cleanVars,
     JobState, TERMINAL_STATES, ACTIVE_STATES, Never
<1>6. Mild(j)
  BY DEF SnapInv, TypeOK, SubmitInv, RunInv, RemoveInv, Mild, Making, Through, Ended,
     Commit, At, Go, rowVars, repoVars, treeVars, cleanVars, JobState, TERMINAL_STATES,
     ACTIVE_STATES, Never
<1> QED  BY <1>1, <1>2, <1>3, <1>4, <1>5, <1>6, MildKeeps

LEMMA AnchorKeeps ==
  ASSUME SnapInv, NEW j \in Job, Anchor(j)
  PROVE  SnapInv'
<1>1. TypeOK'
  BY DEF SnapInv, TypeOK, SubmitPc, RemoveStep, NoRemoval, Anchor, At, Go, rowVars,
     repoVars, treeVars, cleanVars, JobState, TERMINAL_STATES, ACTIVE_STATES, Never
<1>2. OnlyAbout(j) /\ HistGrows
  BY DEF SnapInv, TypeOK, OnlyAbout, Same, HistGrows, Slipped, Anchor, At, Go, rowVars,
     repoVars, treeVars, cleanVars
<1>3. SubmitInv(j)'
  BY <1>2 DEF SnapInv, TypeOK, SubmitInv, RunInv, HistGrows, SlipKind, Making, Built,
     Through, Ended, Anchor, At, Go, rowVars, repoVars, treeVars, cleanVars, JobState,
     TERMINAL_STATES, ACTIVE_STATES, Never
<1>4. LinkInv(j)'
  BY DEF SnapInv, TypeOK, SubmitInv, LinkInv, RunInv, Through, Anchor, At, Go, rowVars,
     repoVars, treeVars, cleanVars
<1>5. RunInv(j)'
  BY <1>2 DEF SnapInv, TypeOK, SubmitInv, RunInv, HistGrows, SlipKind, Built, Through,
     Freed, AtOnce, Retention, Ended, Anchor, At, Go, rowVars, repoVars, treeVars, cleanVars,
     JobState, TERMINAL_STATES, ACTIVE_STATES, Never
<1>6. Mild(j)
  BY DEF SnapInv, TypeOK, SubmitInv, RunInv, RemoveInv, Mild, Making, Through, Ended,
     Anchor, At, Go, rowVars, repoVars, treeVars, cleanVars, JobState, TERMINAL_STATES,
     ACTIVE_STATES, Never
<1> QED  BY <1>1, <1>2, <1>3, <1>4, <1>5, <1>6, MildKeeps

LEMMA AddWorktreeKeeps ==
  ASSUME SnapInv, NEW j \in Job, AddWorktree(j)
  PROVE  SnapInv'
<1>1. TypeOK'
  BY DEF SnapInv, TypeOK, SubmitPc, RemoveStep, NoRemoval, AddWorktree, At, Go, rowVars,
     repoVars, treeVars, cleanVars, JobState, TERMINAL_STATES, ACTIVE_STATES, Never
<1>2. OnlyAbout(j) /\ HistGrows
  BY DEF SnapInv, TypeOK, OnlyAbout, Same, HistGrows, Slipped, AddWorktree, At, Go,
     rowVars, repoVars, treeVars, cleanVars
<1>3. SubmitInv(j)'
  BY <1>2 DEF SnapInv, TypeOK, SubmitInv, RunInv, HistGrows, SlipKind, Making, Built,
     Through, Ended, AddWorktree, At, Go, rowVars, repoVars, treeVars, cleanVars, JobState,
     TERMINAL_STATES, ACTIVE_STATES, Never
<1>4. LinkInv(j)'
  BY DEF SnapInv, TypeOK, SubmitInv, LinkInv, RunInv, Through, AddWorktree, At, Go,
     rowVars, repoVars, treeVars, cleanVars
<1>5. RunInv(j)'
  BY <1>2 DEF SnapInv, TypeOK, SubmitInv, RunInv, HistGrows, SlipKind, Built, Through,
     Freed, AtOnce, Retention, Ended, AddWorktree, At, Go, rowVars, repoVars, treeVars,
     cleanVars, JobState, TERMINAL_STATES, ACTIVE_STATES, Never
<1>6. Mild(j)
  BY DEF SnapInv, TypeOK, SubmitInv, RunInv, RemoveInv, Mild, Making, Through, Ended,
     AddWorktree, At, Go, rowVars, repoVars, treeVars, cleanVars, JobState, TERMINAL_STATES,
     ACTIVE_STATES, Never
<1> QED  BY <1>1, <1>2, <1>3, <1>4, <1>5, <1>6, MildKeeps

LEMMA LinkKeeps ==
  ASSUME SnapInv, NEW j \in Job, Link(j)
  PROVE  SnapInv'
<1>1. /\ submit[j] = "link" /\ submit' = [submit EXCEPT ![j] = "more"]
      /\ links \subseteq links' /\ links' \subseteq links \cup ({j} \cap Linked)
      /\ j \in links' \/ j \notin Linked \/ Slipped(j, "link")'
      /\ hist' \in [wiped : SUBSET Job, forced : SUBSET Job, slips : SUBSET Slip]
      /\ hist'.wiped = hist.wiped /\ HistGrows
      /\ UNCHANGED <<row, known, age, commit, ref, tree, alive, todo, remove, deaths>>
  <2>1. CASE links' = links \cup ({j} \cap Linked) /\ UNCHANGED hist
    BY <2>1 DEF SnapInv, TypeOK, Link, At, Go, HistGrows, Slipped, rowVars, repoVars, cleanVars
  <2>2. CASE Slips(j, "link") /\ UNCHANGED links
    BY <2>2, SlipsGrow DEF SnapInv, Link, At, Go, SlipKind, rowVars, repoVars, cleanVars
  <2> QED  BY <2>1, <2>2 DEF Link
<1>2. TypeOK'  BY <1>1 DEF SnapInv, TypeOK, SubmitPc
<1>3. OnlyAbout(j)  BY <1>1 DEF SnapInv, TypeOK, OnlyAbout, Same
<1>4. SubmitInv(j)'  BY <1>1 DEF SnapInv, TypeOK, SubmitInv, HistGrows, SlipKind, Making, Built
<1>5. LinkInv(j)'  BY <1>1 DEF SnapInv, TypeOK, LinkInv
<1>6. RunInv(j)'  BY <1>1 DEF SnapInv, TypeOK, RunInv, Through, Ended, HistGrows
<1>7. Mild(j)  BY <1>1 DEF SnapInv, TypeOK, RemoveInv, Mild, Making
<1> QED  BY <1>1, <1>2, <1>3, <1>4, <1>5, <1>6, <1>7, MildKeeps

LEMMA LinkMoreKeeps ==
  ASSUME SnapInv, NEW j \in Job, LinkMore(j)
  PROVE  SnapInv'
<1>1. TypeOK'
  BY DEF SnapInv, TypeOK, SubmitPc, RemoveStep, NoRemoval, LinkMore, At, Go, rowVars,
     repoVars, treeVars, cleanVars, JobState, TERMINAL_STATES, ACTIVE_STATES, Never
<1>2. OnlyAbout(j) /\ HistGrows
  BY DEF SnapInv, TypeOK, OnlyAbout, Same, HistGrows, Slipped, LinkMore, At, Go, rowVars,
     repoVars, treeVars, cleanVars
<1>3. SubmitInv(j)'
  BY <1>2 DEF SnapInv, TypeOK, SubmitInv, RunInv, HistGrows, SlipKind, Making, Built,
     Through, Ended, LinkMore, At, Go, rowVars, repoVars, treeVars, cleanVars, JobState,
     TERMINAL_STATES, ACTIVE_STATES, Never
<1>4. LinkInv(j)'
  BY DEF SnapInv, TypeOK, SubmitInv, LinkInv, RunInv, Through, LinkMore, At, Go, rowVars,
     repoVars, treeVars, cleanVars
<1>5. RunInv(j)'
  BY <1>2 DEF SnapInv, TypeOK, SubmitInv, RunInv, HistGrows, SlipKind, Built, Through,
     Freed, AtOnce, Retention, Ended, LinkMore, At, Go, rowVars, repoVars, treeVars,
     cleanVars, JobState, TERMINAL_STATES, ACTIVE_STATES, Never
<1>6. Mild(j)
  BY DEF SnapInv, TypeOK, SubmitInv, RunInv, RemoveInv, Mild, Making, Through, Ended,
     LinkMore, At, Go, rowVars, repoVars, treeVars, cleanVars, JobState, TERMINAL_STATES,
     ACTIVE_STATES, Never
<1> QED  BY <1>1, <1>2, <1>3, <1>4, <1>5, <1>6, MildKeeps

LEMMA UndoKeeps ==
  ASSUME SnapInv, NEW j \in Job, Undo(j)
  PROVE  SnapInv'
<1>1. /\ submit[j] = "undo" /\ submit' = [submit EXCEPT ![j] = "unref"]
      /\ UNCHANGED <<row, known, age, commit, ref, alive, todo, remove, deaths>>
  BY DEF Undo, At, Go, rowVars, repoVars, cleanVars
<1>2. /\ tree' \in [Job -> {"absent", "part", "whole"}]
      /\ \A k \in Job \ {j} : tree'[k] = tree[k]
      /\ tree'[j] = "absent" \/ j \in alive \/ Slipped(j, "tree")'
      /\ links' \subseteq links /\ links \subseteq links' \cup {j}
      /\ hist' \in [wiped : SUBSET Job, forced : SUBSET Job, slips : SUBSET Slip]
      /\ HistGrows /\ hist'.wiped \subseteq hist.wiped \cup (links \cap {j})
  BY RemovalTakes DEF SnapInv, Undo
<1>3. j \notin alive  BY <1>1 DEF SnapInv, RunInv, Through
<1>4. TypeOK'  BY <1>1, <1>2 DEF SnapInv, TypeOK, SubmitPc
<1>5. OnlyAbout(j)  BY <1>1, <1>2 DEF SnapInv, TypeOK, OnlyAbout, Same
<1>6. SubmitInv(j)'  BY <1>1, <1>2, <1>3 DEF SnapInv, TypeOK, SubmitInv, Making
<1>7. LinkInv(j)'  BY <1>1, <1>2 DEF SnapInv, TypeOK, LinkInv
<1>8. RunInv(j)'  BY <1>1, <1>3 DEF SnapInv, TypeOK, RunInv, Through, Ended
<1>9. Mild(j)  BY <1>1, <1>2 DEF SnapInv, TypeOK, LinkInv, RemoveInv, Mild
<1> QED  BY <1>1, <1>2, <1>4, <1>5, <1>6, <1>7, <1>8, <1>9, MildKeeps

LEMMA UndoRefKeeps ==
  ASSUME SnapInv, NEW j \in Job, UndoRef(j)
  PROVE  SnapInv'
<1>1. /\ submit[j] = "unref" /\ submit' = [submit EXCEPT ![j] = "fail"]
      /\ ref' \subseteq ref /\ ref \subseteq ref' \cup {j}
      /\ j \notin ref' \/ Slipped(j, "ref")'
      /\ hist' \in [wiped : SUBSET Job, forced : SUBSET Job, slips : SUBSET Slip]
      /\ hist'.wiped = hist.wiped /\ HistGrows
      /\ UNCHANGED <<row, known, age, commit, tree, links, alive, todo, remove, deaths>>
  <2>1. CASE ref' = ref \ {j} /\ UNCHANGED hist
    BY <2>1 DEF SnapInv, TypeOK, UndoRef, At, Go, HistGrows, Slipped, rowVars, treeVars, cleanVars
  <2>2. CASE Slips(j, "ref") /\ UNCHANGED ref
    BY <2>2, SlipsGrow DEF SnapInv, UndoRef, At, Go, SlipKind, rowVars, treeVars, cleanVars
  <2> QED  BY <2>1, <2>2 DEF UndoRef
<1>2. TypeOK'  BY <1>1 DEF SnapInv, TypeOK, SubmitPc
<1>3. OnlyAbout(j)  BY <1>1 DEF SnapInv, TypeOK, OnlyAbout, Same
<1>4. SubmitInv(j)'  BY <1>1 DEF SnapInv, TypeOK, SubmitInv, HistGrows, SlipKind, Making
<1>5. LinkInv(j)'  BY <1>1 DEF SnapInv, TypeOK, LinkInv
<1>6. RunInv(j)'  BY <1>1 DEF SnapInv, TypeOK, RunInv, Through, Ended
<1>7. Mild(j)  BY <1>1 DEF SnapInv, TypeOK, RemoveInv, Mild
<1> QED  BY <1>1, <1>2, <1>3, <1>4, <1>5, <1>6, <1>7, MildKeeps

LEMMA FailKeeps ==
  ASSUME SnapInv, NEW j \in Job, Fail(j)
  PROVE  SnapInv'
<1>1. TypeOK'
  BY DEF SnapInv, TypeOK, SubmitPc, RemoveStep, NoRemoval, Fail, At, Go, rowVars,
     repoVars, treeVars, cleanVars, TryUpdate, can_transition, ALLOWED_TRANSITIONS, JobState,
     TERMINAL_STATES, ACTIVE_STATES, Never
<1>2. OnlyAbout(j) /\ HistGrows
  BY DEF SnapInv, TypeOK, OnlyAbout, Same, HistGrows, Slipped, Fail, At, Go, rowVars,
     repoVars, treeVars, cleanVars, TryUpdate, can_transition, ALLOWED_TRANSITIONS
<1>3. SubmitInv(j)'
  BY <1>2 DEF SnapInv, TypeOK, SubmitInv, RunInv, HistGrows, SlipKind, Making, Built,
     Through, Ended, Fail, At, Go, rowVars, repoVars, treeVars, cleanVars, TryUpdate,
     can_transition, ALLOWED_TRANSITIONS, JobState, TERMINAL_STATES, ACTIVE_STATES, Never
<1>4. LinkInv(j)'
  BY DEF SnapInv, TypeOK, SubmitInv, LinkInv, RunInv, Through, Fail, At, Go, rowVars,
     repoVars, treeVars, cleanVars, TryUpdate, can_transition, ALLOWED_TRANSITIONS
<1>5. RunInv(j)'
  BY <1>2 DEF SnapInv, TypeOK, SubmitInv, RunInv, HistGrows, SlipKind, Built, Through,
     Freed, AtOnce, Retention, Ended, Fail, At, Go, rowVars, repoVars, treeVars, cleanVars,
     TryUpdate, can_transition, ALLOWED_TRANSITIONS, JobState, TERMINAL_STATES,
     ACTIVE_STATES, Never
<1>6. Mild(j)
  BY DEF SnapInv, TypeOK, SubmitInv, RunInv, RemoveInv, Mild, Making, Through, Ended,
     Fail, At, Go, rowVars, repoVars, treeVars, cleanVars, TryUpdate, can_transition,
     ALLOWED_TRANSITIONS, JobState, TERMINAL_STATES, ACTIVE_STATES, Never
<1> QED  BY <1>1, <1>2, <1>3, <1>4, <1>5, <1>6, MildKeeps

LEMMA RecordKeeps ==
  ASSUME SnapInv, NEW j \in Job, Record(j)
  PROVE  SnapInv'
<1>1. TypeOK'
  BY DEF SnapInv, TypeOK, SubmitPc, RemoveStep, NoRemoval, Record, At, Go, rowVars,
     repoVars, treeVars, cleanVars, JobState, TERMINAL_STATES, ACTIVE_STATES, Never
<1>2. OnlyAbout(j) /\ HistGrows
  BY DEF SnapInv, TypeOK, OnlyAbout, Same, HistGrows, Slipped, Record, At, Go, rowVars,
     repoVars, treeVars, cleanVars
<1>3. SubmitInv(j)'
  BY <1>2 DEF SnapInv, TypeOK, SubmitInv, RunInv, HistGrows, SlipKind, Making, Built,
     Through, Ended, Record, At, Go, rowVars, repoVars, treeVars, cleanVars, JobState,
     TERMINAL_STATES, ACTIVE_STATES, Never
<1>4. LinkInv(j)'
  BY DEF SnapInv, TypeOK, SubmitInv, LinkInv, RunInv, Through, Record, At, Go, rowVars,
     repoVars, treeVars, cleanVars
<1>5. RunInv(j)'
  BY <1>2 DEF SnapInv, TypeOK, SubmitInv, RunInv, HistGrows, SlipKind, Built, Through,
     Freed, AtOnce, Retention, Ended, Record, At, Go, rowVars, repoVars, treeVars, cleanVars,
     JobState, TERMINAL_STATES, ACTIVE_STATES, Never
<1>6. Mild(j)
  BY DEF SnapInv, TypeOK, SubmitInv, RunInv, RemoveInv, Mild, Making, Through, Ended,
     Record, At, Go, rowVars, repoVars, treeVars, cleanVars, JobState, TERMINAL_STATES,
     ACTIVE_STATES, Never
<1> QED  BY <1>1, <1>2, <1>3, <1>4, <1>5, <1>6, MildKeeps

LEMMA QueueKeeps ==
  ASSUME SnapInv, NEW j \in Job, Queue(j)
  PROVE  SnapInv'
<1>1. TypeOK'
  BY DEF SnapInv, TypeOK, SubmitPc, RemoveStep, NoRemoval, Queue, At, Go, rowVars,
     repoVars, treeVars, cleanVars, can_transition, ALLOWED_TRANSITIONS, JobState,
     TERMINAL_STATES, ACTIVE_STATES, Never
<1>2. OnlyAbout(j) /\ HistGrows
  BY DEF SnapInv, TypeOK, OnlyAbout, Same, HistGrows, Slipped, Queue, At, Go, rowVars,
     repoVars, treeVars, cleanVars, can_transition, ALLOWED_TRANSITIONS
<1>3. SubmitInv(j)'
  BY <1>2 DEF SnapInv, TypeOK, SubmitInv, RunInv, HistGrows, SlipKind, Making, Built,
     Through, Ended, Queue, At, Go, rowVars, repoVars, treeVars, cleanVars, can_transition,
     ALLOWED_TRANSITIONS, JobState, TERMINAL_STATES, ACTIVE_STATES, Never
<1>4. LinkInv(j)'
  BY DEF SnapInv, TypeOK, SubmitInv, LinkInv, RunInv, Through, Queue, At, Go, rowVars,
     repoVars, treeVars, cleanVars, can_transition, ALLOWED_TRANSITIONS
<1>5. RunInv(j)'
  BY <1>2 DEF SnapInv, TypeOK, SubmitInv, RunInv, HistGrows, SlipKind, Built, Through,
     Freed, AtOnce, Retention, Ended, Queue, At, Go, rowVars, repoVars, treeVars, cleanVars,
     can_transition, ALLOWED_TRANSITIONS, JobState, TERMINAL_STATES, ACTIVE_STATES, Never
<1>6. Mild(j)
  BY DEF SnapInv, TypeOK, SubmitInv, RunInv, RemoveInv, Mild, Making, Through, Ended,
     Queue, At, Go, rowVars, repoVars, treeVars, cleanVars, can_transition,
     ALLOWED_TRANSITIONS, JobState, TERMINAL_STATES, ACTIVE_STATES, Never
<1> QED  BY <1>1, <1>2, <1>3, <1>4, <1>5, <1>6, MildKeeps

LEMMA SubmittedKeeps ==
  ASSUME SnapInv, NEW j \in Job, Submitted(j)
  PROVE  SnapInv'
<1>1. TypeOK'
  BY DEF SnapInv, TypeOK, SubmitPc, RemoveStep, NoRemoval, Submitted, At, Go, rowVars,
     repoVars, treeVars, cleanVars, JobState, TERMINAL_STATES, ACTIVE_STATES, Never
<1>2. OnlyAbout(j) /\ HistGrows
  BY DEF SnapInv, TypeOK, OnlyAbout, Same, HistGrows, Slipped, Submitted, At, Go, rowVars,
     repoVars, treeVars, cleanVars
<1>3. SubmitInv(j)'
  BY <1>2 DEF SnapInv, TypeOK, SubmitInv, RunInv, HistGrows, SlipKind, Making, Built,
     Through, Ended, Submitted, At, Go, rowVars, repoVars, treeVars, cleanVars, JobState,
     TERMINAL_STATES, ACTIVE_STATES, Never
<1>4. LinkInv(j)'
  BY DEF SnapInv, TypeOK, SubmitInv, LinkInv, RunInv, Through, Submitted, At, Go, rowVars,
     repoVars, treeVars, cleanVars
<1>5. RunInv(j)'
  BY <1>2 DEF SnapInv, TypeOK, SubmitInv, RunInv, HistGrows, SlipKind, Built, Through,
     Freed, AtOnce, Retention, Ended, Submitted, At, Go, rowVars, repoVars, treeVars,
     cleanVars, JobState, TERMINAL_STATES, ACTIVE_STATES, Never
<1>6. Mild(j)
  BY DEF SnapInv, TypeOK, SubmitInv, RunInv, RemoveInv, Mild, Making, Through, Ended,
     Submitted, At, Go, rowVars, repoVars, treeVars, cleanVars, JobState, TERMINAL_STATES,
     ACTIVE_STATES, Never
<1> QED  BY <1>1, <1>2, <1>3, <1>4, <1>5, <1>6, MildKeeps

LEMMA RejectKeeps ==
  ASSUME SnapInv, NEW j \in Job, Reject(j)
  PROVE  SnapInv'
<1>1. /\ submit[j] \in {"reject", "queue", "queued"} /\ submit' = [submit EXCEPT ![j] = "tidy"]
      /\ row' = [row EXCEPT ![j] = TryUpdate(@, "FAILED")]
      /\ hist' = [hist EXCEPT !.forced = @ \cup ({j} \cap alive)]
      /\ remove' = [remove EXCEPT ![j] =
           [step |-> IF tree[j] = "absent" THEN "unref" ELSE "detach", job |-> j]]
      /\ UNCHANGED <<known, age, commit, ref, tree, links, alive, todo, deaths>>
  BY DEF Reject, At, Go, repoVars, treeVars
<1>2. /\ hist' \in [wiped : SUBSET Job, forced : SUBSET Job, slips : SUBSET Slip]
      /\ hist'.wiped = hist.wiped /\ hist'.slips = hist.slips
      /\ hist'.forced = hist.forced \cup ({j} \cap alive)
  BY <1>1 DEF SnapInv, TypeOK
<1>3. TypeOK'
  BY <1>1, <1>2 DEF SnapInv, TypeOK, SubmitPc, RemoveStep, Remover, TryUpdate, JobState,
     TERMINAL_STATES, ACTIVE_STATES
<1>4. OnlyAbout(j)  BY <1>1 DEF SnapInv, TypeOK, OnlyAbout, Same
<1>5. HistGrows  BY <1>2 DEF HistGrows, Slipped
<1>6. row[j] # Never  BY <1>1 DEF SnapInv, SubmitInv
<1>7. row'[j] \in TERMINAL_STATES /\ (Ended(j) => row'[j] = row[j])
  BY <1>1, <1>6 DEF SnapInv, TypeOK, Ended, TryUpdate, can_transition, ALLOWED_TRANSITIONS,
     JobState, TERMINAL_STATES, ACTIVE_STATES
<1>8. SubmitInv(j)'
  BY <1>1, <1>5, <1>7 DEF SnapInv, TypeOK, SubmitInv, Making, Ended, TERMINAL_STATES, Never
<1>9. LinkInv(j)'  BY <1>1 DEF SnapInv, TypeOK, LinkInv
<1>10. RunInv(j)'
  BY <1>1, <1>2, <1>7 DEF SnapInv, TypeOK, RunInv, Ended, Freed, TERMINAL_STATES
<1>11. RemoveInv'
  <2>1. ASSUME NEW k \in Job, MayRemove(k) PROVE MayRemove(k)'
    <3>1. CASE k = j  BY <1>1, <1>5, <1>7, <2>1, <3>1, MayRemoveStays DEF MayRemove
    <3>2. CASE k # j  BY <1>4, <1>5, <2>1, <3>2, SameKeeps DEF OnlyAbout
    <3> QED  BY <3>1, <3>2
  <2>2. \A r \in Remover \ {j} : remove'[r] = remove[r]  BY <1>1 DEF SnapInv, TypeOK
  <2>3. remove'[j] = [step |-> IF tree[j] = "absent" THEN "unref" ELSE "detach", job |-> j]
    BY <1>1 DEF SnapInv, TypeOK, Remover
  <2>4. ASSUME NEW c \in Cleaner, NEW k \in Job,
               k \in todo'[c] \/ (remove'[c].step # "idle" /\ remove'[c].job = k)
        PROVE  MayRemove(k)'
    <3>1. c \in Remover \ {j}  BY IdsAreNotCleaners DEF Remover
    <3> QED  BY <1>1, <2>1, <2>2, <2>4, <3>1 DEF SnapInv, RemoveInv
  <2>5. ASSUME NEW k \in Job, remove'[k].step # "idle"
        PROVE  /\ submit'[k] = "tidy" /\ remove'[k].job = k
               /\ remove'[k].step = "unref" =>
                    tree'[k] = "absent" \/ k \in hist'.forced \/ Slipped(k, "tree")'
    <3>1. CASE k = j  BY <1>1, <2>3, <3>1 DEF SnapInv, TypeOK
    <3>2. CASE k # j
      BY <1>4, <1>5, <2>2, <2>5, <3>2 DEF SnapInv, RemoveInv, Remover, OnlyAbout, Same,
         HistGrows, SlipKind
    <3> QED  BY <3>1, <3>2
  <2>6. ASSUME NEW r \in Remover, NEW k \in Job,
               remove'[r].step \in {"git", "rest"}, remove'[r].job = k
        PROVE  k \notin links' \/ Slipped(k, "detach")'
    <3>1. remove'[r] = remove[r]  BY <2>2, <2>3, <2>6
    <3> QED  BY <1>1, <1>5, <2>6, <3>1 DEF SnapInv, RemoveInv, HistGrows, SlipKind
  <2>7. \A r \in Remover : remove'[r].step # "idle" => remove'[r].job \in Job
    BY <2>2, <2>3 DEF SnapInv, RemoveInv
  <2> QED  BY <2>4, <2>5, <2>6, <2>7 DEF RemoveInv
<1>12. DataSafe'  BY <1>2 DEF SnapInv, DataSafe, Slipped
<1> QED  BY <1>3, <1>4, <1>5, <1>8, <1>9, <1>10, <1>11, <1>12, OthersKeep

LEMMA SubmitDiesKeeps ==
  ASSUME SnapInv, NEW j \in Job, SubmitDies(j)
  PROVE  SnapInv'
<1>1. /\ submit[j] \notin {"idle", "queued", "done", "failed", "crashed"}
      /\ submit' = [submit EXCEPT ![j] = "crashed"]
      /\ remove' = [remove EXCEPT ![j] = NoRemoval]
      /\ UNCHANGED <<row, known, age, commit, ref, tree, links, alive, todo, deaths, hist>>
  BY DEF SubmitDies, At, Go, rowVars, repoVars, treeVars
<1>2. TypeOK'
  BY <1>1 DEF SnapInv, TypeOK, SubmitPc, RemoveStep, NoRemoval, Remover
<1>3. OnlyAbout(j)  BY <1>1 DEF SnapInv, TypeOK, OnlyAbout, Same
<1>4. HistGrows  BY <1>1 DEF HistGrows, Slipped
<1>5. SubmitInv(j)'  BY <1>1 DEF SnapInv, TypeOK, SubmitInv, Making
<1>6. LinkInv(j)'  BY <1>1 DEF SnapInv, TypeOK, LinkInv
<1>7. RunInv(j)'
  BY <1>1 DEF SnapInv, TypeOK, RunInv, Through, Built, Slipped, Freed, AtOnce, Retention, Ended
<1>8. RemoveInv'
  <2>1. /\ \A r \in Remover \ {j} : remove'[r] = remove[r]
        /\ remove'[j] = NoRemoval /\ \A c \in Cleaner : c \in Remover \ {j}
    BY <1>1, IdsAreNotCleaners DEF SnapInv, TypeOK, Remover
  <2>2. \A k \in Job : MayRemove(k) => MayRemove(k)'
    BY <1>1, <1>4, MayRemoveStays
  <2>3. ASSUME NEW c \in Cleaner, NEW k \in Job,
               k \in todo'[c] \/ (remove'[c].step # "idle" /\ remove'[c].job = k)
        PROVE  MayRemove(k)'
    BY <1>1, <2>1, <2>2, <2>3 DEF SnapInv, RemoveInv
  <2>4. ASSUME NEW k \in Job, remove'[k].step # "idle"
        PROVE  /\ submit'[k] = "tidy" /\ remove'[k].job = k
               /\ remove'[k].step = "unref" =>
                    tree'[k] = "absent" \/ k \in hist'.forced \/ Slipped(k, "tree")'
    <3>1. k # j  BY <2>1, <2>4 DEF NoRemoval
    <3> QED
      BY <1>1, <1>4, <2>1, <2>4, <3>1 DEF SnapInv, TypeOK, RemoveInv, Remover, HistGrows, SlipKind
  <2>5. ASSUME NEW r \in Remover, NEW k \in Job,
               remove'[r].step \in {"git", "rest"}, remove'[r].job = k
        PROVE  k \notin links' \/ Slipped(k, "detach")'
    <3>1. r # j  BY <2>1, <2>5 DEF NoRemoval
    <3> QED  BY <1>1, <1>4, <2>1, <2>5, <3>1 DEF SnapInv, RemoveInv, HistGrows, SlipKind
  <2>6. \A r \in Remover : remove'[r].step # "idle" => remove'[r].job \in Job
    BY <2>1 DEF SnapInv, RemoveInv, NoRemoval
  <2> QED  BY <2>3, <2>4, <2>5, <2>6 DEF RemoveInv
<1>9. DataSafe'  BY <1>1 DEF SnapInv, DataSafe, Slipped
<1> QED  BY <1>2, <1>3, <1>4, <1>5, <1>6, <1>7, <1>8, <1>9, OthersKeep

----------------------------------------------------------------------------
(* Runs, and what time and git do.                                         *)

LEMMA StartsKeeps ==
  ASSUME SnapInv, NEW j \in Job, Starts(j)
  PROVE  SnapInv'
<1>1. TypeOK'
  BY DEF SnapInv, TypeOK, SubmitPc, RemoveStep, NoRemoval, Starts, At, Go, rowVars,
     repoVars, treeVars, cleanVars, Writes, JobState, TERMINAL_STATES, ACTIVE_STATES, Never
<1>2. OnlyAbout(j) /\ HistGrows
  BY DEF SnapInv, TypeOK, OnlyAbout, Same, HistGrows, Slipped, Starts, At, Go, rowVars,
     repoVars, treeVars, cleanVars, Writes
<1>3. SubmitInv(j)'
  BY <1>2 DEF SnapInv, TypeOK, SubmitInv, RunInv, HistGrows, SlipKind, Making, Built,
     Through, Ended, Starts, At, Go, rowVars, repoVars, treeVars, cleanVars, Writes,
     JobState, TERMINAL_STATES, ACTIVE_STATES, Never
<1>4. LinkInv(j)'
  BY DEF SnapInv, TypeOK, SubmitInv, LinkInv, RunInv, Through, Starts, At, Go, rowVars,
     repoVars, treeVars, cleanVars, Writes
<1>5. RunInv(j)'
  BY <1>2 DEF SnapInv, TypeOK, SubmitInv, RunInv, HistGrows, SlipKind, Built, Through,
     Freed, AtOnce, Retention, Ended, Starts, At, Go, rowVars, repoVars, treeVars, cleanVars,
     Writes, JobState, TERMINAL_STATES, ACTIVE_STATES, Never
<1>6. Mild(j)
  BY DEF SnapInv, TypeOK, SubmitInv, RunInv, RemoveInv, Mild, Making, Through, Ended,
     Starts, At, Go, rowVars, repoVars, treeVars, cleanVars, Writes, JobState,
     TERMINAL_STATES, ACTIVE_STATES, Never
<1> QED  BY <1>1, <1>2, <1>3, <1>4, <1>5, <1>6, MildKeeps

LEMMA DisplacedKeeps ==
  ASSUME SnapInv, NEW j \in Job, Displaced(j)
  PROVE  SnapInv'
<1>1. TypeOK'
  BY DEF SnapInv, TypeOK, SubmitPc, RemoveStep, NoRemoval, Displaced, At, Go, rowVars,
     repoVars, treeVars, cleanVars, Writes, JobState, TERMINAL_STATES, ACTIVE_STATES, Never
<1>2. OnlyAbout(j) /\ HistGrows
  BY DEF SnapInv, TypeOK, OnlyAbout, Same, HistGrows, Slipped, Displaced, At, Go, rowVars,
     repoVars, treeVars, cleanVars, Writes
<1>3. SubmitInv(j)'
  BY <1>2 DEF SnapInv, TypeOK, SubmitInv, RunInv, HistGrows, SlipKind, Making, Built,
     Through, Ended, Displaced, At, Go, rowVars, repoVars, treeVars, cleanVars, Writes,
     JobState, TERMINAL_STATES, ACTIVE_STATES, Never
<1>4. LinkInv(j)'
  BY DEF SnapInv, TypeOK, SubmitInv, LinkInv, RunInv, Through, Displaced, At, Go, rowVars,
     repoVars, treeVars, cleanVars, Writes
<1>5. RunInv(j)'
  BY <1>2 DEF SnapInv, TypeOK, SubmitInv, RunInv, HistGrows, SlipKind, Built, Through,
     Freed, AtOnce, Retention, Ended, Displaced, At, Go, rowVars, repoVars, treeVars,
     cleanVars, Writes, JobState, TERMINAL_STATES, ACTIVE_STATES, Never
<1>6. Mild(j)
  BY DEF SnapInv, TypeOK, SubmitInv, RunInv, RemoveInv, Mild, Making, Through, Ended,
     Displaced, At, Go, rowVars, repoVars, treeVars, cleanVars, Writes, JobState,
     TERMINAL_STATES, ACTIVE_STATES, Never
<1> QED  BY <1>1, <1>2, <1>3, <1>4, <1>5, <1>6, MildKeeps

LEMMA EndsKeeps ==
  ASSUME SnapInv, NEW j \in Job, Ends(j)
  PROVE  SnapInv'
<1>1. TypeOK'
  BY DEF SnapInv, TypeOK, SubmitPc, RemoveStep, NoRemoval, Ends, At, Go, rowVars,
     repoVars, treeVars, cleanVars, Writes, JobState, TERMINAL_STATES, ACTIVE_STATES, Never
<1>2. OnlyAbout(j) /\ HistGrows
  BY DEF SnapInv, TypeOK, OnlyAbout, Same, HistGrows, Slipped, Ends, At, Go, rowVars,
     repoVars, treeVars, cleanVars, Writes
<1>3. SubmitInv(j)'
  BY <1>2 DEF SnapInv, TypeOK, SubmitInv, RunInv, HistGrows, SlipKind, Making, Built,
     Through, Ended, Ends, At, Go, rowVars, repoVars, treeVars, cleanVars, Writes, JobState,
     TERMINAL_STATES, ACTIVE_STATES, Never
<1>4. LinkInv(j)'
  BY DEF SnapInv, TypeOK, SubmitInv, LinkInv, RunInv, Through, Ends, At, Go, rowVars,
     repoVars, treeVars, cleanVars, Writes
<1>5. RunInv(j)'
  BY <1>2 DEF SnapInv, TypeOK, SubmitInv, RunInv, HistGrows, SlipKind, Built, Through,
     Freed, AtOnce, Retention, Ended, Ends, At, Go, rowVars, repoVars, treeVars, cleanVars,
     Writes, JobState, TERMINAL_STATES, ACTIVE_STATES, Never
<1>6. Mild(j)
  BY DEF SnapInv, TypeOK, SubmitInv, RunInv, RemoveInv, Mild, Making, Through, Ended,
     Ends, At, Go, rowVars, repoVars, treeVars, cleanVars, Writes, JobState, TERMINAL_STATES,
     ACTIVE_STATES, Never
<1> QED  BY <1>1, <1>2, <1>3, <1>4, <1>5, <1>6, MildKeeps

LEMMA GivenUpKeeps ==
  ASSUME SnapInv, NEW j \in Job, GivenUp(j)
  PROVE  SnapInv'
<1>1. TypeOK'
  BY DEF SnapInv, TypeOK, SubmitPc, RemoveStep, NoRemoval, GivenUp, At, Go, rowVars,
     repoVars, treeVars, cleanVars, Writes, JobState, TERMINAL_STATES, ACTIVE_STATES, Never
<1>2. OnlyAbout(j) /\ HistGrows
  BY DEF SnapInv, TypeOK, OnlyAbout, Same, HistGrows, Slipped, GivenUp, At, Go, rowVars,
     repoVars, treeVars, cleanVars, Writes
<1>3. SubmitInv(j)'
  BY <1>2 DEF SnapInv, TypeOK, SubmitInv, RunInv, HistGrows, SlipKind, Making, Built,
     Through, Ended, GivenUp, At, Go, rowVars, repoVars, treeVars, cleanVars, Writes,
     JobState, TERMINAL_STATES, ACTIVE_STATES, Never
<1>4. LinkInv(j)'
  BY DEF SnapInv, TypeOK, SubmitInv, LinkInv, RunInv, Through, GivenUp, At, Go, rowVars,
     repoVars, treeVars, cleanVars, Writes
<1>5. RunInv(j)'
  BY <1>2 DEF SnapInv, TypeOK, SubmitInv, RunInv, HistGrows, SlipKind, Built, Through,
     Freed, AtOnce, Retention, Ended, GivenUp, At, Go, rowVars, repoVars, treeVars,
     cleanVars, Writes, JobState, TERMINAL_STATES, ACTIVE_STATES, Never
<1>6. Mild(j)
  BY DEF SnapInv, TypeOK, SubmitInv, RunInv, RemoveInv, Mild, Making, Through, Ended,
     GivenUp, At, Go, rowVars, repoVars, treeVars, cleanVars, Writes, JobState,
     TERMINAL_STATES, ACTIVE_STATES, Never
<1> QED  BY <1>1, <1>2, <1>3, <1>4, <1>5, <1>6, MildKeeps

LEMMA GoneKeeps ==
  ASSUME SnapInv, NEW j \in Job, Gone(j)
  PROVE  SnapInv'
<1>1. TypeOK'
  BY DEF SnapInv, TypeOK, SubmitPc, RemoveStep, NoRemoval, Gone, At, Go, rowVars,
     repoVars, treeVars, cleanVars, JobState, TERMINAL_STATES, ACTIVE_STATES, Never
<1>2. OnlyAbout(j) /\ HistGrows
  BY DEF SnapInv, TypeOK, OnlyAbout, Same, HistGrows, Slipped, Gone, At, Go, rowVars,
     repoVars, treeVars, cleanVars
<1>3. SubmitInv(j)'
  BY <1>2 DEF SnapInv, TypeOK, SubmitInv, RunInv, HistGrows, SlipKind, Making, Built,
     Through, Ended, Gone, At, Go, rowVars, repoVars, treeVars, cleanVars, JobState,
     TERMINAL_STATES, ACTIVE_STATES, Never
<1>4. LinkInv(j)'
  BY DEF SnapInv, TypeOK, SubmitInv, LinkInv, RunInv, Through, Gone, At, Go, rowVars,
     repoVars, treeVars, cleanVars
<1>5. RunInv(j)'
  BY <1>2 DEF SnapInv, TypeOK, SubmitInv, RunInv, HistGrows, SlipKind, Built, Through,
     Freed, AtOnce, Retention, Ended, Gone, At, Go, rowVars, repoVars, treeVars, cleanVars,
     JobState, TERMINAL_STATES, ACTIVE_STATES, Never
<1>6. Mild(j)
  BY DEF SnapInv, TypeOK, SubmitInv, RunInv, RemoveInv, Mild, Making, Through, Ended,
     Gone, At, Go, rowVars, repoVars, treeVars, cleanVars, JobState, TERMINAL_STATES,
     ACTIVE_STATES, Never
<1> QED  BY <1>1, <1>2, <1>3, <1>4, <1>5, <1>6, MildKeeps

LEMMA StalePreparingKeeps ==
  ASSUME SnapInv, NEW j \in Job, StalePreparing(j)
  PROVE  SnapInv'
<1>1. TypeOK'
  BY DEF SnapInv, TypeOK, SubmitPc, RemoveStep, NoRemoval, StalePreparing, At, Go,
     rowVars, repoVars, treeVars, cleanVars, Writes, JobState, TERMINAL_STATES,
     ACTIVE_STATES, Never
<1>2. OnlyAbout(j) /\ HistGrows
  BY DEF SnapInv, TypeOK, OnlyAbout, Same, HistGrows, Slipped, StalePreparing, At, Go,
     rowVars, repoVars, treeVars, cleanVars, Writes
<1>3. SubmitInv(j)'
  BY <1>2 DEF SnapInv, TypeOK, SubmitInv, RunInv, HistGrows, SlipKind, Making, Built,
     Through, Ended, StalePreparing, At, Go, rowVars, repoVars, treeVars, cleanVars, Writes,
     JobState, TERMINAL_STATES, ACTIVE_STATES, Never
<1>4. LinkInv(j)'
  BY DEF SnapInv, TypeOK, SubmitInv, LinkInv, RunInv, Through, StalePreparing, At, Go,
     rowVars, repoVars, treeVars, cleanVars, Writes
<1>5. RunInv(j)'
  BY <1>2 DEF SnapInv, TypeOK, SubmitInv, RunInv, HistGrows, SlipKind, Built, Through,
     Freed, AtOnce, Retention, Ended, StalePreparing, At, Go, rowVars, repoVars, treeVars,
     cleanVars, Writes, JobState, TERMINAL_STATES, ACTIVE_STATES, Never
<1>6. Mild(j)
  BY DEF SnapInv, TypeOK, SubmitInv, RunInv, RemoveInv, Mild, Making, Through, Ended,
     StalePreparing, At, Go, rowVars, repoVars, treeVars, cleanVars, Writes, JobState,
     TERMINAL_STATES, ACTIVE_STATES, Never
<1> QED  BY <1>1, <1>2, <1>3, <1>4, <1>5, <1>6, MildKeeps

LEMMA GcKeeps ==
  ASSUME SnapInv, NEW j \in Job, Gc(j)
  PROVE  SnapInv'
<1>1. TypeOK'
  BY DEF SnapInv, TypeOK, SubmitPc, RemoveStep, NoRemoval, Gc, At, Go, rowVars, repoVars,
     treeVars, cleanVars, JobState, TERMINAL_STATES, ACTIVE_STATES, Never
<1>2. OnlyAbout(j) /\ HistGrows
  BY DEF SnapInv, TypeOK, OnlyAbout, Same, HistGrows, Slipped, Gc, At, Go, rowVars,
     repoVars, treeVars, cleanVars
<1>3. SubmitInv(j)'
  BY <1>2 DEF SnapInv, TypeOK, SubmitInv, RunInv, HistGrows, SlipKind, Making, Built,
     Through, Ended, Gc, At, Go, rowVars, repoVars, treeVars, cleanVars, JobState,
     TERMINAL_STATES, ACTIVE_STATES, Never
<1>4. LinkInv(j)'
  BY DEF SnapInv, TypeOK, SubmitInv, LinkInv, RunInv, Through, Gc, At, Go, rowVars,
     repoVars, treeVars, cleanVars
<1>5. RunInv(j)'
  BY <1>2 DEF SnapInv, TypeOK, SubmitInv, RunInv, HistGrows, SlipKind, Built, Through,
     Freed, AtOnce, Retention, Ended, Gc, At, Go, rowVars, repoVars, treeVars, cleanVars,
     JobState, TERMINAL_STATES, ACTIVE_STATES, Never
<1>6. Mild(j)
  BY DEF SnapInv, TypeOK, SubmitInv, RunInv, RemoveInv, Mild, Making, Through, Ended, Gc,
     At, Go, rowVars, repoVars, treeVars, cleanVars, JobState, TERMINAL_STATES,
     ACTIVE_STATES, Never
<1> QED  BY <1>1, <1>2, <1>3, <1>4, <1>5, <1>6, MildKeeps

LEMMA TickKeeps ==
  ASSUME SnapInv, Tick
  PROVE  SnapInv'
<1>1. /\ \A k \in alive : ~Ended(k)
      /\ age' = [k \in Job |-> IF Ages(k) THEN age[k] + 1 ELSE age[k]]
      /\ UNCHANGED <<row, known, submit, commit, ref, tree, links, alive, todo, remove,
                     deaths, hist>>
  BY DEF Tick, repoVars, treeVars, cleanVars
<1>2. TypeOK'
  BY <1>1, SnapshotsAssumption DEF SnapInv, TypeOK, Ages
<1>3. \A k \in Job : SubmitInv(k)' /\ LinkInv(k)'
  <2> TAKE k \in Job
  <2>1. SubmitInv(k) /\ LinkInv(k)  BY DEF SnapInv
  <2>2. SubmitInv(k)'  BY <1>1, <2>1 DEF SubmitInv, Built, Ended, Slipped
  <2>3. LinkInv(k)'  BY <1>1, <2>1 DEF LinkInv
  <2> QED  BY <2>2, <2>3
<1>4. \A k \in Job : RunInv(k)'
  <2> TAKE k \in Job
  <2>1. ~Ended(k) => age'[k] = age[k]  BY <1>1 DEF Ages
  <2> QED
    BY <1>1, <2>1 DEF SnapInv, RunInv, Built, Ended, Slipped, Freed, AtOnce, Retention
<1>5. RemoveInv'
  BY <1>1 DEF SnapInv, RemoveInv, MayRemove, Ended, Slipped, Freed, AtOnce, Retention
<1>6. DataSafe'  BY <1>1 DEF SnapInv, DataSafe, Slipped
<1> QED  BY <1>2, <1>3, <1>4, <1>5, <1>6 DEF SnapInv

----------------------------------------------------------------------------
(* Cleaners and removals.                                                   *)

LEMMA PlanKeeps ==
  ASSUME SnapInv, NEW c \in Cleaner, Plan(c)
  PROVE  SnapInv'
<1>1. PICK older \in SUBSET OlderThan :
        /\ todo' = [todo EXCEPT ![c] = Proposed(older)]
        /\ hist' = IF older = {} THEN hist
                   ELSE [hist EXCEPT !.forced = @ \cup (Proposed(older) \cap alive)]
  BY DEF Plan
<1>2. UNCHANGED <<row, known, age, submit, commit, ref, tree, links, alive, remove, deaths>>
  BY DEF Plan, rowVars, repoVars, treeVars
<1>3. Proposed(older) \subseteq Job  BY ProposedMayGo
<1>4. /\ hist' \in [wiped : SUBSET Job, forced : SUBSET Job, slips : SUBSET Slip]
      /\ hist'.wiped = hist.wiped /\ hist'.slips = hist.slips
      /\ hist.forced \subseteq hist'.forced
      /\ older # {} => Proposed(older) \cap alive \subseteq hist'.forced
  BY <1>1, <1>3 DEF SnapInv, TypeOK
<1>5. TypeOK'  BY <1>1, <1>2, <1>3, <1>4 DEF SnapInv, TypeOK
<1>6. HistGrows /\ \A k \in Job : Same(k)  BY <1>2, <1>4 DEF HistGrows, Slipped, Same
<1>7. \A k \in Job : /\ SubmitInv(k)' /\ LinkInv(k)' /\ RunInv(k)'
                     /\ MayRemove(k) => MayRemove(k)'
  BY <1>6, SameKeeps
<1>8. ASSUME NEW k \in Proposed(older) PROVE MayRemove(k)'
  <2>1. k \in Job /\ Ended(k) /\ k \in known /\ (k \in alive => older # {} \/ AtOnce(k))
    BY ProposedMayGo
  <2>2. AtOnce(k) => AtOnce(k)'  BY <1>2 DEF AtOnce, Retention, Ended
  <2> QED  BY <1>2, <1>4, <2>1, <2>2 DEF MayRemove, Freed, Ended
<1>9. RemoveInv'
  <2>1. ASSUME NEW d \in Cleaner, NEW k \in Job,
               k \in todo'[d] \/ (remove'[d].step # "idle" /\ remove'[d].job = k)
        PROVE  MayRemove(k)'
    <3>1. k \in todo'[d] => k \in todo[d] \/ k \in Proposed(older)
      BY <1>1 DEF SnapInv, TypeOK
    <3> QED  BY <1>2, <1>7, <1>8, <2>1, <3>1 DEF SnapInv, RemoveInv
  <2>2. ASSUME NEW k \in Job, remove'[k].step # "idle"
        PROVE  /\ submit'[k] = "tidy" /\ remove'[k].job = k
               /\ remove'[k].step = "unref" =>
                    tree'[k] = "absent" \/ k \in hist'.forced \/ Slipped(k, "tree")'
    BY <1>2, <1>6, <2>2 DEF SnapInv, RemoveInv, HistGrows, SlipKind
  <2>3. ASSUME NEW r \in Remover, NEW k \in Job,
               remove'[r].step \in {"git", "rest"}, remove'[r].job = k
        PROVE  k \notin links' \/ Slipped(k, "detach")'
    BY <1>2, <1>6, <2>3 DEF SnapInv, RemoveInv, HistGrows, SlipKind
  <2> QED  BY <1>2, <2>1, <2>2, <2>3 DEF SnapInv, RemoveInv
<1>10. DataSafe'  BY <1>4 DEF SnapInv, DataSafe, Slipped
<1> QED  BY <1>5, <1>7, <1>9, <1>10 DEF SnapInv

\* Beginning a removal that is on the list, and dropping everything.
LEMMA CleanerTurns ==
  ASSUME SnapInv, NEW c \in Cleaner,
         UNCHANGED <<row, known, age, submit, commit, ref, tree, links, alive, hist>>,
         todo' \in [Cleaner -> SUBSET Job], deaths' \in Nat,
         \A d \in Cleaner : todo'[d] \subseteq todo[d],
         remove' \in [Remover -> [step : RemoveStep, job : Job \cup {NoJob}]],
         \A r \in Remover \ {c} : remove'[r] = remove[r],
         \/ remove'[c] = NoRemoval
         \/ remove'[c].job \in todo[c] /\ remove'[c].step \notin {"git", "rest"}
  PROVE  SnapInv'
<1>1. TypeOK'  BY DEF SnapInv, TypeOK
<1>2. HistGrows /\ \A k \in Job : Same(k)  BY DEF HistGrows, Slipped, Same
<1>3. \A k \in Job : /\ SubmitInv(k)' /\ LinkInv(k)' /\ RunInv(k)'
                     /\ MayRemove(k) => MayRemove(k)'
  BY <1>2, SameKeeps
<1>4. RemoveInv'
  <2>1. ASSUME NEW d \in Cleaner, NEW k \in Job,
               k \in todo'[d] \/ (remove'[d].step # "idle" /\ remove'[d].job = k)
        PROVE  MayRemove(k)'
    <3>1. d = c \/ remove'[d] = remove[d]  BY DEF Remover
    <3>2. \/ k \in todo[d] \/ k \in todo[c]
          \/ remove[d].step # "idle" /\ remove[d].job = k
      BY <2>1, <3>1 DEF NoRemoval
    <3> QED  BY <1>3, <3>2 DEF SnapInv, RemoveInv
  <2>2. ASSUME NEW k \in Job, remove'[k].step # "idle"
        PROVE  /\ submit'[k] = "tidy" /\ remove'[k].job = k
               /\ remove'[k].step = "unref" =>
                    tree'[k] = "absent" \/ k \in hist'.forced \/ Slipped(k, "tree")'
    <3>1. remove'[k] = remove[k]  BY IdsAreNotCleaners DEF Remover
    <3> QED  BY <1>2, <2>2, <3>1 DEF SnapInv, RemoveInv, HistGrows, SlipKind
  <2>3. ASSUME NEW r \in Remover, NEW k \in Job,
               remove'[r].step \in {"git", "rest"}, remove'[r].job = k
        PROVE  k \notin links' \/ Slipped(k, "detach")'
    <3>1. remove'[r] = remove[r]  BY <2>3 DEF NoRemoval
    <3> QED  BY <1>2, <2>3, <3>1 DEF SnapInv, RemoveInv, HistGrows, SlipKind
  <2>4. \A r \in Remover : remove'[r].step # "idle" => remove'[r].job \in Job
    BY DEF SnapInv, TypeOK, RemoveInv, NoRemoval
  <2> QED  BY <2>1, <2>2, <2>3, <2>4 DEF RemoveInv
<1>5. DataSafe'  BY DEF SnapInv, DataSafe, Slipped
<1> QED  BY <1>1, <1>3, <1>4, <1>5 DEF SnapInv

LEMMA ExecuteKeeps ==
  ASSUME SnapInv, NEW c \in Cleaner, Execute(c)
  PROVE  SnapInv'
<1>1. PICK j \in todo[c] :
        /\ todo' = [todo EXCEPT ![c] = @ \ {j}]
        /\ remove' = [remove EXCEPT ![c] =
             [step |-> IF tree[j] = "absent" THEN "unref" ELSE "detach", job |-> j]]
  BY DEF Execute
<1>2. /\ UNCHANGED <<row, known, age, submit, commit, ref, tree, links, alive, hist>>
      /\ deaths' = deaths
  BY DEF Execute, rowVars, repoVars, treeVars
<1>3. c \in Remover /\ j \in Job  BY DEF SnapInv, TypeOK, Remover
<1>4. /\ todo' \in [Cleaner -> SUBSET Job] /\ \A d \in Cleaner : todo'[d] \subseteq todo[d]
      /\ remove' \in [Remover -> [step : RemoveStep, job : Job \cup {NoJob}]]
      /\ \A r \in Remover \ {c} : remove'[r] = remove[r]
      /\ remove'[c].job = j /\ remove'[c].step \notin {"git", "rest"}
  BY <1>1, <1>3 DEF SnapInv, TypeOK, RemoveStep
<1> QED  BY <1>1, <1>2, <1>4, CleanerTurns DEF SnapInv, TypeOK

LEMMA CleanerDiesKeeps ==
  ASSUME SnapInv, NEW c \in Cleaner, CleanerDies(c)
  PROVE  SnapInv'
<1>1. /\ UNCHANGED <<row, known, age, submit, commit, ref, tree, links, alive, hist>>
      /\ deaths' = deaths + 1
      /\ todo' = [todo EXCEPT ![c] = {}] /\ remove' = [remove EXCEPT ![c] = NoRemoval]
  BY DEF CleanerDies, rowVars, repoVars, treeVars
<1>2. c \in Remover  BY DEF Remover
<1>3. /\ todo' \in [Cleaner -> SUBSET Job] /\ \A d \in Cleaner : todo'[d] \subseteq todo[d]
      /\ remove' \in [Remover -> [step : RemoveStep, job : Job \cup {NoJob}]]
      /\ \A r \in Remover \ {c} : remove'[r] = remove[r]
      /\ remove'[c] = NoRemoval /\ deaths' \in Nat
  BY <1>1, <1>2 DEF SnapInv, TypeOK, RemoveStep, NoRemoval
<1> QED  BY <1>1, <1>3, CleanerTurns

\* A removal goes from one step to the next: what it may do to its job, and
\* what has to hold when the next step begins.
LEMMA RemovalKeeps ==
  ASSUME SnapInv, NEW r \in Remover, remove[r].step # "idle", NEW t \in Job, Of(r) = t,
         NEW next \in RemoveStep \ {"idle"}, remove' = [remove EXCEPT ![r].step = next],
         UNCHANGED <<row, known, age, submit, commit, ref, alive, todo, deaths>>,
         HistGrows, hist' \in [wiped : SUBSET Job, forced : SUBSET Job, slips : SUBSET Slip],
         tree' \in [Job -> {"absent", "part", "whole"}],
         \A k \in Job \ {t} : tree'[k] = tree[k],
         tree[t] = "absent" => tree'[t] = "absent",
         next = "unref" =>
           tree'[t] = "absent" \/ t \in alive \/ Slipped(t, "tree")',
         tree'[t] \in {"absent", tree[t]} \/ t \in alive \/ Slipped(t, "tree")',
         links' \subseteq links, links \subseteq links' \cup {t},
         next \in {"git", "rest"} => t \notin links' \/ Slipped(t, "detach")',
         DataSafe'
  PROVE  SnapInv'
<1>1. /\ Ended(t) /\ submit[t] \notin Making /\ (t \in alive => Freed(t))
      /\ r \in Job => t = r /\ submit[r] = "tidy" /\ (r \in alive => r \in hist.forced)
  BY RemovalTarget
<1>2. /\ remove' \in [Remover -> [step : RemoveStep, job : Job \cup {NoJob}]]
      /\ remove'[r].step = next /\ remove'[r].job = t
      /\ \A s \in Remover \ {r} : remove'[s] = remove[s]
  BY DEF SnapInv, TypeOK, Of
<1>3. TypeOK'  BY <1>2 DEF SnapInv, TypeOK
<1>4. OnlyAbout(t)  BY <1>1 DEF OnlyAbout, Same
<1>5. Freed(t) => Freed(t)'  BY <1>1 DEF HistGrows, Freed, AtOnce, Retention, Ended
<1>6. SubmitInv(t)'
  <2>1. row[t] # "PREPARING"  BY <1>1 DEF Ended, TERMINAL_STATES
  <2>2. SubmitInv(t) /\ RunInv(t)  BY <1>1 DEF SnapInv
  <2>3. submit[t] = "failed" /\ t \in alive => t \in hist.forced
    BY <2>2 DEF RunInv, Through
  <2> QED
    BY <1>1, <2>1, <2>2, <2>3 DEF SubmitInv, Making, HistGrows, SlipKind, Ended
<1>7. LinkInv(t)'  BY <1>1 DEF SnapInv, LinkInv
<1>8. RunInv(t)'
  BY <1>1, <1>5 DEF SnapInv, RunInv, HistGrows, Ended, TERMINAL_STATES
<1>9. ASSUME NEW k \in Job, MayRemove(k) PROVE MayRemove(k)'
  <2>1. row'[k] = row[k] /\ known \subseteq known' /\ alive' = alive  OBVIOUS
  <2> QED  BY <1>9, <2>1, MayRemoveStays
<1>10. RemoveInv'
  <2>1. ASSUME NEW c \in Cleaner, NEW k \in Job,
               k \in todo'[c] \/ (remove'[c].step # "idle" /\ remove'[c].job = k)
        PROVE  MayRemove(k)'
    <3>1. remove'[c].job = remove[c].job /\ (remove'[c].step # "idle" => remove[c].step # "idle")
      BY <1>2 DEF Remover, Of
    <3> QED  BY <1>9, <2>1, <3>1 DEF SnapInv, RemoveInv
  <2>2. ASSUME NEW k \in Job, remove'[k].step # "idle"
        PROVE  /\ submit'[k] = "tidy" /\ remove'[k].job = k
               /\ remove'[k].step = "unref" =>
                    tree'[k] = "absent" \/ k \in hist'.forced \/ Slipped(k, "tree")'
    <3>1. k \in Remover  BY DEF Remover
    <3>2. CASE k = r  BY <1>1, <1>2, <3>2 DEF HistGrows
    <3>3. CASE k # r
      <4>1. remove'[k] = remove[k]  BY <1>2, <3>1, <3>3
      <4>2. /\ submit[k] = "tidy" /\ remove[k].job = k
            /\ remove[k].step = "unref" =>
                 tree[k] = "absent" \/ k \in hist.forced \/ Slipped(k, "tree")
        BY <2>2, <4>1 DEF SnapInv, RemoveInv
      <4>3. tree[k] = "absent" => tree'[k] = "absent"  OBVIOUS
      <4> QED  BY <4>1, <4>2, <4>3 DEF HistGrows, SlipKind
    <3> QED  BY <3>2, <3>3
  <2>3. ASSUME NEW s \in Remover, NEW k \in Job,
               remove'[s].step \in {"git", "rest"}, remove'[s].job = k
        PROVE  k \notin links' \/ Slipped(k, "detach")'
    <3>1. CASE s = r  BY <1>2, <2>3, <3>1
    <3>2. CASE s # r
      <4>1. remove'[s] = remove[s]  BY <1>2, <3>2
      <4> QED  BY <2>3, <4>1 DEF SnapInv, RemoveInv, HistGrows, SlipKind
    <3> QED  BY <3>1, <3>2
  <2>4. \A s \in Remover : remove'[s].step # "idle" => remove'[s].job \in Job
    BY <1>2 DEF SnapInv, RemoveInv
  <2> QED  BY <2>1, <2>2, <2>3, <2>4 DEF RemoveInv
<1> QED  BY <1>1, <1>3, <1>4, <1>6, <1>7, <1>8, <1>10, OthersKeep

LEMMA DetachKeeps ==
  ASSUME SnapInv, NEW r \in Remover, Detach(r)
  PROVE  SnapInv'
<1>1. PICK t \in Job : Of(r) = t  BY RemovalTarget DEF Detach, Doing
<1>2. /\ links' \subseteq links /\ links \subseteq links' \cup {t}
      /\ t \notin links' \/ Slipped(t, "detach")'
      /\ hist' \in [wiped : SUBSET Job, forced : SUBSET Job, slips : SUBSET Slip]
      /\ hist'.wiped = hist.wiped /\ HistGrows
  <2>1. CASE links' = links \ {t} /\ UNCHANGED hist
    BY <2>1 DEF SnapInv, TypeOK, HistGrows, Slipped
  <2>2. CASE Slips(t, "detach") /\ UNCHANGED links
    BY <1>1, <2>2, SlipsGrow DEF SnapInv, SlipKind
  <2> QED  BY <1>1, <2>1, <2>2 DEF Detach
<1>3. DataSafe'  BY <1>2 DEF SnapInv, TypeOK, DataSafe, HistGrows, SlipKind
<1>4. /\ UNCHANGED <<row, known, age, submit, commit, ref, tree, alive, todo, deaths>>
      /\ remove[r].step = "detach" /\ remove' = [remove EXCEPT ![r].step = "git"]
  BY DEF Detach, Doing, Then, rowVars, repoVars
<1>5. tree \in [Job -> {"absent", "part", "whole"}]  BY DEF SnapInv, TypeOK
<1> QED  BY <1>1, <1>2, <1>3, <1>4, <1>5, RemovalKeeps DEF RemoveStep

\* What a recursive removal met: its junction could not be detached, or was.
LEMMA RemovalIsSafe ==
  ASSUME SnapInv, NEW r \in Remover, NEW t \in Job, Of(r) = t, HistGrows,
         remove[r].step \in {"git", "rest"},
         hist'.wiped \subseteq hist.wiped \cup (links \cap {t}),
         hist' \in [wiped : SUBSET Job, forced : SUBSET Job, slips : SUBSET Slip]
  PROVE  DataSafe'
<1>1. t \notin links \/ Slipped(t, "detach")  BY DEF SnapInv, RemoveInv, Of
<1>2. \A k \in hist'.wiped : k \in Job /\ (k \in Refusable \/ Slipped(k, "detach"))
  BY <1>1 DEF SnapInv, DataSafe
<1> QED  BY <1>2 DEF DataSafe, HistGrows, SlipKind

LEMMA GitRemoveKeeps ==
  ASSUME SnapInv, NEW r \in Remover, GitRemove(r)
  PROVE  SnapInv'
<1>1. /\ UNCHANGED <<row, known, age, submit, commit, ref, alive, todo, deaths>>
      /\ remove[r].step = "git" /\ remove' = [remove EXCEPT ![r].step = "rest"]
  BY DEF GitRemove, Doing, Then, rowVars, repoVars
<1>2. PICK t \in Job : Of(r) = t  BY <1>1, RemovalTarget
<1>3. /\ tree' \in [Job -> {"absent", "part", "whole"}]
      /\ \A k \in Job \ {t} : tree'[k] = tree[k]
      /\ tree[t] = "absent" => tree'[t] = "absent"
      /\ tree'[t] \in {"absent", tree[t]} \/ t \in alive \/ Slipped(t, "tree")'
      /\ links' \subseteq links /\ links \subseteq links' \cup {t}
      /\ hist' \in [wiped : SUBSET Job, forced : SUBSET Job, slips : SUBSET Slip]
      /\ hist'.wiped \subseteq hist.wiped \cup (links \cap {t}) /\ HistGrows
  <2>1. CASE Clears(t) \/ BreaksOff(t)
    BY <1>2, <2>1, RemovalTakes DEF SnapInv
  <2>2. CASE UNCHANGED <<treeVars, hist>>
    BY <2>2 DEF SnapInv, TypeOK, treeVars, HistGrows, Slipped
  <2> QED  BY <1>2, <2>1, <2>2 DEF GitRemove
<1>4. DataSafe'  BY <1>1, <1>2, <1>3, RemovalIsSafe
<1>5. t \notin links' \/ Slipped(t, "detach")'
  <2>1. t \notin links \/ Slipped(t, "detach")  BY <1>1, <1>2 DEF SnapInv, RemoveInv, Of
  <2> QED  BY <1>2, <1>3, <2>1 DEF HistGrows, SlipKind
<1> QED  BY <1>1, <1>2, <1>3, <1>4, <1>5, RemovalKeeps DEF RemoveStep

LEMMA RemoveRestKeeps ==
  ASSUME SnapInv, NEW r \in Remover, RemoveRest(r)
  PROVE  SnapInv'
<1>1. /\ UNCHANGED <<row, known, age, submit, commit, ref, alive, todo, deaths>>
      /\ remove[r].step = "rest" /\ remove' = [remove EXCEPT ![r].step = "unref"]
  BY DEF RemoveRest, Doing, Then, rowVars, repoVars
<1>2. PICK t \in Job : Of(r) = t  BY <1>1, RemovalTarget
<1>3. /\ tree' \in [Job -> {"absent", "part", "whole"}]
      /\ \A k \in Job \ {t} : tree'[k] = tree[k]
      /\ tree[t] = "absent" => tree'[t] = "absent"
      /\ tree'[t] = "absent" \/ t \in alive \/ Slipped(t, "tree")'
      /\ links' \subseteq links /\ links \subseteq links' \cup {t}
      /\ hist' \in [wiped : SUBSET Job, forced : SUBSET Job, slips : SUBSET Slip]
      /\ hist'.wiped \subseteq hist.wiped \cup (links \cap {t}) /\ HistGrows
  <2>1. Clears(t) \/ BreaksOff(t)  BY <1>2 DEF RemoveRest
  <2> QED  BY <2>1, RemovalTakes DEF SnapInv
<1>4. DataSafe'  BY <1>1, <1>2, <1>3, RemovalIsSafe
<1> QED  BY <1>1, <1>2, <1>3, <1>4, RemovalKeeps DEF RemoveStep

LEMMA DropRefKeeps ==
  ASSUME SnapInv, NEW r \in Remover, DropRef(r)
  PROVE  SnapInv'
<1>1. /\ UNCHANGED <<row, known, age, commit, tree, links, alive, todo, deaths>>
      /\ remove[r].step = "unref" /\ remove' = [remove EXCEPT ![r] = NoRemoval]
      /\ submit' = IF r \in Job THEN [submit EXCEPT ![r] = "failed"] ELSE submit
  BY DEF DropRef, Doing, Go, rowVars, treeVars
<1>2. PICK t \in Job : Of(r) = t  BY <1>1, RemovalTarget
<1>3. /\ Ended(t) /\ submit[t] \notin Making
      /\ r \in Job => t = r /\ submit[r] = "tidy" /\ (r \in alive => r \in hist.forced)
  BY <1>1, <1>2, RemovalTarget
<1>4. r \in Job => tree[r] = "absent" \/ r \in hist.forced \/ Slipped(r, "tree")
  BY <1>1 DEF SnapInv, RemoveInv
<1>5. /\ ref' \subseteq ref /\ ref \subseteq ref' \cup {t}
      /\ t \notin ref' \/ Slipped(t, "ref")'
      /\ hist' \in [wiped : SUBSET Job, forced : SUBSET Job, slips : SUBSET Slip]
      /\ hist'.wiped = hist.wiped /\ HistGrows
  <2>1. CASE ref' = ref \ {t} /\ UNCHANGED hist
    BY <2>1 DEF SnapInv, TypeOK, HistGrows, Slipped
  <2>2. CASE Slips(t, "ref") /\ UNCHANGED ref
    BY <1>2, <2>2, SlipsGrow DEF SnapInv, SlipKind
  <2> QED  BY <1>2, <2>1, <2>2 DEF DropRef
<1>6. /\ remove' \in [Remover -> [step : RemoveStep, job : Job \cup {NoJob}]]
      /\ \A s \in Remover \ {r} : remove'[s] = remove[s]
      /\ remove'[r] = NoRemoval
  BY <1>1 DEF SnapInv, TypeOK, NoRemoval, RemoveStep
<1>7. /\ submit' \in [Job -> SubmitPc] /\ \A k \in Job \ {t} : submit'[k] = submit[k]
      /\ submit'[t] = submit[t] \/ (t = r /\ submit'[t] = "failed" /\ submit[t] = "tidy")
  BY <1>1, <1>2, <1>3 DEF SnapInv, TypeOK, SubmitPc
<1>8. TypeOK'  BY <1>1, <1>5, <1>6, <1>7 DEF SnapInv, TypeOK
<1>9. OnlyAbout(t)  BY <1>1, <1>2, <1>3, <1>5, <1>7 DEF OnlyAbout, Same
<1>10. SubmitInv(t)'
  <2>1. row[t] \notin {"PREPARING", Never}  BY <1>3 DEF Ended, TERMINAL_STATES, Never
  <2>2. SubmitInv(t)  BY DEF SnapInv
  <2> QED
    BY <1>1, <1>2, <1>3, <1>4, <1>5, <1>7, <2>1, <2>2 DEF SubmitInv, Making, HistGrows, SlipKind, Ended
<1>11. LinkInv(t)'  BY <1>1, <1>2, <1>3, <1>7 DEF SnapInv, LinkInv
<1>12. RunInv(t)'
  <2>1. RunInv(t) /\ row[t] \notin {"QUEUED", "RUNNING"}
    BY <1>3 DEF SnapInv, Ended, TERMINAL_STATES
  <2>2. Freed(t) => Freed(t)'  BY <1>1, <1>5 DEF HistGrows, Freed, AtOnce, Retention, Ended
  <2> QED  BY <1>1, <1>2, <1>3, <1>5, <1>7, <2>1, <2>2 DEF RunInv, HistGrows, Ended, Through
<1>13. RemoveInv'
  <2>1. ASSUME NEW k \in Job, MayRemove(k) PROVE MayRemove(k)'
    BY <1>1, <1>5, <2>1, MayRemoveStays
  <2>2. ASSUME NEW c \in Cleaner, NEW k \in Job,
               k \in todo'[c] \/ (remove'[c].step # "idle" /\ remove'[c].job = k)
        PROVE  MayRemove(k)'
    <3>1. remove'[c] = remove[c] \/ remove'[c].step = "idle"
      BY <1>6 DEF Remover, NoRemoval
    <3> QED  BY <1>1, <2>1, <2>2, <3>1 DEF SnapInv, RemoveInv
  <2>3. ASSUME NEW k \in Job, remove'[k].step # "idle"
        PROVE  /\ submit'[k] = "tidy" /\ remove'[k].job = k
               /\ remove'[k].step = "unref" =>
                    tree'[k] = "absent" \/ k \in hist'.forced \/ Slipped(k, "tree")'
    <3>1. k # r /\ remove'[k] = remove[k]  BY <1>6, <2>3 DEF Remover, NoRemoval
    <3>2. submit'[k] = submit[k]  BY <1>1, <3>1 DEF SnapInv, TypeOK
    <3> QED
      BY <1>1, <1>5, <2>3, <3>1, <3>2 DEF SnapInv, RemoveInv, HistGrows, SlipKind
  <2>4. ASSUME NEW s \in Remover, NEW k \in Job,
               remove'[s].step \in {"git", "rest"}, remove'[s].job = k
        PROVE  k \notin links' \/ Slipped(k, "detach")'
    <3>1. remove'[s] = remove[s]  BY <1>6, <2>4 DEF NoRemoval
    <3> QED  BY <1>1, <1>5, <2>4, <3>1 DEF SnapInv, RemoveInv, HistGrows, SlipKind
  <2>5. \A s \in Remover : remove'[s].step # "idle" => remove'[s].job \in Job
    BY <1>6 DEF SnapInv, RemoveInv, NoRemoval
  <2> QED  BY <2>2, <2>3, <2>4, <2>5 DEF RemoveInv
<1>14. DataSafe'  BY <1>5 DEF SnapInv, TypeOK, DataSafe, HistGrows, SlipKind
<1> QED  BY <1>2, <1>5, <1>8, <1>9, <1>10, <1>11, <1>12, <1>13, <1>14, OthersKeep


\* The invariant holds before anything was submitted.
LEMMA SnapInit == Init => SnapInv
<1> SUFFICES ASSUME Init PROVE SnapInv  OBVIOUS
<1>1. TypeOK
  BY SnapshotsAssumption DEF Init, TypeOK, SubmitPc, RemoveStep, NoRemoval, Remover, JobState
<1>2. \A j \in Job : SubmitInv(j) /\ LinkInv(j) /\ RunInv(j)
  BY DEF Init, SubmitInv, LinkInv, RunInv, Making, Ended, TERMINAL_STATES, Never
<1>3. RemoveInv  BY DEF Init, RemoveInv, NoRemoval, Remover
<1>4. DataSafe  BY DEF Init, DataSafe
<1> QED  BY <1>1, <1>2, <1>3, <1>4 DEF SnapInv

LEMMA SnapStep ==
  ASSUME SnapInv, [Next]_vars
  PROVE  SnapInv'
<1>1. ASSUME NEW j \in Job, Submits(j) PROVE SnapInv'
  BY <1>1, InsertKeeps, CommitKeeps, AnchorKeeps, AddWorktreeKeeps, LinkKeeps,
     LinkMoreKeeps, UndoKeeps, UndoRefKeeps, FailKeeps, RecordKeeps, QueueKeeps,
     SubmittedKeeps, RejectKeeps, SubmitDiesKeeps DEF Submits
<1>2. ASSUME NEW j \in Job, Lives(j) PROVE SnapInv'
  BY <1>2, StartsKeeps, DisplacedKeeps, EndsKeeps, GivenUpKeeps, GoneKeeps,
     StalePreparingKeeps, GcKeeps DEF Lives
<1>3. ASSUME NEW r \in Remover, Removes(r) PROVE SnapInv'
  BY <1>3, DetachKeeps, GitRemoveKeeps, RemoveRestKeeps, DropRefKeeps DEF Removes
<1>4. ASSUME NEW c \in Cleaner, Cleans(c) PROVE SnapInv'
  BY <1>4, PlanKeeps, ExecuteKeeps, CleanerDiesKeeps DEF Cleans
<1>5. CASE UNCHANGED vars
  <2>1. UNCHANGED <<row, known, age, submit, commit, ref, tree, links, alive, todo, remove,
                    deaths, hist>>
    BY <1>5 DEF vars, rowVars, repoVars, treeVars, cleanVars
  <2>2. HistGrows /\ \A k \in Job : Same(k)  BY <2>1 DEF HistGrows, Slipped, Same
  <2>3. RemoveInv' /\ DataSafe' /\ TypeOK'
    BY <2>1 DEF SnapInv, TypeOK, RemoveInv, MayRemove, Freed, AtOnce, Retention, Ended,
       DataSafe, Slipped
  <2> QED  BY <2>2, <2>3, SameKeeps DEF SnapInv
<1> QED  BY <1>1, <1>2, <1>3, <1>4, <1>5, TickKeeps DEF Next

\* What holds at every step of a submission, a removal and a run is an
\* invariant, for any number of jobs, of cleaners and of mishaps, whichever
\* links, removals and refs fail, and for every retention, none included.
THEOREM SnapshotInvariant == Spec => []SnapInv
BY SnapInit, SnapStep, PTL DEF Spec

\* A job that is queued or runs has its worktree, the links that could be made,
\* and its commit (docstring of snapshot.py: "a job submitted at source state S
\* runs S").
THEOREM SourceStaysReady == Spec => []SourceReady
<1>1. SnapInv => SourceReady  BY DEF SnapInv, RunInv, SourceReady, Built
<1> QED  BY <1>1, SnapshotInvariant, PTL

\* No worktree goes from under a process, except one that a user or a failing
\* submission forced out, or whose retention is configured to be nothing.
THEOREM TreesOutliveProcesses == Spec => []TreeOutlivesProcess
<1>1. SnapInv => TreeOutlivesProcess
  BY DEF SnapInv, TypeOK, RunInv, Freed, TreeOutlivesProcess
<1> QED  BY <1>1, SnapshotInvariant, PTL

\* A submission that failed leaves a worktree behind only when a removal of it
\* broke off or the job had started, and a ref only when its deletion failed.
THEOREM FailureLeavesNothing == Spec => []NothingHalfBuilt
<1>1. SnapInv => NothingHalfBuilt  BY DEF SnapInv, SubmitInv, NothingHalfBuilt
<1> QED  BY <1>1, SnapshotInvariant, PTL

\* The data behind the junctions survives every removal but two: the one of a
\* submission whose passthrough was refused half-way, and one that meets a
\* junction which could not be detached.
THEOREM DataIsSafe == Spec => []DataSafe
<1>1. SnapInv => DataSafe  BY DEF SnapInv, DataSafe
<1> QED  BY <1>1, SnapshotInvariant, PTL

=============================================================================
