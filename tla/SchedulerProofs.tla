-------------------------- MODULE SchedulerProofs --------------------------
(****************************************************************************)
(* The queue pass, for every machine, every set of jobs and every setting   *)
(* of backfill: types and positions, the slots, the ledger of declared      *)
(* requests, and what the look-ahead is spent on; and where a job goes that *)
(* is sent elsewhere: reports that add up, and a node that is not piled up. *)
(****************************************************************************)
EXTENDS Scheduler, NodeReports, SumProofs, SequenceTheorems

----------------------------------------------------------------------------
(* The order of the queue.                                                  *)

\* order, with j added to the set of its members or taken from it.
Ordered(s, S) == s \in Seq(Jobs) /\ IsInjective(s) /\ ToSet(s) = S

LEMMA PlaceOf ==
  ASSUME Ordered(order, QueuedJobs), NEW j \in QueuedJobs
  PROVE  Place(j) \in 1 .. Len(order) /\ order[Place(j)] = j
<1>1. \E i \in DOMAIN order : order[i] = j
  BY DEF Ordered, ToSet
<1>2. DOMAIN order = 1 .. Len(order)
  BY DEF Ordered
<1> QED BY <1>1, <1>2 DEF Place

LEMMA WithoutOrdered ==
  ASSUME Ordered(order, QueuedJobs), NEW j \in QueuedJobs
  PROVE  Ordered(Without(j), QueuedJobs \ {j})
<1> DEFINE p == Place(j)
           n == Len(order)
           w == Without(j)
<1>1. p \in 1 .. n /\ order[p] = j /\ n \in Nat /\ order \in [1 .. n -> Jobs]
  BY PlaceOf DEF Ordered
<1>2. w \in Seq(Jobs) /\ Len(w) = n - 1
  BY <1>1 DEF Ordered, Without, RemoveAt
<1>3. \A i \in 1 .. n - 1 : w[i] = IF i < p THEN order[i] ELSE order[i + 1]
  <2> DEFINE a == SubSeq(order, 1, p - 1)
             b == SubSeq(order, p + 1, n)
  <2>1. a \in Seq(Jobs) /\ Len(a) = p - 1 /\ \A i \in 1 .. p - 1 : a[i] = order[i]
    BY <1>1 DEF Ordered
  <2>2. b \in Seq(Jobs) /\ Len(b) = n - p /\ \A i \in 1 .. n - p : b[i] = order[p + i]
    <3> HIDE DEF p, n
    <3>1. \A i \in p + 1 .. n : order[i] \in Jobs
      BY <1>1
    <3>2. b \in Seq(Jobs) /\ Len(b) = n - p
      BY <1>1, <3>1, SubSeqProperties
    <3>3. \A i \in 1 .. n - (p + 1) + 1 : b[i] = order[(p + 1) + i - 1]
      BY <1>1, <3>1, SubSeqProperties
    <3> QED BY <1>1, <3>2, <3>3
  <2>3. w = a \o b
    BY DEF Without, RemoveAt
  <2> HIDE DEF a, b, w, p, n
  <2>4. \A i \in 1 .. n - 1 : w[i] = IF i <= p - 1 THEN a[i] ELSE b[i - (p - 1)]
    BY <1>1, <2>1, <2>2, <2>3
  <2> QED BY <1>1, <2>1, <2>2, <2>4
<1>4. DOMAIN w = 1 .. n - 1
  BY <1>2
<1>5. \A i, k \in 1 .. n : order[i] = order[k] => i = k
  BY <1>1 DEF Ordered, IsInjective
<1> HIDE DEF w, p, n
<1>6. IsInjective(w)
  BY <1>1, <1>3, <1>4, <1>5 DEF IsInjective
<1>7. ToSet(order) = {order[i] : i \in 1 .. n}
  BY <1>1 DEF ToSet
<1>8. ToSet(w) = {w[i] : i \in 1 .. n - 1}
  BY <1>4 DEF ToSet
<1>9. ASSUME NEW x \in ToSet(w) PROVE x \in ToSet(order) \ {j}
  <2>1. PICK i \in 1 .. n - 1 : x = w[i]
    BY <1>8, <1>9
  <2> QED BY <2>1, <1>1, <1>3, <1>5, <1>7
<1>10. ASSUME NEW x \in ToSet(order) \ {j} PROVE x \in ToSet(w)
  <2>1. PICK i \in 1 .. n : x = order[i] /\ i # p
    BY <1>1, <1>7
  <2>2. CASE i < p
    BY <2>1, <2>2, <1>1, <1>3, <1>8
  <2>3. CASE i > p
    <3>1. i - 1 \in 1 .. n - 1 /\ w[i - 1] = order[i]
      BY <2>1, <2>3, <1>1, <1>3
    <3> QED BY <2>1, <3>1, <1>8
  <2> QED BY <2>1, <2>2, <2>3, <1>1
<1> QED BY <1>2, <1>6, <1>9, <1>10 DEF Ordered, w

LEMMA AppendOrdered ==
  ASSUME NEW s, NEW S, Ordered(s, S), NEW j \in Jobs \ S
  PROVE  Ordered(Append(s, j), S \cup {j}) 
<1> DEFINE n == Len(s)
           a == Append(s, j)
<1>1. n \in Nat /\ s \in [1 .. n -> Jobs] /\ a \in Seq(Jobs) /\ DOMAIN a = 1 .. n + 1
  BY DEF Ordered
<1>2. \A i \in 1 .. n + 1 : a[i] = IF i = n + 1 THEN j ELSE s[i]
  BY DEF Ordered
<1>3. \A i \in 1 .. n : s[i] # j
  BY <1>1 DEF Ordered, ToSet
<1> HIDE DEF a
<1>4. IsInjective(a)
  BY <1>1, <1>2, <1>3 DEF Ordered, IsInjective
<1>5. ToSet(a) = S \cup {j}
  <2>1. ASSUME NEW x \in ToSet(a) PROVE x \in S \cup {j}
    BY <1>1, <1>2 DEF Ordered, ToSet
  <2>2. a[n + 1] = j /\ n + 1 \in DOMAIN a
    BY <1>1, <1>2
  <2>3. ASSUME NEW x \in S PROVE x \in ToSet(a)
    <3>1. PICK i \in 1 .. n : s[i] = x
      BY <1>1 DEF Ordered, ToSet
    <3>2. i \in DOMAIN a /\ a[i] = x
      BY <3>1, <1>1, <1>2
    <3> QED BY <3>2 DEF ToSet
  <2> QED BY <2>1, <2>2, <2>3 DEF ToSet
<1> QED BY <1>1, <1>4, <1>5 DEF Ordered, a

LEMMA FrontOrdered ==
  ASSUME NEW s, NEW S, Ordered(s, S), NEW j \in Jobs \ S
  PROVE  Ordered(<<j>> \o s, S \cup {j})
<1> DEFINE n == Len(s)
           a == <<j>> \o s
<1>1. n \in Nat /\ s \in [1 .. n -> Jobs] /\ a \in Seq(Jobs) /\ DOMAIN a = 1 .. n + 1
  BY DEF Ordered
<1>2. \A i \in 1 .. n + 1 : a[i] = IF i = 1 THEN j ELSE s[i - 1]
  BY DEF Ordered
<1>3. \A i \in 1 .. n : s[i] # j
  BY <1>1 DEF Ordered, ToSet
<1> HIDE DEF a
<1>4. IsInjective(a)
  <2> SUFFICES ASSUME NEW i \in 1 .. n + 1, NEW k \in 1 .. n + 1, a[i] = a[k] PROVE i = k
    BY <1>1 DEF IsInjective
  <2>1. CASE i = 1 \/ k = 1
    BY <2>1, <1>1, <1>2, <1>3
  <2>2. CASE i # 1 /\ k # 1
    <3>1. i - 1 \in DOMAIN s /\ k - 1 \in DOMAIN s /\ s[i - 1] = s[k - 1]
      BY <2>2, <1>1, <1>2
    <3>2. i - 1 = k - 1
      BY <3>1 DEF Ordered, IsInjective
    <3> QED BY <3>2, <1>1
  <2> QED BY <2>1, <2>2
<1>5. ToSet(a) = S \cup {j}
  <2>1. ASSUME NEW x \in ToSet(a) PROVE x \in S \cup {j}
    <3>1. PICK i \in 1 .. n + 1 : x = a[i]
      BY <1>1 DEF ToSet
    <3>2. CASE i = 1
      BY <3>1, <3>2, <1>1, <1>2
    <3>3. CASE i # 1
      <4>1. i - 1 \in DOMAIN s /\ x = s[i - 1]
        BY <3>1, <3>3, <1>1, <1>2
      <4> QED BY <4>1 DEF Ordered, ToSet
    <3> QED BY <3>2, <3>3
  <2>2. a[1] = j /\ 1 \in DOMAIN a
    BY <1>1, <1>2
  <2>3. ASSUME NEW x \in S PROVE x \in ToSet(a)
    <3>1. PICK i \in 1 .. n : s[i] = x
      BY <1>1 DEF Ordered, ToSet
    <3>2. i + 1 \in DOMAIN a /\ a[i + 1] = x
      BY <3>1, <1>1, <1>2
    <3> QED BY <3>2 DEF ToSet
  <2> QED BY <2>1, <2>2, <2>3 DEF ToSet
<1> QED BY <1>1, <1>4, <1>5 DEF Ordered, a

----------------------------------------------------------------------------
(* Types.                                                                   *)

LEMMA NextCases ==
  ASSUME Next
  PROVE  \/ \E j \in Jobs : \/ Submit(j) \/ RemoveQueued(j) \/ Promote(j)
                            \/ \E need \in Requests : SetRequests(j, need)
                            \/ \E rank \in Ranks : SetPriority(j, rank)
                            \/ Ends(j) \/ Reap(j) \/ PressureStop(j)
         \/ ForeignChanges \/ Tick \/ Skip \/ Refuse \/ Start
<1>1. CASE \E j \in Jobs : Cli(j) \/ Ends(j) \/ Reap(j) \/ PressureStop(j)
  BY <1>1, Zenon DEF Cli
<1>2. CASE ForeignChanges \/ Tick \/ Look
  BY <1>2, Zenon DEF Look
<1> QED BY <1>1, <1>2, Zenon DEF Next

\* What a step may do to one row, and what that leaves of the sets of rows.
LEMMA RowSets ==
  ASSUME row \in [Jobs -> Row]
  PROVE  /\ \A j \in Jobs : j \in QueuedJobs <=> row[j].state = "QUEUED"
         /\ \A j \in Jobs : j \in Held <=> row[j].state = "RUNNING"
         /\ QueuedJobs \subseteq Jobs /\ Held \subseteq Jobs /\ QueuedJobs \cap Held = {}
  BY DEF QueuedJobs, Held, Row

LEMMA TypesOf ==
  ASSUME TypeOK
  PROVE  /\ row \in [Jobs -> Row] /\ Ordered(order, QueuedJobs)
         /\ alive \subseteq Held /\ \A j \in Jobs : row[j].stop => j \in Held
         /\ pass \in Pass
  BY DEF TypeOK, Ordered

LEMMA Bounds ==
  HeadWait \in Nat /\ MaxHold \in Nat /\ MaxEdits \in Nat /\ MaxRun \in Nat
  BY SchedulerAssumption

LEMMA CountersTyped ==
  ASSUME TypeOK
  PROVE  /\ waited \in [Jobs -> 0..(HeadWait + 1)] /\ spent \in [Jobs -> 0..MaxHold]
         /\ age \in [Jobs -> 0..MaxRun] /\ alive \subseteq Jobs
         /\ edits \in 0..MaxEdits /\ admitted \in [Jobs -> Requests]
         /\ yields \in [Jobs -> SUBSET Jobs]
  BY DEF TypeOK, Held

\* A counter of a job is set.
LEMMA CounterSet ==
  ASSUME NEW m \in Nat, NEW f \in [Jobs -> 0..m], NEW j, NEW n \in 0..m
  PROVE  [f EXCEPT ![j] = n] \in [Jobs -> 0..m]
  OBVIOUS

LEMMA EditTypes ==
  ASSUME TypeOK, Edit
  PROVE  edits' \in 0..MaxEdits
<1>1. edits < MaxEdits /\ edits' = edits + 1
  BY DEF Edit
<1> QED BY <1>1, CountersTyped, Bounds

LEMMA InitTypes == Init => TypeOK
<1> SUFFICES ASSUME Init PROVE TypeOK
  OBVIOUS
<1> USE SchedulerAssumption
<1>1. QueuedJobs = {} /\ Held = {}
  BY DEF Init, QueuedJobs, Held
<1>2. order \in Seq(Jobs) /\ IsInjective(order) /\ ToSet(order) = {}
  BY DEF Init, IsInjective, ToSet
<1>3. pass \in Pass
  BY DEF Init, Rest, Pass
<1>4. row \in [Jobs -> Row]
  BY DEF Init, Row
<1> QED BY <1>1, <1>2, <1>3, <1>4 DEF Init, TypeOK

LEMMA SubmitTypes ==
  ASSUME TypeOK, NEW j \in Jobs, Submit(j)
  PROVE  TypeOK' /\ Held' = Held /\ \A i \in Held : row'[i] = row[i]
<1>1. row \in [Jobs -> Row] /\ Profile[j].need \in Requests /\ Profile[j].rank \in Ranks
  BY SchedulerAssumption DEF TypeOK
<1>2. /\ row[j].state = "out"
      /\ row' = [row EXCEPT ![j] = [row[j] EXCEPT !.state = "QUEUED", !.rank = Profile[j].rank,
                                                  !.need = Profile[j].need]]
  BY DEF Submit
<1>3. /\ row'[j] \in Row /\ row'[j].state = "QUEUED" /\ row'[j].stop = row[j].stop
      /\ \A i \in Jobs \ {j} : row'[i] = row[i]
  BY <1>1, <1>2 DEF Row
<1>4. row' \in [Jobs -> Row]
  BY <1>1, <1>2, <1>3
<1>5. QueuedJobs' = QueuedJobs \cup {j} /\ Held' = Held /\ j \notin QueuedJobs
  BY <1>2, <1>3 DEF QueuedJobs, Held
<1>6. Ordered(order', QueuedJobs')
  BY <1>5, TypesOf, AppendOrdered DEF Submit
<1>7. \A i \in Jobs : row'[i].stop => i \in Held'
  BY <1>3, <1>5 DEF TypeOK
<1>8. waited' \in [Jobs -> 0..(HeadWait + 1)] /\ yields' \in [Jobs -> SUBSET Jobs]
  <2>1. waited' = [waited EXCEPT ![j] = 0] /\ yields' = [i \in Jobs |-> yields[i] \ {j}]
    BY DEF Submit
  <2>2. waited' \in [Jobs -> 0..(HeadWait + 1)]
    BY <2>1, CountersTyped, CounterSet, Bounds
  <2>3. yields' \in [Jobs -> SUBSET Jobs]
    BY <2>1, CountersTyped
  <2> QED BY <2>2, <2>3
<1>9. UNCHANGED <<alive, age, spent, clock, foreign, pass, edits, admitted>>
  BY DEF Submit
<1>10. TypeOK'
  BY <1>4, <1>5, <1>6, <1>7, <1>8, <1>9 DEF Ordered, TypeOK
<1> QED BY <1>2, <1>3, <1>5, <1>10 DEF Held

LEMMA RemoveTypes ==
  ASSUME TypeOK, NEW j \in Jobs, RemoveQueued(j)
  PROVE  TypeOK' /\ Held' = Held /\ \A i \in Held : row'[i] = row[i]
<1>1. /\ row \in [Jobs -> Row] /\ row[j].state = "QUEUED"
      /\ row' = [row EXCEPT ![j].state = "out"]
  BY DEF TypeOK, RemoveQueued
<1>2. /\ row' \in [Jobs -> Row] /\ row'[j].state = "out" /\ row'[j].stop = row[j].stop
      /\ \A i \in Jobs \ {j} : row'[i] = row[i]
  BY <1>1 DEF Row
<1>3. QueuedJobs' = QueuedJobs \ {j} /\ j \in QueuedJobs /\ Held' = Held /\ j \notin Held
  BY <1>1, <1>2 DEF QueuedJobs, Held
<1>4. Ordered(order', QueuedJobs')
  BY <1>3, TypesOf, WithoutOrdered DEF RemoveQueued
<1>5. \A i \in Jobs : row'[i].stop => i \in Held'
  BY <1>2, <1>3 DEF TypeOK
<1>6. TypeOK'
  BY <1>2, <1>3, <1>4, <1>5 DEF TypeOK, RemoveQueued, Ordered, schedVars, history
<1> QED BY <1>2, <1>3, <1>6 DEF Held

\* An edit of a row in place.
LEMMA InPlaceTypes ==
  ASSUME TypeOK, edits' \in 0..MaxEdits, row' \in [Jobs -> Row],
         \A i \in Jobs : row'[i].state = row[i].state /\ row'[i].stop = row[i].stop,
         UNCHANGED <<order, alive, schedVars, foreign, pass, history>>
  PROVE  TypeOK'
<1>1. QueuedJobs' = QueuedJobs /\ Held' = Held
  BY DEF QueuedJobs, Held
<1>2. \A i \in Jobs : row'[i].stop => i \in Held'
  BY <1>1 DEF TypeOK
<1> QED BY <1>1, <1>2 DEF TypeOK, schedVars, history

LEMMA SetRequestsTypes ==
  ASSUME TypeOK, NEW j \in Jobs, NEW need \in Requests, SetRequests(j, need)
  PROVE  TypeOK' /\ Held' = Held /\ \A i \in Held : row'[i] = row[i]
<1>1. row \in [Jobs -> Row] /\ row' = [row EXCEPT ![j].need = need]
  BY DEF TypeOK, SetRequests
<1>2. row' \in [Jobs -> Row]
  BY <1>1 DEF Row
<1>3. \A i \in Jobs : row'[i].state = row[i].state /\ row'[i].stop = row[i].stop
  BY <1>1 DEF Row
<1>4. edits' \in 0..MaxEdits
  BY EditTypes DEF SetRequests
<1>5. Held' = Held /\ \A i \in Held : row'[i] = row[i]
  BY <1>1, <1>3 DEF SetRequests, Held
<1> QED BY <1>2, <1>3, <1>4, <1>5, InPlaceTypes DEF SetRequests

LEMMA SetPriorityTypes ==
  ASSUME TypeOK, NEW j \in Jobs, NEW rank \in Ranks, SetPriority(j, rank)
  PROVE  TypeOK' /\ \A i \in Jobs : row'[i].need = row[i].need /\ row'[i].state = row[i].state
<1>1. row \in [Jobs -> Row] /\ row' = [row EXCEPT ![j].rank = rank]
  BY DEF TypeOK, SetPriority
<1>2. row' \in [Jobs -> Row]
  BY <1>1 DEF Row
<1>3. \A i \in Jobs : /\ row'[i].state = row[i].state /\ row'[i].stop = row[i].stop
                      /\ row'[i].need = row[i].need
  BY <1>1 DEF Row
<1>4. edits' \in 0..MaxEdits
  BY EditTypes DEF SetPriority
<1> QED BY <1>2, <1>3, <1>4, InPlaceTypes DEF SetPriority

LEMMA PromoteTypes ==
  ASSUME TypeOK, NEW j \in Jobs, Promote(j)
  PROVE  TypeOK' /\ \A i \in Jobs : row'[i].need = row[i].need /\ row'[i].state = row[i].state
<1>1. row \in [Jobs -> Row] /\ row' = [row EXCEPT ![j].rank = Critical] /\ Critical \in Ranks
  BY SchedulerAssumption DEF TypeOK, Promote
<1>2. row' \in [Jobs -> Row]
  BY <1>1 DEF Row
<1>3. \A i \in Jobs : /\ row'[i].state = row[i].state /\ row'[i].stop = row[i].stop
                      /\ row'[i].need = row[i].need
  BY <1>1 DEF Row
<1>4. QueuedJobs' = QueuedJobs /\ Held' = Held /\ j \in QueuedJobs
  BY <1>3 DEF Promote, QueuedJobs, Held
<1>5. Ordered(Without(j), QueuedJobs \ {j})
  BY <1>4, TypesOf, WithoutOrdered
<1>6. (QueuedJobs \ {j}) \cup {j} = QueuedJobs /\ j \in Jobs \ (QueuedJobs \ {j})
  BY <1>4
<1>7. Ordered(<<j>> \o Without(j), (QueuedJobs \ {j}) \cup {j})
  BY <1>5, <1>6, FrontOrdered
<1>8. Ordered(order', QueuedJobs')
  BY <1>4, <1>6, <1>7 DEF Promote
<1>9. edits' \in 0..MaxEdits
  BY EditTypes DEF Promote
<1>10. \A i \in Jobs : row'[i].stop => i \in Held'
  BY <1>3, <1>4 DEF TypeOK
<1>11. UNCHANGED <<alive, schedVars, foreign, pass, history>>
  BY DEF Promote
<1>12. TypeOK'
  BY <1>2, <1>4, <1>8, <1>9, <1>10, <1>11 DEF TypeOK, Ordered, schedVars, history
<1> QED BY <1>3, <1>12

LEMMA ReapTypes ==
  ASSUME TypeOK, NEW j \in Jobs, Reap(j)
  PROVE  TypeOK' /\ Held' = Held \ {j} /\ \A i \in Jobs \ {j} : row'[i] = row[i]
<1>1. /\ row \in [Jobs -> Row] /\ j \in Held \ alive
      /\ row' = [row EXCEPT ![j] = [row[j] EXCEPT
                   !.state = IF row[j].stop THEN "QUEUED" ELSE "out", !.stop = FALSE]]
  BY DEF TypeOK, Reap
<1>2. /\ row'[j] \in Row /\ row'[j].state = (IF row[j].stop THEN "QUEUED" ELSE "out")
      /\ ~row'[j].stop /\ \A i \in Jobs \ {j} : row'[i] = row[i]
  BY <1>1 DEF Row
<1>3. row' \in [Jobs -> Row]
  BY <1>1, <1>2
<1>4. Held' = Held \ {j} /\ j \notin QueuedJobs
  BY <1>1, <1>2 DEF QueuedJobs, Held
<1>5. QueuedJobs' = IF row[j].stop THEN QueuedJobs \cup {j} ELSE QueuedJobs
  BY <1>1, <1>2 DEF QueuedJobs, Held
<1>6. Ordered(order', QueuedJobs')
  BY <1>4, <1>5, TypesOf, FrontOrdered DEF Reap
<1>7. \A i \in Jobs : row'[i].stop => i \in Held'
  BY <1>2, <1>4 DEF TypeOK
<1>8. age' \in [Jobs -> 0..MaxRun]
  BY SchedulerAssumption DEF Reap, TypeOK
<1>9. UNCHANGED <<alive, waited, spent, clock, foreign, pass, edits, history>>
  BY DEF Reap
<1>10. alive' \subseteq Held'
  BY <1>1, <1>4, <1>9 DEF TypeOK
<1>11. TypeOK'
  BY <1>3, <1>6, <1>7, <1>8, <1>9, <1>10 DEF TypeOK, Ordered, history
<1> QED BY <1>2, <1>4, <1>11

\* A row that is asked to stop is running.
LEMMA StopTypes ==
  ASSUME TypeOK, NEW V \in SUBSET Held, NEW Y \in [Jobs -> SUBSET Jobs],
         row' = [i \in Jobs |-> [row[i] EXCEPT !.stop = @ \/ i \in V]], yields' = Y
  PROVE  /\ row' \in [Jobs -> Row] /\ yields' \in [Jobs -> SUBSET Jobs]
         /\ QueuedJobs' = QueuedJobs /\ Held' = Held
         /\ \A i \in Jobs : row'[i].stop => i \in Held'
         /\ \A i \in Jobs : row'[i].need = row[i].need /\ row'[i].state = row[i].state
<1>1. row \in [Jobs -> Row]
  BY DEF TypeOK
<1>2. \A i \in Jobs : /\ row'[i] \in Row /\ row'[i].need = row[i].need
                      /\ row'[i].state = row[i].state /\ row'[i].stop = (row[i].stop \/ i \in V)
  <2> TAKE i \in Jobs
  <2>1. row'[i] = [row[i] EXCEPT !.stop = row[i].stop \/ i \in V]
    OBVIOUS
  <2>2. row[i] \in Row /\ row[i].stop \in BOOLEAN
    BY <1>1 DEF Row
  <2> QED BY <2>1, <2>2 DEF Row
<1>3. row' \in [Jobs -> Row]
  BY <1>1, <1>2
<1>4. QueuedJobs' = QueuedJobs /\ Held' = Held
  BY <1>2 DEF QueuedJobs, Held
<1> QED BY <1>2, <1>3, <1>4 DEF TypeOK

LEMMA PressureStopTypes ==
  ASSUME TypeOK, NEW v \in Jobs, PressureStop(v)
  PROVE  TypeOK' /\ \A i \in Jobs : row'[i].need = row[i].need /\ row'[i].state = row[i].state
<1>1. row \in [Jobs -> Row] /\ v \in Held /\ row' = [row EXCEPT ![v].stop = TRUE]
  BY DEF TypeOK, PressureStop, Stopping
<1>2. row' = [i \in Jobs |-> [row[i] EXCEPT !.stop = @ \/ i \in {v}]]
  BY <1>1 DEF Row
<1>3. yields' = [yields EXCEPT ![v] = {}] /\ yields \in [Jobs -> SUBSET Jobs]
  BY DEF PressureStop, TypeOK
<1>4. [yields EXCEPT ![v] = {}] \in [Jobs -> SUBSET Jobs]
  BY <1>3
<1>5. UNCHANGED <<order, alive, schedVars, foreign, pass, edits, admitted>>
  BY DEF PressureStop
<1>6. {v} \in SUBSET Held
  BY <1>1
<1>7. /\ row' \in [Jobs -> Row] /\ yields' \in [Jobs -> SUBSET Jobs]
      /\ QueuedJobs' = QueuedJobs /\ Held' = Held
      /\ \A i \in Jobs : row'[i].stop => i \in Held'
      /\ \A i \in Jobs : row'[i].need = row[i].need /\ row'[i].state = row[i].state
  BY <1>2, <1>3, <1>4, <1>6, StopTypes
<1> QED BY <1>5, <1>7 DEF TypeOK, schedVars

LEMMA RestTyped == Rest \in Pass /\ Rest.todo = <<>>
  BY DEF Rest, Pass

LEMMA QueueTyped ==
  ASSUME TypeOK, NEW q \in Queue
  PROVE  [i \in DOMAIN q |-> Snapshot(q[i])] \in Seq(Seen)
<1>1. q \in [1 .. Cardinality(QueuedJobs) -> QueuedJobs]
  BY DEF Queue, SetToSeqs
<1>2. Cardinality(QueuedJobs) \in Nat
  BY SchedulerAssumption, RowSets, FS_Subset, FS_CardinalityType DEF TypeOK
<1>3. \A j \in QueuedJobs : Snapshot(j) \in Seen
  BY DEF TypeOK, Snapshot, Seen, Row, QueuedJobs
<1>4. [i \in DOMAIN q |-> Snapshot(q[i])] \in [1 .. Cardinality(QueuedJobs) -> Seen]
  BY <1>1, <1>3
<1> QED BY <1>2, <1>4

LEMMA TickTypes ==
  ASSUME TypeOK, Tick
  PROVE  /\ TypeOK' /\ UNCHANGED <<row, admitted>>
         /\ pass'.inFlight = Cardinality(Held)
         /\ pass'.skipped = 0 /\ pass'.refused = {} /\ ~pass'.closed
<1>1. Cardinality(Held) \in Nat
  BY SchedulerAssumption, RowSets, FS_Subset, FS_CardinalityType DEF TypeOK
<1>2. PICK q \in Queue :
        pass' = [Rest EXCEPT !.todo = [i \in DOMAIN q |-> Snapshot(q[i])],
                             !.inFlight = Cardinality(Held)]
  BY Zenon DEF Tick
<1>3. /\ pass' \in Pass /\ pass'.inFlight = Cardinality(Held)
      /\ pass'.skipped = 0 /\ pass'.refused = {} /\ ~pass'.closed
  <2> DEFINE t == [i \in DOMAIN q |-> Snapshot(q[i])]
  <2>1. t \in Seq(Seen)
    BY QueueTyped
  <2> HIDE DEF t
  <2> QED BY <1>1, <1>2, <2>1 DEF Rest, Pass, t
<1>4. UNCHANGED <<row, order, alive, foreign, edits, history>>
  BY DEF Tick
<1>5. age' \in [Jobs -> 0..MaxRun]
  <2>1. /\ age' = [j \in Jobs |-> IF j \in alive THEN age[j] + 1 ELSE age[j]]
        /\ \A j \in alive : age[j] < MaxRun
    BY DEF Tick
  <2> QED BY <2>1, CountersTyped, Bounds
<1>6. waited' \in [Jobs -> 0..(HeadWait + 1)]
  <2>1. waited' = [j \in Jobs |-> IF j \in QueuedJobs /\ waited[j] \in 1..HeadWait
                                  THEN waited[j] + 1 ELSE waited[j]]
    BY DEF Tick
  <2> QED BY <2>1, CountersTyped, Bounds
<1>7. spent' \in [Jobs -> 0..MaxHold] /\ clock' \subseteq Jobs
  <2>1. /\ spent' = [j \in Jobs |-> CASE j \notin QueuedJobs -> 0
                                     [] j \in clock /\ spent[j] < MaxHold -> spent[j] + 1
                                     [] OTHER -> spent[j]]
        /\ clock' = clock \cap QueuedJobs
    BY DEF Tick
  <2>2. clock' \subseteq Jobs
    BY <2>1 DEF QueuedJobs
  <2> QED BY <2>1, <2>2, CountersTyped, Bounds
<1>8. QueuedJobs' = QueuedJobs /\ Held' = Held
  BY <1>4 DEF QueuedJobs, Held
<1> QED BY <1>3, <1>4, <1>5, <1>6, <1>7, <1>8 DEF TypeOK, history

\* After a row: the pass is over, or goes on with the next row.
LEMMA OnwardTyped ==
  ASSUME NEW p \in Pass, p.todo # <<>>
  PROVE  /\ Onward(p) \in Pass
         /\ \/ Onward(p) = Rest
            \/ /\ Onward(p).inFlight = p.inFlight /\ Onward(p).closed = p.closed
               /\ Onward(p).skipped = p.skipped /\ Onward(p).refused = p.refused
<1>1. p.todo \in Seq(Seen) /\ Tail(p.todo) \in Seq(Seen)
  BY DEF Pass
<1>2. CASE Len(p.todo) = 1
  BY <1>2, RestTyped DEF Onward
<1>3. CASE Len(p.todo) # 1
  <2>1. Onward(p) = [p EXCEPT !.todo = Tail(p.todo)]
    BY <1>3 DEF Onward
  <2> HIDE DEF Onward
  <2> QED BY <1>1, <2>1 DEF Pass
<1> QED BY <1>2, <1>3

LEMMA HeadTyped ==
  ASSUME TypeOK, ~Resting
  PROVE  pass \in Pass /\ pass.todo # <<>> /\ Head(pass.todo) \in Seen
  BY DEF TypeOK, Resting, Pass

LEMMA SkipTypes ==
  ASSUME TypeOK, Skip
  PROVE  TypeOK' /\ UNCHANGED <<row, admitted>>
<1>1. ~Resting /\ pass' = Onward(pass)
      /\ UNCHANGED <<row, order, alive, schedVars, foreign, edits, history>>
  BY DEF Skip
<1>2. pass' \in Pass
  BY <1>1, HeadTyped, OnwardTyped
<1>3. QueuedJobs' = QueuedJobs /\ Held' = Held
  BY <1>1 DEF QueuedJobs, Held
<1> QED BY <1>1, <1>2, <1>3 DEF TypeOK, schedVars, history

\* A refused row, what it may displace, and what it leaves in the pass.
LEMMA DisplaceTypes ==
  ASSUME TypeOK, NEW w \in Seen, NEW use,
         ConsiderPreemption(w, use) \/ UNCHANGED <<row, yields>>
  PROVE  /\ row' \in [Jobs -> Row] /\ yields' \in [Jobs -> SUBSET Jobs]
         /\ QueuedJobs' = QueuedJobs /\ Held' = Held
         /\ \A i \in Jobs : row'[i].stop => i \in Held'
         /\ \A i \in Jobs : row'[i].need = row[i].need /\ row'[i].state = row[i].state
<1>1. CASE UNCHANGED <<row, yields>>
  BY <1>1 DEF TypeOK, QueuedJobs, Held
<1>2. CASE ~UNCHANGED <<row, yields>>
  <2>1. PICK V \in Victims(w, use) :
          /\ row' = [j \in Jobs |-> [row[j] EXCEPT !.stop = @ \/ j \in V]]
          /\ yields' = [j \in Jobs |-> IF j \in V THEN {w.job} ELSE yields[j]]
    BY <1>2, Zenon DEF ConsiderPreemption
  <2>2. V \in SUBSET Held
    BY DEF Victims, Candidates
  <2>3. [j \in Jobs |-> IF j \in V THEN {w.job} ELSE yields[j]] \in [Jobs -> SUBSET Jobs]
    BY DEF TypeOK, Seen
  <2> QED BY <2>1, <2>2, <2>3, StopTypes
<1> QED BY <1>1, <1>2

LEMMA RefuseTypes ==
  ASSUME TypeOK, Refuse
  PROVE  /\ TypeOK' /\ Head(pass.todo) \in Seen /\ admitted' = admitted
         /\ \A i \in Jobs : row'[i].need = row[i].need /\ row'[i].state = row[i].state
         /\ \/ pass' = Rest
            \/ /\ pass'.inFlight = pass.inFlight
               /\ IF ~Backfill
                  THEN pass'.skipped = pass.skipped /\ pass'.refused = pass.refused
                  ELSE /\ pass'.skipped = Skipped(Head(pass.todo))
                       /\ pass'.refused = pass.refused \cup {Head(pass.todo).need}
                       /\ pass'.closed = (Skipped(Head(pass.todo)) > MaxSkip)
<1> DEFINE r == Head(pass.todo)
<1>1. r \in Seen /\ pass \in Pass /\ pass.todo # <<>>
  BY HeadTyped DEF Refuse
<1> HIDE DEF r
<1>2. PICK use \in InUse :
       /\ Blocked(r, use)
       /\ waited' = [waited EXCEPT ![r.job] = IF @ = 0 THEN 1 ELSE @]
       /\ IF pass.blocked THEN UNCHANGED <<row, yields>> ELSE ConsiderPreemption(r, use)
       /\ IF ~Backfill
          THEN /\ pass' = Onward([pass EXCEPT !.blocked = TRUE, !.closed = TRUE])
               /\ UNCHANGED clock
          ELSE /\ clock' = CASE pass.blocked    -> clock
                             [] DueHold(r, use) -> clock \cup {r.job}
                             [] OTHER           -> clock \ {r.job}
               /\ pass' = Onward([pass EXCEPT
                    !.blocked = TRUE,
                    !.held = IF ~pass.blocked /\ DueHold(r, use) /\ spent[r.job] < MaxHold
                             THEN {r} ELSE @,
                    !.skipped = Skipped(r),
                    !.refused = @ \cup {r.need},
                    !.closed = Skipped(r) > MaxSkip])
  BY Zenon DEF Refuse, r
<1>3. /\ row' \in [Jobs -> Row] /\ yields' \in [Jobs -> SUBSET Jobs]
      /\ QueuedJobs' = QueuedJobs /\ Held' = Held
      /\ \A i \in Jobs : row'[i].stop => i \in Held'
      /\ \A i \in Jobs : row'[i].need = row[i].need /\ row'[i].state = row[i].state
  <2>1. ConsiderPreemption(r, use) \/ UNCHANGED <<row, yields>>
    BY <1>2
  <2> QED BY <1>1, <2>1, DisplaceTypes
<1>4. waited' \in [Jobs -> 0..(HeadWait + 1)]
  <2>1. \/ waited' = [waited EXCEPT ![r.job] = 1] \/ waited' = waited
    BY <1>1, <1>2, CountersTyped
  <2>2. 1 \in 0..(HeadWait + 1)
    BY Bounds
  <2> QED BY <2>1, <2>2, CountersTyped, CounterSet, Bounds
<1>5. clock' \subseteq Jobs
  <2>1. \/ clock' = clock \/ clock' = clock \cup {r.job} \/ clock' = clock \ {r.job}
    BY <1>2
  <2> QED BY <2>1, <1>1 DEF TypeOK, Seen
<1>6. Skipped(r) \in Nat
  BY <1>1 DEF Skipped, Pass
<1>7. /\ pass' \in Pass
      /\ \/ pass' = Rest
         \/ /\ pass'.inFlight = pass.inFlight
            /\ IF ~Backfill
               THEN pass'.skipped = pass.skipped /\ pass'.refused = pass.refused
               ELSE /\ pass'.skipped = Skipped(r)
                    /\ pass'.refused = pass.refused \cup {r.need}
                    /\ pass'.closed = (Skipped(r) > MaxSkip)
  <2>1. CASE ~Backfill
    <3> DEFINE p == [pass EXCEPT !.blocked = TRUE, !.closed = TRUE]
    <3>1. /\ p \in Pass /\ p.todo # <<>> /\ p.inFlight = pass.inFlight
          /\ p.skipped = pass.skipped /\ p.refused = pass.refused
      BY <1>1 DEF Pass
    <3>2. pass' = Onward(p)
      BY <2>1, <1>2
    <3> HIDE DEF p
    <3> QED BY <2>1, <3>1, <3>2, OnwardTyped
  <2>2. CASE Backfill
    <3> DEFINE H == IF ~pass.blocked /\ DueHold(r, use) /\ spent[r.job] < MaxHold
                    THEN {r} ELSE pass.held
               c == Skipped(r) > MaxSkip
               p == [pass EXCEPT !.blocked = TRUE, !.held = H, !.skipped = Skipped(r),
                                 !.refused = @ \cup {r.need}, !.closed = c]
    <3>1. pass' = Onward(p)
      BY <2>2, <1>2
    <3>2. H \in SUBSET Seen /\ c \in BOOLEAN /\ r.need \in Requests
      BY <1>1 DEF Pass, Seen
    <3> HIDE DEF H, c
    <3>3. /\ p \in Pass /\ p.todo # <<>> /\ p.inFlight = pass.inFlight
          /\ p.skipped = Skipped(r) /\ p.refused = pass.refused \cup {r.need} /\ p.closed = c
      BY <1>1, <1>6, <3>2 DEF Pass
    <3> HIDE DEF p
    <3> QED BY <2>2, <3>1, <3>3, OnwardTyped DEF c
  <2> QED BY <2>1, <2>2, SchedulerAssumption
<1>8. UNCHANGED <<order, alive, age, spent, foreign, edits, admitted>>
  BY DEF Refuse
<1>9. TypeOK'
  BY <1>3, <1>4, <1>5, <1>7, <1>8 DEF TypeOK
<1> QED BY <1>1, <1>3, <1>7, <1>8, <1>9 DEF r

\* A row that starts, or had left the queue.
LEMMA StartTypes ==
  ASSUME TypeOK, Start, NEW j, j = Head(pass.todo).job, row[j].state = "QUEUED"
  PROVE  /\ TypeOK' /\ Head(pass.todo) \in Seen /\ j \in Jobs \ Held
         /\ Held' = Held \cup {j}
         /\ \A i \in Jobs : row'[i].need = row[i].need
         /\ admitted' = [admitted EXCEPT ![j] = Head(pass.todo).need]
         /\ \/ pass' = Rest
            \/ /\ pass'.inFlight = pass.inFlight + 1 /\ pass'.closed = pass.closed
               /\ pass'.skipped = pass.skipped /\ pass'.refused = pass.refused
<1>1. Head(pass.todo) \in Seen /\ pass \in Pass /\ pass.todo # <<>>
  BY HeadTyped DEF Start
<1>2. j \in Jobs /\ j \in QueuedJobs /\ row \in [Jobs -> Row]
  BY <1>1 DEF Seen, QueuedJobs, TypeOK
<1>3. /\ row' = [row EXCEPT ![j].state = "RUNNING"]
      /\ order' = Without(j) /\ alive' = alive \cup {j}
      /\ waited' = [waited EXCEPT ![j] = 0]
      /\ pass' = Onward([pass EXCEPT !.inFlight = @ + 1])
      /\ admitted' = [admitted EXCEPT ![j] = Head(pass.todo).need]
      /\ yields' = [i \in Jobs |-> IF i = j THEN {} ELSE yields[i] \ {j}]
      /\ UNCHANGED <<age, spent, clock, foreign, edits>>
  BY Zenon DEF Start
<1>4. \A i \in Jobs : /\ row'[i].need = row[i].need /\ row'[i].stop = row[i].stop
                      /\ row'[i].state = IF i = j THEN "RUNNING" ELSE row[i].state
                      /\ row'[i] \in Row
  BY <1>2, <1>3 DEF Row
<1>5. row' \in [Jobs -> Row]
  BY <1>2, <1>3, <1>4
<1>6. QueuedJobs' = QueuedJobs \ {j} /\ Held' = Held \cup {j} /\ j \notin Held
  BY <1>2, <1>4 DEF QueuedJobs, Held
<1>7. Ordered(order', QueuedJobs')
  BY <1>2, <1>3, <1>6, TypesOf, WithoutOrdered
<1>8. \A i \in Jobs : row'[i].stop => i \in Held'
  BY <1>4, <1>6 DEF TypeOK
<1>9. /\ pass' \in Pass
      /\ \/ pass' = Rest
         \/ /\ pass'.inFlight = pass.inFlight + 1 /\ pass'.closed = pass.closed
            /\ pass'.skipped = pass.skipped /\ pass'.refused = pass.refused
  <2> DEFINE p == [pass EXCEPT !.inFlight = @ + 1]
  <2>1. /\ p \in Pass /\ p.todo # <<>> /\ p.inFlight = pass.inFlight + 1
        /\ p.closed = pass.closed /\ p.skipped = pass.skipped /\ p.refused = pass.refused
    BY <1>1 DEF Pass
  <2>2. pass' = Onward(p)
    BY <1>3
  <2> HIDE DEF p
  <2> QED BY <2>1, <2>2, OnwardTyped
<1>10. alive' \subseteq Held'
  BY <1>3, <1>6 DEF TypeOK
<1>11. /\ waited' \in [Jobs -> 0..(HeadWait + 1)] /\ admitted' \in [Jobs -> Requests]
       /\ yields' \in [Jobs -> SUBSET Jobs]
  <2>1. waited' \in [Jobs -> 0..(HeadWait + 1)]
    BY <1>3, CountersTyped, CounterSet, Bounds
  <2>2. admitted' \in [Jobs -> Requests]
    BY <1>1, <1>3, CountersTyped DEF Seen
  <2>3. yields' \in [Jobs -> SUBSET Jobs]
    BY <1>3, CountersTyped
  <2> QED BY <2>1, <2>2, <2>3
<1>12. TypeOK'
  BY <1>3, <1>5, <1>7, <1>8, <1>9, <1>10, <1>11 DEF TypeOK, Ordered
<1> QED BY <1>1, <1>2, <1>3, <1>4, <1>6, <1>9, <1>12

LEMMA StaleStartTypes ==
  ASSUME TypeOK, Start, row[Head(pass.todo).job].state # "QUEUED"
  PROVE  TypeOK' /\ UNCHANGED <<row, admitted>> /\ pass' = Onward(pass)
<1>1. /\ pass' = Onward(pass) /\ ~Resting
      /\ UNCHANGED <<row, order, alive, waited, history, age, spent, clock, foreign, edits>>
  BY Zenon DEF Start
<1>2. pass' \in Pass
  BY <1>1, HeadTyped, OnwardTyped
<1>3. QueuedJobs' = QueuedJobs /\ Held' = Held
  BY <1>1 DEF QueuedJobs, Held
<1> QED BY <1>1, <1>2, <1>3 DEF TypeOK, history

LEMMA OutsideTypes ==
  ASSUME TypeOK, ForeignChanges \/ (\E j \in Jobs : Ends(j)) \/ UNCHANGED vars
  PROVE  TypeOK' /\ UNCHANGED <<row, admitted, pass>>
<1>1. /\ UNCHANGED <<row, order, schedVars, pass, edits, history>>
      /\ foreign' \in Foreign /\ alive' \subseteq alive
  BY DEF ForeignChanges, Ends, vars, TypeOK, schedVars, history
<1>2. QueuedJobs' = QueuedJobs /\ Held' = Held
  BY <1>1 DEF QueuedJobs, Held
<1> QED BY <1>1, <1>2 DEF TypeOK, schedVars, history

----------------------------------------------------------------------------
(* The slots and the ledger.                                                *)

LEMMA HeldFinite ==
  ASSUME TypeOK
  PROVE  /\ IsFiniteSet(Held) /\ Held \subseteq Jobs /\ Cardinality(Held) \in Nat
         /\ \A ax \in Axes, j \in Jobs : row[j].need[ax] \in Nat
<1>1. IsFiniteSet(Held) /\ Cardinality(Held) \in Nat /\ Held \subseteq Jobs
  BY SchedulerAssumption, RowSets, FS_Subset, FS_CardinalityType DEF TypeOK
<1>2. \A j \in Jobs : row[j].need \in Request
  BY SchedulerAssumption DEF TypeOK, Row
<1> QED BY <1>1, <1>2 DEF Request

\* What a set of jobs asks for only depends on its rows, and grows with it.
LEMMA LoadFacts ==
  ASSUME TypeOK, NEW ax \in Axes, NEW S \in SUBSET Jobs
  PROVE  /\ Load(ax, S) \in Nat
         /\ \A T \in SUBSET S : Load(ax, T) <= Load(ax, S)
         /\ \A j \in Jobs \ S : Load(ax, S \cup {j}) = Load(ax, S) + row[j].need[ax]
<1> DEFINE F == [j \in Jobs |-> row[j].need[ax]]
<1>1. \A j \in Jobs : F[j] = row[j].need[ax] /\ F[j] \in Nat
  BY HeldFinite
<1>2. IsFiniteSet(S)
  BY SchedulerAssumption, FS_Subset
<1>3. \A T : Load(ax, T) = SumFunctionOnSet(F, T)
  BY DEF Load
<1> HIDE DEF F
<1>4. SumFunctionOnSet(F, S) \in Nat
  BY <1>1, <1>2, SumIsNat
<1>5. \A T \in SUBSET S : SumFunctionOnSet(F, T) <= SumFunctionOnSet(F, S)
  BY <1>1, <1>2, SumGrows
<1>6. ASSUME NEW j \in Jobs \ S
      PROVE  SumFunctionOnSet(F, S \cup {j}) = SumFunctionOnSet(F, S) + F[j]
  BY <1>1, <1>2, SumWith
<1> QED BY <1>1, <1>3, <1>4, <1>5, <1>6

\* A step that leaves the requests of a set of jobs alone leaves its load alone.
LEMMA LoadKept ==
  ASSUME NEW S \in SUBSET Jobs, \A j \in S : row'[j].need = row[j].need, NEW ax
  PROVE  SumFunctionOnSet([j \in Jobs |-> row'[j].need[ax]], S) = Load(ax, S)
<1> DEFINE F == [j \in Jobs |-> row[j].need[ax]]
           G == [j \in Jobs |-> row'[j].need[ax]]
<1>1. \A j \in S : G[j] = F[j]
  OBVIOUS
<1>2. IsFiniteSet(S)
  BY SchedulerAssumption, FS_Subset
<1> HIDE DEF F, G
<1>3. SumFunctionOnSet(G, S) = SumFunctionOnSet(F, S)
  BY <1>1, <1>2, SumSame
<1> QED BY <1>3 DEF F, G, Load

\* A step after which no more jobs run as they were admitted.
LEMMA MatchedShrinks ==
  ASSUME TypeOK, MatchedFits, Matched' \subseteq Matched,
         \A j \in Matched' : row'[j].need = row[j].need
  PROVE  MatchedFits'
<1> DEFINE S == Matched'
<1>1. Matched \in SUBSET Jobs /\ S \in SUBSET Matched
  BY DEF Matched, Held
<1> SUFFICES ASSUME NEW ax \in Axes
             PROVE  SumFunctionOnSet([j \in Jobs |-> row'[j].need[ax]], S) <= Usable[ax]
  BY DEF MatchedFits, Load
<1> HIDE DEF S
<1>2. S \in SUBSET Jobs
  BY <1>1
<1>3. SumFunctionOnSet([j \in Jobs |-> row'[j].need[ax]], S) = Load(ax, S)
  BY <1>2, LoadKept DEF S
<1>4. Load(ax, S) <= Load(ax, Matched) /\ Load(ax, Matched) <= Usable[ax]
  BY <1>1, LoadFacts DEF MatchedFits
<1>5. Load(ax, S) \in Nat /\ Load(ax, Matched) \in Nat /\ Usable[ax] \in Nat
  BY <1>1, <1>2, LoadFacts, SchedulerAssumption DEF Request
<1> QED BY <1>3, <1>4, <1>5

\* Adding a request the ledger takes keeps the ledger.
LEMMA StartFits ==
  ASSUME TypeOK, MatchedFits, NEW j \in Jobs \ Held,
         Held' = Held \cup {j}, \A i \in Jobs : row'[i].need = row[i].need,
         NEW need \in Requests, admitted' = [admitted EXCEPT ![j] = need],
         LedgerFits(need, Held)
  PROVE  MatchedFits'
<1>1. Matched \subseteq Held /\ Held \in SUBSET Jobs /\ Matched \in SUBSET Jobs
  BY DEF Matched, Held
<1>2. CASE row[j].need # need
  <2>1. Matched' = Matched
    BY <1>2 DEF Matched, TypeOK, Held
  <2> QED BY <1>1, <2>1, MatchedShrinks
<1>3. CASE row[j].need = need
  <2>1. Matched' = Matched \cup {j} /\ j \notin Matched
    BY <1>1, <1>3 DEF Matched, TypeOK
  <2> DEFINE S == Matched \cup {j}
  <2>2. S \in SUBSET Jobs
    BY <1>1
  <2> SUFFICES ASSUME NEW ax \in Axes
               PROVE  SumFunctionOnSet([i \in Jobs |-> row'[i].need[ax]], S) <= Usable[ax]
    BY <2>1 DEF MatchedFits, Load
  <2>3. SumFunctionOnSet([i \in Jobs |-> row'[i].need[ax]], S) = Load(ax, S)
    BY <2>2, LoadKept
  <2>4. Load(ax, S) = Load(ax, Matched) + need[ax]
    BY <1>1, <1>3, <2>1, LoadFacts
  <2>5. Load(ax, Matched) <= Load(ax, Held) /\ Load(ax, Matched) <= Usable[ax]
    BY <1>1, LoadFacts DEF MatchedFits
  <2>6. /\ Load(ax, Matched) \in Nat /\ Load(ax, Held) \in Nat
        /\ need[ax] \in Nat /\ Usable[ax] \in Nat
    BY <1>1, LoadFacts, SchedulerAssumption DEF Request
  <2>7. need[ax] > 0 => Load(ax, Held) + need[ax] <= Usable[ax]
    BY DEF LedgerFits
  <2> QED BY <2>3, <2>4, <2>5, <2>6, <2>7
<1> QED BY <1>2, <1>3

LEMMA LedgerStep ==
  ASSUME TypeOK, MatchedFits, [Next]_vars
  PROVE  MatchedFits'
<1>1. ASSUME Held' = Held, admitted' = admitted, \A i \in Held : row'[i].need = row[i].need
      PROVE  MatchedFits'
  <2>1. Matched' = Matched /\ Matched \subseteq Held
    BY <1>1 DEF Matched
  <2> QED BY <1>1, <2>1, MatchedShrinks
<1>2. ASSUME \A i \in Jobs : row'[i].need = row[i].need /\ row'[i].state = row[i].state,
             admitted' = admitted
      PROVE  MatchedFits'
  <2>1. Held' = Held /\ Held \subseteq Jobs
    BY <1>2 DEF Held
  <2> QED BY <1>1, <1>2, <2>1
<1>3. ASSUME NEW j \in Jobs, Submit(j) PROVE MatchedFits'
  BY <1>1, <1>3, SubmitTypes DEF Submit
<1>4. ASSUME NEW j \in Jobs, RemoveQueued(j) PROVE MatchedFits'
  BY <1>1, <1>4, RemoveTypes DEF RemoveQueued, history
<1>5. ASSUME NEW j \in Jobs, Promote(j) PROVE MatchedFits'
  BY <1>2, <1>5, PromoteTypes DEF Promote, history
<1>6. ASSUME NEW j \in Jobs, NEW need \in Requests, SetRequests(j, need) PROVE MatchedFits'
  BY <1>1, <1>6, SetRequestsTypes DEF SetRequests, history
<1>7. ASSUME NEW j \in Jobs, NEW rank \in Ranks, SetPriority(j, rank) PROVE MatchedFits'
  BY <1>2, <1>7, SetPriorityTypes DEF SetPriority, history
<1>8. ASSUME NEW j \in Jobs, Reap(j) PROVE MatchedFits'
  <2>1. Held' = Held \ {j} /\ \A i \in Jobs \ {j} : row'[i] = row[i]
    BY <1>8, ReapTypes
  <2>2. admitted' = admitted
    BY <1>8 DEF Reap, history
  <2>3. Matched' \subseteq Matched /\ \A i \in Matched' : row'[i].need = row[i].need
    BY <2>1, <2>2 DEF Matched, Held
  <2> QED BY <2>3, MatchedShrinks
<1>9. ASSUME NEW j \in Jobs, PressureStop(j) PROVE MatchedFits'
  BY <1>2, <1>9, PressureStopTypes DEF PressureStop
<1>10. ASSUME ForeignChanges \/ (\E j \in Jobs : Ends(j)) \/ UNCHANGED vars PROVE MatchedFits'
  BY <1>2, <1>10, OutsideTypes
<1>11. ASSUME Tick PROVE MatchedFits'
  BY <1>2, <1>11, TickTypes
<1>12. ASSUME Skip PROVE MatchedFits'
  BY <1>2, <1>12, SkipTypes
<1>13. ASSUME Refuse PROVE MatchedFits'
  BY <1>2, <1>13, RefuseTypes
<1>14. ASSUME Start PROVE MatchedFits'
  <2> DEFINE r == Head(pass.todo)
             j == r.job
  <2>1. CASE row[j].state # "QUEUED"
    BY <1>2, <1>14, <2>1, StaleStartTypes
  <2>2. CASE row[j].state = "QUEUED"
    <3>1. /\ r \in Seen /\ j \in Jobs \ Held /\ Held' = Held \cup {j}
          /\ \A i \in Jobs : row'[i].need = row[i].need
          /\ admitted' = [admitted EXCEPT ![j] = r.need]
      BY <1>14, <2>2, StartTypes
    <3>2. \E use \in InUse : ~Blocked(r, use)
      BY <1>14, Zenon DEF Start
    <3>3. LedgerFits(r.need, Held)
      BY <3>2 DEF Blocked, Admits
    <3>4. r.need \in Requests
      BY <3>1 DEF Seen
    <3> QED BY <3>1, <3>3, <3>4, StartFits
  <2> QED BY <2>1, <2>2
<1> QED BY <1>3, <1>4, <1>5, <1>6, <1>7, <1>8, <1>9, <1>10, <1>11, <1>12, <1>13, <1>14,
           NextCases

\* What happens outside a row of the pass leaves the pass alone, and the running
\* jobs too while one is under way.
LEMMA OffPass ==
  ASSUME TypeOK, [Next]_vars, ~(Tick \/ Skip \/ Refuse \/ Start)
  PROVE  TypeOK' /\ pass' = pass /\ Held' \subseteq Held /\ (~Resting => Held' = Held)
<1> DEFINE P == TypeOK' /\ pass' = pass /\ Held' \subseteq Held /\ (~Resting => Held' = Held)
<1>1. ASSUME NEW j \in Jobs, Submit(j) PROVE P
  BY <1>1, SubmitTypes DEF Submit
<1>2. ASSUME NEW j \in Jobs, RemoveQueued(j) PROVE P
  BY <1>2, RemoveTypes DEF RemoveQueued
<1>3. ASSUME NEW j \in Jobs, Promote(j) PROVE P
  BY <1>3, PromoteTypes DEF Promote, Held
<1>4. ASSUME NEW j \in Jobs, NEW need \in Requests, SetRequests(j, need) PROVE P
  BY <1>4, SetRequestsTypes DEF SetRequests
<1>5. ASSUME NEW j \in Jobs, NEW rank \in Ranks, SetPriority(j, rank) PROVE P
  BY <1>5, SetPriorityTypes DEF SetPriority, Held
<1>6. ASSUME NEW j \in Jobs, Reap(j) PROVE P
  BY <1>6, ReapTypes DEF Reap
<1>7. ASSUME NEW j \in Jobs, PressureStop(j) PROVE P
  BY <1>7, PressureStopTypes DEF PressureStop, Held
<1>8. ASSUME ForeignChanges \/ (\E j \in Jobs : Ends(j)) \/ UNCHANGED vars PROVE P
  BY <1>8, OutsideTypes DEF Held
<1> HIDE DEF P
<1>9. P
  BY <1>1, <1>2, <1>3, <1>4, <1>5, <1>6, <1>7, <1>8, NextCases
<1> QED BY <1>9 DEF P

LEMMA TypesStep ==
  ASSUME TypeOK, [Next]_vars
  PROVE  TypeOK'
<1>1. CASE Start
  BY <1>1, StartTypes, StaleStartTypes
<1> QED BY <1>1, OffPass, TickTypes, SkipTypes, RefuseTypes

LEMMA SlotsStep ==
  ASSUME TypeOK, SlotsKept, [Next]_vars
  PROVE  SlotsKept'
<1>0. /\ Cardinality(Held) \in Nat /\ IsFiniteSet(Held) /\ Slots \in Nat
      /\ pass \in Pass /\ Rest.todo = <<>>
  BY HeldFinite, SchedulerAssumption, RestTyped DEF TypeOK
<1>1. CASE ~(Tick \/ Skip \/ Refuse \/ Start)
  <2>1. pass' = pass /\ Held' \subseteq Held /\ (~Resting => Held' = Held)
    BY <1>1, OffPass
  <2>2. Cardinality(Held') <= Cardinality(Held) /\ Cardinality(Held') \in Nat
    BY <1>0, <2>1, FS_Subset, FS_CardinalityType
  <2> QED BY <1>0, <2>1, <2>2 DEF SlotsKept, Resting
<1>2. CASE Tick
  BY <1>2, TickTypes DEF SlotsKept, Held
<1>3. CASE Skip
  <2>1. UNCHANGED row /\ ~Resting /\ pass' = Onward(pass) /\ pass.todo # <<>>
    BY <1>3, SkipTypes DEF Skip, Resting
  <2>2. pass' = Rest \/ pass'.inFlight = pass.inFlight
    BY <1>0, <2>1, OnwardTyped
  <2> QED BY <1>0, <2>1, <2>2 DEF SlotsKept, Resting, Held
<1>4. CASE Refuse
  <2>1. ~Resting /\ Held' = Held
    BY <1>4, RefuseTypes DEF Refuse, Held
  <2>2. pass' = Rest \/ pass'.inFlight = pass.inFlight
    BY <1>4, RefuseTypes
  <2> QED BY <1>0, <2>1, <2>2 DEF SlotsKept, Resting
<1>5. CASE Start
  <2>1. ~Resting /\ pass.todo # <<>> /\ \E use \in InUse : ~Blocked(Head(pass.todo), use)
    BY <1>5, Zenon DEF Start, Resting
  <2>2. pass.inFlight < Slots /\ pass.inFlight = Cardinality(Held)
    BY <1>0, <2>1 DEF Blocked, SlotsKept, Pass
  <2>3. CASE row[Head(pass.todo).job].state # "QUEUED"
    <3>1. UNCHANGED row /\ pass' = Onward(pass)
      BY <1>5, <2>3, StaleStartTypes
    <3>2. pass' = Rest \/ pass'.inFlight = pass.inFlight
      BY <1>0, <2>1, <3>1, OnwardTyped
    <3> QED BY <1>0, <2>1, <3>1, <3>2 DEF SlotsKept, Resting, Held
  <2>4. CASE row[Head(pass.todo).job].state = "QUEUED"
    <3> DEFINE j == Head(pass.todo).job
    <3>1. /\ j \notin Held /\ Held' = Held \cup {j}
          /\ pass' = Rest \/ pass'.inFlight = pass.inFlight + 1
      BY <1>5, <2>4, StartTypes
    <3>2. Cardinality(Held') = Cardinality(Held) + 1
      BY <1>0, <3>1, FS_AddElement
    <3> QED BY <1>0, <2>2, <3>1, <3>2 DEF SlotsKept, Resting
  <2> QED BY <2>3, <2>4
<1> QED BY <1>1, <1>2, <1>3, <1>4, <1>5

LEMMA SkipsStep ==
  ASSUME TypeOK, SkipsCount, [Next]_vars
  PROVE  SkipsCount'
<1>0. pass \in Pass /\ Cardinality(pass.refused) \in Nat /\ MaxSkip \in Nat
  BY SchedulerAssumption, FS_CardinalityType DEF TypeOK, SkipsCount
<1>1. ASSUME pass' = Rest \/ (pass'.refused = {} /\ pass'.skipped = 0 /\ ~pass'.closed)
      PROVE  SkipsCount'
  <2>1. pass'.refused = {} /\ pass'.skipped = 0 /\ ~pass'.closed
    BY <1>1 DEF Rest
  <2>2. IsFiniteSet({}) /\ Cardinality({}) = 0
    BY FS_EmptySet
  <2> QED BY <2>1, <2>2 DEF SkipsCount
<1>2. ASSUME pass'.refused = pass.refused, pass'.skipped = pass.skipped,
             pass'.closed = pass.closed \/ ~Backfill
      PROVE  SkipsCount'
  BY <1>2 DEF SkipsCount
<1>3. CASE ~(Tick \/ Skip \/ Refuse \/ Start)
  BY <1>2, <1>3, OffPass
<1>4. CASE Tick
  BY <1>1, <1>4, TickTypes
<1>5. CASE Skip
  <2>1. pass' = Onward(pass) /\ pass.todo # <<>>
    BY <1>5 DEF Skip, Resting
  <2> QED BY <1>0, <1>1, <1>2, <2>1, OnwardTyped
<1>6. CASE Refuse
  <2> DEFINE r == Head(pass.todo)
  <2>1. CASE ~Backfill
    BY <1>1, <1>2, <1>6, <2>1, RefuseTypes
  <2>2. CASE Backfill /\ pass' # Rest
    <3>1. /\ r \in Seen /\ pass'.skipped = Skipped(r)
          /\ pass'.refused = pass.refused \cup {r.need}
          /\ pass'.closed = (Skipped(r) > MaxSkip)
      BY <1>6, <2>2, RefuseTypes
    <3>2. AsksAtLeast(r.need, r.need)
      <4>1. \A ax \in Axes : r.need[ax] \in Nat
        BY <3>1, SchedulerAssumption DEF Seen, Request
      <4> QED BY <4>1 DEF AsksAtLeast
    <3>3. Skipped(r) > pass.skipped => Skipped(r) = pass.skipped + 1 /\ r.need \notin pass.refused
      BY <1>0, <3>2 DEF Skipped, Pass
    <3>4. Skipped(r) = pass.skipped \/ Skipped(r) = pass.skipped + 1
      BY DEF Skipped
    <3>5. /\ IsFiniteSet(pass.refused \cup {r.need})
          /\ Cardinality(pass.refused \cup {r.need}) =
               IF r.need \in pass.refused THEN Cardinality(pass.refused)
                                          ELSE Cardinality(pass.refused) + 1
      BY FS_AddElement DEF SkipsCount
    <3>6. Skipped(r) <= Cardinality(pass.refused \cup {r.need})
      BY <1>0, <3>3, <3>4, <3>5 DEF SkipsCount, Pass
    <3> QED BY <3>1, <3>5, <3>6 DEF SkipsCount
  <2> QED BY <1>1, <2>1, <2>2
<1>7. CASE Start
  <2>1. CASE row[Head(pass.todo).job].state # "QUEUED"
    <3>1. pass' = Onward(pass) /\ pass.todo # <<>>
      BY <1>7, <2>1, StaleStartTypes, HeadTyped DEF Start
    <3> QED BY <1>0, <1>1, <1>2, <3>1, OnwardTyped
  <2>2. CASE row[Head(pass.todo).job].state = "QUEUED"
    BY <1>1, <1>2, <1>7, <2>2, StartTypes
  <2> QED BY <2>1, <2>2
<1> QED BY <1>3, <1>4, <1>5, <1>6, <1>7

----------------------------------------------------------------------------
(* The theorems.                                                            *)

LEMMA InitInv == Init => SchedulerInv
<1> SUFFICES ASSUME Init PROVE SchedulerInv
  OBVIOUS
<1>1. TypeOK
  BY InitTypes
<1>2. Held = {} /\ Resting /\ pass = Rest
  BY DEF Init, Held, Resting, Rest
<1>3. IsFiniteSet({}) /\ Cardinality({}) = 0
  BY FS_EmptySet
<1>4. SlotsKept
  BY <1>2, <1>3, SchedulerAssumption DEF SlotsKept
<1>5. SkipsCount
  BY <1>2, <1>3 DEF SkipsCount, Rest
<1>6. MatchedFits
  <2>1. Matched = {}
    BY <1>2 DEF Matched
  <2>2. \A ax \in Axes : Load(ax, {}) = 0
    BY SumOfNone DEF Load
  <2> QED BY <2>1, <2>2, SchedulerAssumption DEF MatchedFits, Request
<1> QED BY <1>1, <1>4, <1>5, <1>6 DEF SchedulerInv

\* Every reachable state has its types, the ledger of the jobs that run as they
\* were admitted fits, the slots are not exceeded, and every refusal that used up
\* look-ahead was of a request no earlier one implies.
THEOREM SchedulerInvariant == Spec => []SchedulerInv
<1>1. SchedulerInv /\ [Next]_vars => SchedulerInv'
  BY TypesStep, LedgerStep, SlotsStep, SkipsStep DEF SchedulerInv
<1> QED BY <1>1, InitInv, PTL DEF Spec

\* The rows, the positions of the queue and the locals of a pass keep their types,
\* whatever the CLIs do while the dispatcher walks the queue.
THEOREM SchedulerTypes == Spec => []TypeOK
<1>1. SchedulerInv => TypeOK
  BY DEF SchedulerInv
<1> QED BY <1>1, SchedulerInvariant, PTL

\* What the running jobs declared fits the machine on every axis, unless one of
\* them was edited between the moment the pass read it and its start.
THEOREM LedgerIsNeverExceeded == Spec => []LedgerHolds
<1>1. SchedulerInv => LedgerHolds
  <2> SUFFICES ASSUME SchedulerInv, \A j \in Held : admitted[j] = row[j].need
               PROVE  \A ax \in Axes : Load(ax, Held) <= Usable[ax]
    BY DEF LedgerHolds
  <2>1. Matched = Held
    BY DEF Matched
  <2> QED BY <2>1 DEF SchedulerInv, MatchedFits
<1> QED BY <1>1, SchedulerInvariant, PTL

\* The pass closes the queue behind a blocked job only after more than MaxSkip
\* different requests were refused.
THEOREM LookAheadSpent == Spec => []LookAheadIsSpentOnDifferentJobs
<1>1. SchedulerInv => LookAheadIsSpentOnDifferentJobs
  <2> SUFFICES ASSUME SchedulerInv, pass.closed, Backfill
               PROVE  Cardinality(pass.refused) > MaxSkip
    BY DEF LookAheadIsSpentOnDifferentJobs
  <2>1. pass.skipped > MaxSkip /\ pass.skipped <= Cardinality(pass.refused)
    BY DEF SchedulerInv, SkipsCount
  <2>2. pass.skipped \in Nat /\ MaxSkip \in Nat /\ Cardinality(pass.refused) \in Nat
    BY SchedulerAssumption, FS_CardinalityType DEF SchedulerInv, SkipsCount, TypeOK, Pass
  <2> QED BY <2>1, <2>2
<1> QED BY <1>1, SchedulerInvariant, PTL

\* No more jobs run than the machine has slots for.
THEOREM SlotsAreKept == Spec => []SlotsKept
<1>1. SchedulerInv => SlotsKept
  BY DEF SchedulerInv
<1> QED BY <1>1, SchedulerInvariant, PTL

----------------------------------------------------------------------------
(* What the tests on requests are worth.                                    *)

LEMMA RequestIsNat ==
  \A need \in Requests, ax \in Axes : need[ax] \in Nat /\ Usable[ax] \in Nat
  BY SchedulerAssumption DEF Request

\* "later is refused whenever earlier is" (dispatcher.py, _asks_at_least): a
\* request that asks for at least as much is refused too, now and with any more
\* jobs running; so not counting it against the look-ahead hides nothing.
THEOREM ImpliedRefusal ==
  ASSUME TypeOK, NEW earlier \in Requests, NEW later \in Requests,
         AsksAtLeast(later, earlier),
         NEW T \in SUBSET Jobs, NEW S \in SUBSET T, NEW use \in Nat, NEW more \in Nat,
         use <= more, ~Admits(earlier, S, use)
  PROVE  ~Admits(later, T, more)
<1>1. \A ax \in Axes : /\ earlier[ax] \in Nat /\ later[ax] \in Nat /\ Usable[ax] \in Nat
                       /\ later[ax] >= earlier[ax]
  BY RequestIsNat DEF AsksAtLeast
<1>2. \A ax \in Axes : Load(ax, S) \in Nat /\ Load(ax, T) \in Nat /\ Load(ax, S) <= Load(ax, T)
  BY LoadFacts
<1>3. Physical \in Nat /\ foreign \in Nat /\ "ram" \in Axes
  BY SchedulerAssumption DEF TypeOK, Axes
<1>4. CASE ~LedgerFits(earlier, S)
  <2>1. PICK ax \in Axes : earlier[ax] > 0 /\ ~(Load(ax, S) + earlier[ax] <= Usable[ax])
    BY <1>4 DEF LedgerFits
  <2>2. later[ax] > 0 /\ ~(Load(ax, T) + later[ax] <= Usable[ax])
    BY <1>1, <1>2, <2>1
  <2> QED BY <2>2 DEF Admits, LedgerFits
<1>5. CASE LedgerFits(earlier, S)
  <2>1. ~(Free(use) >= 0) \/ (earlier["ram"] > 0 /\ ~(earlier["ram"] <= Free(use)))
    BY <1>5 DEF Admits
  <2> QED BY <1>1, <1>3, <2>1 DEF Admits, Free
<1> QED BY <1>4, <1>5

\* The job is admitted with nothing running and this much memory in use.
AdmitsDrained(need, left) ==
  left <= Physical /\ need["ram"] <= Physical - left /\ LedgerFits(need, {})

\* What a hold is given up for, when over of the memory in use is used by running
\* jobs beyond what they declared, and goes with them.  A hold given up as futile
\* would have been for nothing, unless it is over that would have made the room:
\* "a job using more than it declared frees more than we credit".  And one that
\* is not given up gets the job admitted, if what runs uses what it declared
\* (dispatcher.py, _hold_futility).
THEOREM FutileHold ==
  ASSUME TypeOK, NEW need \in Requests, NEW use \in InUse, NEW over \in 0 .. foreign,
         pass.inFlight # 0
  PROVE  /\ HoldFutile(need, use) =>
              \/ ~ AdmitsDrained(need, foreign - over)
              \/ /\ need["ram"] > Physical - foreign
                 /\ need["ram"] <= Physical - foreign + over
         /\ ~ HoldFutile(need, use) /\ use = Load("ram", Held) =>
              AdmitsDrained(need, foreign - over)
<1>1. \A ax \in Axes : need[ax] \in Nat /\ Usable[ax] \in Nat /\ Load(ax, {}) = 0
  BY RequestIsNat, SumOfNone DEF Load
<1>2. Load("ram", Held) \in Nat /\ "ram" \in Axes
  BY LoadFacts, HeldFinite DEF Axes
<1>3. use \in Nat /\ use <= Load("ram", Held)
  BY <1>2 DEF InUse
<1>4. Physical \in Nat /\ foreign \in Nat /\ over \in Nat /\ over <= foreign
  BY SchedulerAssumption DEF TypeOK
<1>5. ASSUME HoldFutile(need, use), AdmitsDrained(need, foreign - over)
      PROVE  need["ram"] > Physical - foreign /\ need["ram"] <= Physical - foreign + over
  <2>1. CASE \E ax \in Axes : need[ax] > Usable[ax]
    BY <1>1, <1>5, <2>1 DEF AdmitsDrained, LedgerFits
  <2>2. CASE need["ram"] > Free(use) + Load("ram", Held)
    BY <1>1, <1>2, <1>3, <1>4, <1>5, <2>2 DEF AdmitsDrained, Free
  <2> QED BY <1>5, <2>1, <2>2 DEF HoldFutile
<1>6. ASSUME ~ HoldFutile(need, use), use = Load("ram", Held)
      PROVE  AdmitsDrained(need, foreign - over)
  <2>1. LedgerFits(need, {})
    BY <1>1, <1>6 DEF HoldFutile, LedgerFits
  <2>2. need["ram"] <= Physical - foreign
    BY <1>1, <1>2, <1>4, <1>6 DEF HoldFutile, Free
  <2>3. need["ram"] \in Nat
    BY <1>1, <1>2
  <2> QED BY <1>4, <2>1, <2>2, <2>3 DEF AdmitsDrained
<1> QED BY <1>5, <1>6

\* What a hold promises: a job let past it leaves a slot, and leaves the ledger
\* able to take the job held for if it was (unless its request was edited in
\* between).
HoldKept ==
  [][\A h \in pass.held, j \in Held' \ Held :
       /\ Cardinality(Held') < Slots
       /\ admitted'[j] = row[j].need /\ LedgerFits(h.need, Held)
            => LedgerFits(h.need, Held)']_vars

LEMMA HoldStep ==
  ASSUME SchedulerInv, [Next]_vars, NEW h \in pass.held, NEW j \in Held' \ Held
  PROVE  /\ Cardinality(Held') < Slots
         /\ admitted'[j] = row[j].need /\ LedgerFits(h.need, Held)
              => LedgerFits(h.need, Held)'
<1> DEFINE r == Head(pass.todo)
<1>1. TypeOK /\ SlotsKept
  BY DEF SchedulerInv
<1>2. Start /\ row[r.job].state = "QUEUED"
  <2>1. Start
    BY <1>1, OffPass, TickTypes, SkipTypes, RefuseTypes DEF Held
  <2> QED BY <1>1, <2>1, StaleStartTypes DEF Held
<1>3. /\ r \in Seen /\ r.job \in Jobs \ Held /\ Held' = Held \cup {r.job}
      /\ \A i \in Jobs : row'[i].need = row[i].need
      /\ admitted' = [admitted EXCEPT ![r.job] = r.need]
  BY <1>1, <1>2, StartTypes
<1>4. j = r.job /\ j \in Jobs \ Held /\ admitted'[j] = r.need /\ Held' = Held \cup {j}
  BY <1>1, <1>3 DEF TypeOK
<1>5. ~Resting /\ \E use \in InUse : ~Blocked(r, use)
  BY <1>2, Zenon DEF Start
<1>6. PICK use \in InUse : ~HoldConflict(r.need, h, use)
  BY <1>5 DEF Blocked
<1>7. pass.inFlight = Cardinality(Held) /\ IsFiniteSet(Held) /\ Cardinality(Held) \in Nat
  BY <1>1, <1>5, HeldFinite DEF SlotsKept
<1>8. Cardinality(Held') < Slots
  <2>1. Cardinality(Held') = Cardinality(Held) + 1
    BY <1>4, <1>7, FS_AddElement
  <2>2. ~(Slots - pass.inFlight - 1 < 1) /\ Slots \in Nat
    BY <1>6, SchedulerAssumption DEF HoldConflict
  <2> QED BY <1>7, <2>1, <2>2
<1>9. ASSUME r.need = row[j].need, LedgerFits(h.need, Held)
      PROVE  LedgerFits(h.need, Held)'
  <2> SUFFICES ASSUME NEW ax \in Axes, h.need[ax] > 0
               PROVE  SumFunctionOnSet([i \in Jobs |-> row'[i].need[ax]], Held') + h.need[ax]
                        <= Usable[ax]
    BY DEF LedgerFits, Load
  <2>1. Held \in SUBSET Jobs /\ Held \cup {j} \in SUBSET Jobs
    BY <1>4 DEF Held
  <2>2. SumFunctionOnSet([i \in Jobs |-> row'[i].need[ax]], Held') = Load(ax, Held) + r.need[ax]
    <3>1. SumFunctionOnSet([i \in Jobs |-> row'[i].need[ax]], Held \cup {j})
            = Load(ax, Held \cup {j})
      BY <1>3, <2>1, LoadKept
    <3>2. Load(ax, Held \cup {j}) = Load(ax, Held) + row[j].need[ax]
      BY <1>1, <1>4, <2>1, LoadFacts
    <3> QED BY <1>4, <1>9, <3>1, <3>2
  <2>3. /\ Load(ax, Held) \in Nat /\ r.need[ax] \in Nat /\ h.need[ax] \in Nat
        /\ Usable[ax] \in Nat
    <3>1. h.need \in Requests /\ r.need \in Requests
      BY <1>1, <1>3 DEF TypeOK, Pass, Seen
    <3> QED BY <1>1, <2>1, <3>1, LoadFacts, RequestIsNat
  <2>4. Load(ax, Held) + h.need[ax] <= Usable[ax]
    BY <1>9 DEF LedgerFits
  <2>5. CASE r.need[ax] = 0
    BY <2>2, <2>3, <2>4, <2>5
  <2>6. CASE r.need[ax] > 0
    <3>1. ~(Spare(ax, use) - r.need[ax] < h.need[ax])
      BY <1>6, <2>6 DEF HoldConflict
    <3>2. Physical \in Nat /\ foreign \in Nat /\ use \in Int
      BY <1>1, SchedulerAssumption DEF TypeOK, InUse
    <3>3. Spare(ax, use) <= Usable[ax] - Load(ax, Held) /\ Spare(ax, use) \in Int
      <4>1. CASE ax # "ram"
        BY <2>3, <4>1 DEF Spare
      <4>2. CASE ax = "ram"
        <5> DEFINE a == Free(use)
                   b == Usable[ax] - Load(ax, Held)
        <5>1. a \in Int /\ b \in Int
          BY <2>3, <3>2 DEF Free
        <5>2. Spare(ax, use) = Min({a, b})
          BY <4>2 DEF Spare
        <5> HIDE DEF a, b
        <5>3. Min({a, b}) \in {a, b} /\ Min({a, b}) <= b
          <6>1. \E x \in {a, b} : \A y \in {a, b} : x <= y
            BY <5>1
          <6> QED BY <5>1, <6>1 DEF Min
        <5> QED BY <5>1, <5>2, <5>3 DEF b
      <4> QED BY <4>1, <4>2
    <3> QED BY <2>2, <2>3, <3>1, <3>3
  <2> QED BY <2>3, <2>5, <2>6
<1> QED BY <1>4, <1>8, <1>9

\* What a hold keeps free is not given to the jobs that overtake it.
THEOREM HoldIsKept == Spec => HoldKept
<1>1. ASSUME SchedulerInv, [Next]_vars
      PROVE  [\A h \in pass.held, j \in Held' \ Held :
                /\ Cardinality(Held') < Slots
                /\ admitted'[j] = row[j].need /\ LedgerFits(h.need, Held)
                     => LedgerFits(h.need, Held)']_vars
  BY <1>1, HoldStep
<1> QED BY <1>1, SchedulerInvariant, PTL DEF Spec, HoldKept

----------------------------------------------------------------------------
(* Where a job is sent.                                                     *)

\* What jobs amount to together.
LEMMA SizeFacts ==
  ASSUME NEW S \in SUBSET Job
  PROVE  /\ SizeOf(S) \in Nat
         /\ \A T \in SUBSET S : SizeOf(T) \in Nat /\ SizeOf(T) <= SizeOf(S)
         /\ \A j \in Job : /\ Size[j] \in Nat
                           /\ SizeOf(S \cup {j}) <= SizeOf(S) + Size[j]
                           /\ j \notin S => SizeOf(S \cup {j}) = SizeOf(S) + Size[j]
<1>1. IsFiniteSet(S) /\ \A j \in Job : Size[j] \in Nat
  BY NodeReportsAssumption, FS_Subset
<1>2. SizeOf(S) \in Nat
  BY <1>1, SumIsNat DEF SizeOf
<1>3. ASSUME NEW T \in SUBSET S PROVE SizeOf(T) \in Nat /\ SizeOf(T) <= SizeOf(S)
  <2>1. IsFiniteSet(T)
    BY <1>1, FS_Subset
  <2>2. SizeOf(T) \in Nat
    BY <1>1, <2>1, SumIsNat DEF SizeOf
  <2> QED BY <1>1, <2>2, SumGrows DEF SizeOf
<1>4. ASSUME NEW j \in Job, j \notin S PROVE SizeOf(S \cup {j}) = SizeOf(S) + Size[j]
  BY <1>1, <1>4, SumWith DEF SizeOf
<1>5. ASSUME NEW j \in Job PROVE SizeOf(S \cup {j}) <= SizeOf(S) + Size[j]
  <2>1. CASE j \in S
    <3>1. S \cup {j} = S
      BY <2>1
    <3>2. SizeOf(S \cup {j}) = SizeOf(S)
      BY <3>1
    <3> QED BY <1>1, <1>2, <3>2
  <2>2. CASE j \notin S
    BY <1>1, <1>2, <1>4, <2>2
  <2> QED BY <2>1, <2>2
<1> QED BY <1>1, <1>2, <1>3, <1>4, <1>5

\* The names of places are told apart from the nodes.
LEMMA SentAway ==
  ASSUME NodesInv, NEW n \in Node
  PROVE  /\ At(n) \in SUBSET Job /\ Carried(n) \in Nat /\ Room[n] \in Nat /\ own[n] \in Nat
         /\ n # "queued" /\ n # "done"
<1>1. At(n) \in SUBSET Job /\ own[n] \in Nat /\ Room[n] \in Nat /\ n # "queued" /\ n # "done"
  BY NodeReportsAssumption DEF NodesInv, At
<1> QED BY <1>1, SizeFacts DEF Carried

\* A report that is taken adds up.
LEMMA ReportAddsUp ==
  ASSUME NodesInv, NEW n \in Node
  PROVE  Report(n) \in Reports
<1> DEFINE r == Payload(n)
<1>1. At(n) \in SUBSET Job /\ own[n] \in Nat /\ At(n) \cap started \in SUBSET Job
  BY SentAway
<1>2. SizeOf(At(n) \cap started) + own[n] \in Nat
  BY <1>1, SizeFacts
<1>3. r \in Payloads
  BY <1>1, <1>2 DEF Payload, Payloads
<1>4. AddsUp(r)
  <2>1. CASE Waiting(n) = {}
    <3>1. At(n) \cap started = At(n)
      BY <2>1 DEF Waiting
    <3> QED BY <1>1, <1>2, <3>1 DEF AddsUp, Payload
  <2>2. CASE Waiting(n) # {}
    BY <2>2 DEF AddsUp, Payload
  <2> QED BY <2>1, <2>2
<1> QED BY <1>3, <1>4 DEF Report, Reports

\* So does one that a job is charged to.
LEMMA ChargeAddsUp ==
  ASSUME NEW r \in Reports, r.online, NEW j \in Job
  PROVE  [r EXCEPT !.load = Charged(r, j), !.knows = @ \cup {j}] \in Reports
<1> DEFINE a == Charged(r, j)
           b == r.knows \cup {j}
           c == [r EXCEPT !.load = a, !.knows = b]
<1>1. r \in Payloads /\ AddsUp(r)
  BY DEF Reports, None, Offline
<1>2. /\ r.load \in Nat /\ r.own \in Nat /\ r.knows \in SUBSET Job
      /\ Size[j] \in Nat /\ SizeOf(r.knows) \in Nat
      /\ SizeOf(r.knows \cup {j}) <= SizeOf(r.knows) + Size[j]
  BY <1>1, SizeFacts DEF Payloads
<1>3. SizeOf(r.knows \cup {j}) \in Nat
  BY <1>2, SizeFacts
<1>4. /\ c \in Payloads /\ c.load = r.load + Size[j] /\ c.knows = r.knows \cup {j}
      /\ c.own = r.own /\ c.queued = r.queued
  <2>1. a = r.load + Size[j] /\ a \in Nat /\ b \in SUBSET Job
    BY <1>2 DEF Charged
  <2>2. c \in Payloads /\ c.load = a /\ c.knows = b /\ c.own = r.own /\ c.queued = r.queued
    <3> HIDE DEF a, b
    <3> QED BY <1>1, <2>1 DEF Payloads
  <2> QED BY <2>1, <2>2
<1>5. AddsUp(c)
  <2>1. CASE r.queued
    BY <1>4, <2>1 DEF AddsUp
  <2>2. CASE ~r.queued
    <3>1. SizeOf(r.knows) + r.own <= r.load
      BY <1>1, <2>2 DEF AddsUp
    <3> HIDE DEF c
    <3>2. SizeOf(c.knows) + c.own <= c.load
      BY <1>2, <1>3, <1>4, <3>1
    <3> QED BY <3>2 DEF AddsUp
  <2> QED BY <2>1, <2>2
<1> QED BY <1>4, <1>5 DEF Reports

\* What an offer is, at each of its steps.
LEMMA OfferFacts ==
  ASSUME NodesInv
  PROVE  /\ loop = Idle => loop.at = "idle"
         /\ loop # Idle => loop.job \in Job /\ loop.node \in Node
         /\ loop.at = "answered" => loop.report \in Reports
         /\ loop.at \in {"ship", "account"} =>
              loop = [at |-> loop.at, job |-> loop.job, node |-> loop.node, sure |-> loop.sure]
              /\ loop.sure \in BOOLEAN
  BY DEF NodesInv, Offers, Idle

\* What a report that leaves nothing out admits fits on the node.
LEMMA AdmittedFits ==
  ASSUME NodesInv, loop # Idle, NEW report \in Reports, report.online,
         RemoteAdmits(loop.job, report), Tells(report, loop.node)
  PROVE  Carried(loop.node) + Size[loop.job] <= Room[loop.node]
<1> DEFINE n == loop.node
           j == loop.job
<1>1. n \in Node /\ j \in Job
  BY OfferFacts
<1>2. report \in Payloads /\ AddsUp(report)
  BY DEF Reports, None, Offline
<1>3. /\ report.load \in Nat /\ report.own \in Nat /\ report.knows \in SUBSET Job
      /\ ~report.queued /\ report.load + Size[j] <= Room[n]
      /\ At(n) \in SUBSET report.knows /\ own[n] <= report.own
  BY <1>2 DEF Payloads, RemoteAdmits, Tells
<1> HIDE DEF n, j
<1>4. SizeOf(report.knows) + report.own <= report.load
  BY <1>2, <1>3 DEF AddsUp
<1>5. /\ SizeOf(report.knows) \in Nat /\ SizeOf(At(n)) \in Nat /\ Size[j] \in Nat
      /\ SizeOf(At(n)) <= SizeOf(report.knows)
  BY <1>1, <1>3, SizeFacts
<1>6. own[n] \in Nat /\ Room[n] \in Nat
  BY <1>1, SentAway
<1>7. SizeOf(At(n)) + own[n] + Size[j] <= Room[n]
  BY <1>3, <1>4, <1>5, <1>6
<1> QED BY <1>7 DEF Carried, n, j

\* A judgement sends on what fits, or ends the offer.
LEMMA JudgeKeeps ==
  ASSUME NodesInv, loop.at \in {"ready", "answered"}, NEW report \in Reports, Judge(report),
         UNCHANGED <<place, own>>
  PROVE  loop' \in Offers /\ InHand'
<1>1. loop # Idle /\ loop.job \in Job /\ loop.node \in Node /\ place[loop.job] = "queued"
  BY OfferFacts DEF NodesInv, InHand, Idle
<1>2. CASE loop' = Idle
  BY <1>2 DEF Offers, InHand, Idle
<1>3. CASE loop' # Idle
  <2>1. /\ report.online /\ RemoteAdmits(loop.job, report)
        /\ loop' = [at |-> "ship", job |-> loop.job, node |-> loop.node,
                    sure |-> Tells(report, loop.node)]
    BY <1>3 DEF Judge, Stay
  <2>2. Tells(report, loop.node) \in BOOLEAN
    BY DEF Tells
  <2>3. loop' \in Offers
    BY <1>1, <2>1, <2>2 DEF Offers
  <2>4. Tells(report, loop.node)
          => Carried(loop.node) + Size[loop.job] <= Room[loop.node]
    BY <1>1, <2>1, AdmittedFits
  <2>5. loop'.sure = Tells(report, loop.node) /\ loop'.job = loop.job /\ loop'.node = loop.node
    BY <2>1
  <2>6. \A n : Carried(n)' = Carried(n)
    BY DEF Carried, At
  <2> QED BY <1>1, <2>3, <2>4, <2>5, <2>6 DEF InHand, Carried, At
<1> QED BY <1>2, <1>3

LEMMA InitAddsUp == NodesInit => NodesInv
<1> SUFFICES ASSUME NodesInit PROVE NodesInv
  OBVIOUS
<1>1. place \in [Job -> Node \cup {"queued", "done"}] /\ own \in [Node -> Nat]
  BY DEF NodesInit
<1>2. cache \in [Node -> Reports]
  BY DEF NodesInit, Reports
<1>3. poll = Idle /\ loop = Idle
  BY DEF NodesInit
<1> QED BY <1>1, <1>2, <1>3 DEF NodesInv, Offers, InHand, Idle

\* The poller.
LEMMA PollStep ==
  ASSUME NodesInv, (\E n \in Node : PollAsks(n)) \/ PollKeeps
  PROVE  NodesInv'
<1>1. CASE \E n \in Node : PollAsks(n)
  <2>1. PICK n \in Node : PollAsks(n)
    BY <1>1
  <2>2. poll' \in [at : {"answered"}, node : Node, report : Reports]
    BY <2>1, ReportAddsUp DEF PollAsks
  <2> QED BY <2>1, <2>2 DEF PollAsks, NodesInv, InHand, Carried, At
<1>2. CASE PollKeeps
  <2>1. poll.node \in Node /\ poll.report \in Reports
    BY <1>2 DEF PollKeeps, NodesInv, Idle
  <2>2. cache' \in [Node -> Reports] /\ poll' = Idle
    BY <1>2, <2>1 DEF PollKeeps, Keep, NodesInv
  <2> QED BY <1>2, <2>2 DEF PollKeeps, NodesInv, InHand, Carried, At
<1> QED BY <1>1, <1>2

\* An offer, up to the judgement.
LEMMA OfferStep ==
  ASSUME NodesInv,
         \/ \E n \in Node, j \in Job : Offer(j, n) \/ OfferPinned(j, n)
         \/ LoopAsks \/ LoopJudges
  PROVE  NodesInv'
<1>1. CASE \E n \in Node, j \in Job : Offer(j, n) \/ OfferPinned(j, n)
  <2>1. PICK n \in Node, j \in Job : Offer(j, n) \/ OfferPinned(j, n)
    BY <1>1
  <2>2. /\ loop' = Idle \/ loop' = [at |-> "ready", job |-> j, node |-> n]
        /\ place[j] = "queued" /\ UNCHANGED <<place, own, cache, poll>>
    BY <2>1 DEF Offer, OfferPinned, Offered, Considers, Stay
  <2>3. loop' \in Offers /\ InHand'
    BY <2>2 DEF Offers, InHand, Idle
  <2> QED BY <2>2, <2>3 DEF NodesInv
<1>2. CASE LoopAsks
  <2>1. loop # Idle /\ loop.job \in Job /\ loop.node \in Node /\ place[loop.job] = "queued"
    BY <1>2, OfferFacts DEF LoopAsks, NodesInv, InHand, Idle
  <2>2. /\ loop' = [at |-> "answered", job |-> loop.job, node |-> loop.node,
                    report |-> Report(loop.node)]
        /\ UNCHANGED <<place, own, cache, poll>>
    BY <1>2 DEF LoopAsks
  <2>3. loop' \in Offers /\ InHand'
    BY <2>1, <2>2, ReportAddsUp DEF Offers, InHand
  <2> QED BY <2>2, <2>3 DEF NodesInv
<1>3. CASE LoopJudges
  <2>1. /\ loop.at \in {"ready", "answered"} /\ loop # Idle /\ loop.node \in Node
        /\ UNCHANGED <<place, own, poll>>
    BY <1>3, OfferFacts DEF LoopJudges, Idle
  <2>2. CASE loop.at = "answered" /\ Keep(loop.node, loop.report) /\ Judge(loop.report)
    <3>1. loop.report \in Reports
      BY <2>2, OfferFacts
    <3>2. cache' \in [Node -> Reports]
      BY <2>1, <2>2, <3>1 DEF Keep, NodesInv
    <3>3. loop' \in Offers /\ InHand'
      BY <2>1, <2>2, <3>1, JudgeKeeps
    <3> QED BY <2>1, <3>2, <3>3 DEF NodesInv
  <2>3. CASE Judge(cache[loop.node]) /\ UNCHANGED cache
    <3>1. cache[loop.node] \in Reports
      BY <2>1 DEF NodesInv
    <3>2. loop' \in Offers /\ InHand'
      BY <2>1, <2>3, <3>1, JudgeKeeps
    <3> QED BY <2>1, <2>3, <3>2 DEF NodesInv
  <2> QED BY <1>3, <2>2, <2>3 DEF LoopJudges
<1> QED BY <1>1, <1>2, <1>3

\* A shipment, and what is charged for it.
LEMMA ShipStep ==
  ASSUME NodesInv, Ship \/ ShipFails \/ Account
  PROVE  NodesInv'
<1>1. CASE Ship
  <2>1. /\ loop.job \in Job /\ loop.node \in Node /\ loop.sure \in BOOLEAN
        /\ loop' = [at |-> "account", job |-> loop.job, node |-> loop.node, sure |-> loop.sure]
        /\ place' = [place EXCEPT ![loop.job] = loop.node] /\ UNCHANGED <<own, cache, poll>>
    BY <1>1, OfferFacts DEF Ship, Idle
  <2>2. loop' \in Offers /\ InHand'
    BY <2>1 DEF Offers, InHand
  <2>3. place' \in [Job -> Node \cup {"queued", "done"}]
    BY <2>1 DEF NodesInv
  <2> QED BY <2>1, <2>2, <2>3 DEF NodesInv
<1>2. CASE ShipFails
  BY <1>2 DEF ShipFails, Stay, NodesInv, Offers, InHand, Idle
<1>3. CASE Account
  <2>1. loop' = Idle /\ UNCHANGED <<place, own, poll>> /\ loop.job \in Job /\ loop.node \in Node
    BY <1>3, OfferFacts DEF Account, Stay, Idle
  <2>2. cache' \in [Node -> Reports]
    <3> DEFINE r == cache[loop.node]
    <3>1. r \in Reports /\ cache \in [Node -> Reports]
      BY <2>1 DEF NodesInv
    <3>2. CASE ~r.online
      BY <1>3, <3>1, <3>2 DEF Account
    <3>3. CASE r.online
      <4> DEFINE c == [r EXCEPT !.load = Charged(r, loop.job), !.knows = @ \cup {loop.job}]
      <4>1. c \in Reports
        BY <2>1, <3>1, <3>3, ChargeAddsUp
      <4>2. cache' = [cache EXCEPT ![loop.node] = c]
        BY <1>3, <2>1, <3>1, <3>3 DEF Account
      <4> HIDE DEF c
      <4> QED BY <3>1, <4>1, <4>2
    <3> QED BY <3>2, <3>3
  <2> QED BY <2>1, <2>2 DEF NodesInv, Offers, InHand, Idle
<1> QED BY <1>1, <1>2, <1>3

\* The node and its owner.
LEMMA NodeStep ==
  ASSUME NodesInv, \E n \in Node : OwnerWorks(n) \/ \E j \in Job : NodeEnds(n, j)
  PROVE  NodesInv'
<1>1. PICK n \in Node : OwnerWorks(n) \/ \E j \in Job : NodeEnds(n, j)
  OBVIOUS
<1> DEFINE m == loop.node
<1>2. CASE OwnerWorks(n)
  <2>1. PICK load \in Own \ {own[n]} :
          /\ own' = [own EXCEPT ![n] = load]
          /\ loop' = IF loop.at = "ship" /\ loop.node = n /\ load > own[n]
                     THEN [loop EXCEPT !.sure = FALSE] ELSE loop
          /\ UNCHANGED <<place, cache, poll>>
    BY <1>2 DEF OwnerWorks
  <2>2. load \in Nat /\ own \in [Node -> Nat] /\ own' \in [Node -> Nat]
    BY <2>1, NodeReportsAssumption DEF NodesInv
  <2>3. CASE loop.at = "ship" /\ loop.node = n /\ load > own[n]
    <3>1. /\ loop.job \in Job /\ loop.node \in Node /\ place[loop.job] = "queued"
          /\ loop = [at |-> "ship", job |-> loop.job, node |-> loop.node, sure |-> loop.sure]
      BY <2>3, OfferFacts DEF NodesInv, InHand, Idle
    <3>2. loop' = [at |-> "ship", job |-> loop.job, node |-> loop.node, sure |-> FALSE]
      BY <2>1, <2>3, <3>1
    <3>3. loop' \in Offers
      BY <3>1, <3>2 DEF Offers
    <3>4. loop'.at = "ship" /\ loop'.job = loop.job /\ loop'.sure = FALSE
      BY <3>2
    <3>5. InHand'
      BY <2>1, <3>1, <3>4 DEF InHand
    <3> QED BY <2>1, <2>2, <3>3, <3>5 DEF NodesInv
  <2>4. CASE ~(loop.at = "ship" /\ loop.node = n /\ load > own[n])
    <3>1. loop' = loop
      BY <2>1, <2>4
    <3>2. ASSUME loop.at = "ship", loop.sure PROVE Carried(m)' + Size[loop.job] <= Room[m]
      <4>1. m \in Node /\ loop.job \in Job
        BY <3>2, OfferFacts DEF Idle
      <4>2. /\ own'[m] \in Nat /\ own[m] \in Nat /\ own'[m] <= own[m]
            /\ SizeOf(At(m)) \in Nat /\ Size[loop.job] \in Nat /\ Room[m] \in Nat
        BY <2>1, <2>2, <2>4, <3>2, <4>1, SentAway, SizeFacts
      <4>3. SizeOf(At(m)) + own[m] + Size[loop.job] <= Room[m]
        BY <3>2 DEF NodesInv, InHand, Carried
      <4>4. Carried(m)' = SizeOf(At(m)) + own'[m]
        BY <2>1, <3>1 DEF Carried, At
      <4> HIDE DEF m
      <4> QED BY <4>2, <4>3, <4>4
    <3> QED BY <2>1, <2>2, <3>1, <3>2 DEF NodesInv, InHand, Carried, At
  <2> QED BY <2>3, <2>4
<1>3. CASE \E j \in Job : NodeEnds(n, j)
  <2>1. PICK j \in Job : NodeEnds(n, j)
    BY <1>3
  <2>2. /\ place[j] = n /\ place' = [place EXCEPT ![j] = "done"]
        /\ place \in [Job -> Node \cup {"queued", "done"}]
        /\ UNCHANGED <<own, loop, cache, poll>>
    BY <2>1 DEF NodeEnds, At, NodesInv
  <2>3. n # "queued"
    BY SentAway
  <2>4. ASSUME loop.at \in {"ready", "answered", "ship"} PROVE place'[loop.job] = "queued"
    <3>1. place[loop.job] = "queued" /\ loop.job \in Job
      BY <2>4, OfferFacts DEF NodesInv, InHand, Idle
    <3> QED BY <2>2, <2>3, <3>1
  <2>5. ASSUME loop.at = "ship", loop.sure PROVE Carried(m)' + Size[loop.job] <= Room[m]
    <3>1. m \in Node /\ loop.job \in Job
      BY <2>5, OfferFacts DEF Idle
    <3>2. At(m) \in SUBSET Job /\ At(m)' \in SUBSET At(m)
      BY <2>2, <3>1, SentAway DEF At
    <3>3. /\ SizeOf(At(m)') \in Nat /\ SizeOf(At(m)) \in Nat /\ SizeOf(At(m)') <= SizeOf(At(m))
          /\ Size[loop.job] \in Nat /\ Room[m] \in Nat /\ own[m] \in Nat
      BY <3>1, <3>2, SizeFacts, SentAway
    <3>4. SizeOf(At(m)) + own[m] + Size[loop.job] <= Room[m]
      BY <2>5 DEF NodesInv, InHand, Carried
    <3>5. Carried(m)' = SizeOf(At(m)') + own[m]
      BY <2>2 DEF Carried, SizeOf
    <3> HIDE DEF m
    <3> QED BY <3>3, <3>4, <3>5
  <2> QED BY <2>2, <2>4, <2>5 DEF NodesInv, InHand
<1> QED BY <1>1, <1>2, <1>3

\* The rest looks at neither.
LEMMA NodesStep == NodesInv /\ [NodesNext]_nodesVars => NodesInv'
<1> SUFFICES ASSUME NodesInv, [NodesNext]_nodesVars PROVE NodesInv'
  OBVIOUS
<1> DEFINE Same == UNCHANGED <<place, own, cache, poll, loop>>
<1>1. CASE Same
  BY <1>1 DEF NodesInv, InHand, Carried, At
<1>2. CASE UNCHANGED nodesVars
  BY <1>1, <1>2 DEF nodesVars
<1>3. ASSUME NEW n \in Node,
             \/ Ages(n) \/ DownExpires(n) \/ ReadyExpires(n) \/ LinkChanges(n)
             \/ \E j \in Job : NodeStarts(n, j)
      PROVE  Same
  BY <1>3 DEF Ages, DownExpires, ReadyExpires, LinkChanges, NodeStarts
<1>4. ASSUME NEW r \in Job \X Node, RetryExpires(r) PROVE Same
  BY <1>4 DEF RetryExpires
<1> QED BY <1>1, <1>2, <1>3, <1>4, PollStep, OfferStep, ShipStep, NodeStep DEF NodesNext

\* Every report adds up all it knows of, and the job that is on its way to a node
\* fits there, in every state: for any jobs, nodes and owners, and through any
\* order of polls, answers, shipments and charges.
THEOREM NodesInvariant == NodesSpec => []NodesInv
  BY InitAddsUp, NodesStep, PTL DEF NodesSpec

\* "Nodes never hold a backlog": a job is sent only where it fits beside all that
\* was sent there before, unless the owner of the node began something since the
\* report or the charge for another job was lost with it.
THEOREM NothingIsPiledUp == NodesSpec => NoBacklog
<1> DEFINE Fits == \A j \in Job, n \in Node :
                     place[j] = "queued" /\ place'[j] = n => Carried(n)' <= Room[n] \/ ~loop.sure
<1>1. ASSUME NodesInv, [NodesNext]_nodesVars PROVE [Fits]_nodesVars
  <2> SUFFICES ASSUME NEW j \in Job, NEW n \in Node, place[j] = "queued", place'[j] = n, loop.sure
               PROVE  Carried(n)' <= Room[n]
    OBVIOUS
  <2>1. n # "queued" /\ n # "done"
    BY <1>1, SentAway
  <2>2. Ship
    <3>1. place'[j] # place[j]
      BY <2>1
    <3>2. ASSUME NEW i \in Job, NEW k \in Node, NodeEnds(k, i) PROVE FALSE
      <4>1. place[i] = k /\ place' = [place EXCEPT ![i] = "done"] /\ k # "queued"
        BY <1>1, <3>2, SentAway DEF NodeEnds, At
      <4> QED BY <1>1, <2>1, <3>1, <4>1 DEF NodesInv
    <3>3. place' # place
      BY <3>1
    <3>4. NodesNext
      BY <1>1, <3>3 DEF nodesVars
    <3> QED BY <3>2, <3>3, <3>4
            DEF NodesNext, PollKeeps, LoopAsks, LoopJudges, ShipFails, Account, Ages, PollAsks,
                DownExpires, ReadyExpires, OwnerWorks, LinkChanges, Offer, OfferPinned,
                NodeStarts, RetryExpires
  <2>3. /\ place' = [place EXCEPT ![loop.job] = loop.node] /\ own' = own
        /\ loop.at = "ship" /\ loop.job \in Job /\ loop.node \in Node
    BY <1>1, <2>2, OfferFacts DEF Ship, Idle
  <2>4. j = loop.job /\ n = loop.node
    BY <1>1, <2>1, <2>3 DEF NodesInv
  <2>5. At(n)' = At(n) \cup {j} /\ j \notin At(n)
    BY <1>1, <2>1, <2>3, <2>4 DEF NodesInv, At
  <2>6. At(n) \in SUBSET Job /\ own[n] \in Nat /\ Room[n] \in Nat
    BY <1>1, SentAway
  <2>7. SizeOf(At(n)') = SizeOf(At(n)) + Size[j] /\ SizeOf(At(n)) \in Nat /\ Size[j] \in Nat
    BY <2>5, <2>6, SizeFacts
  <2>8. SizeOf(At(n)) + own[n] + Size[j] <= Room[n]
    BY <1>1, <2>3, <2>4 DEF NodesInv, InHand, Carried
  <2>9. Carried(n)' = SizeOf(At(n)') + own[n]
    BY <2>3 DEF Carried, SizeOf
  <2> QED BY <2>6, <2>7, <2>8, <2>9
<1> QED BY <1>1, NodesInvariant, PTL DEF NodesSpec, NoBacklog
=============================================================================
